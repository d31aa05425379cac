------------------------- MODULE CloudChannelProofs -------------------------
(***************************************************************************)
(* The safety properties of CloudChannel hold for any number of senders,   *)
(* reconnectors and faults, whether or not the cloud closes handshakes.    *)
(* The inductive invariant IInv says who may be where while the channel's  *)
(* fields are being taken down and set up again.                           *)
(*                                                                         *)
(* So do those of GatewayHealth, whose argument, at the end of the module, *)
(* uses of the channel only that it implements SessionLifecycle: an        *)
(* identifier is published while no socket is installed, and the next      *)
(* socket installed is the one it names.                                   *)
(***************************************************************************)
EXTENDS GatewayHealth, TLAPS

Active(r) == epc[r] \notin {"idle", "raised"}

(* The send lock belongs to the one sender inside the with block.          *)
LockInv == \A t \in Senders : spc[t] \in Locked <=> sendLock = t

(* Until main has installed the first session nothing else has started.    *)
StartupInv ==
    /\ epc[Main] \notin {"idle", "finish"}
    /\ \A r \in Reconnectors : epc[r] # "done"
    /\ epc[Main] = "setState" => sock # NoSession
    /\ epc[Main] # "done" =>
          /\ \A r \in Reconnectors : epc[r] = "idle"
          /\ \A t \in Senders : spc[t] = "idle"

(* _reconnecting is set exactly while one reconnect thread is alive.       *)
ReconnectInv ==
    /\ \A r \in Reconnectors : Active(r) => reconnecting
    /\ \A q, r \in Reconnectors : Active(q) /\ Active(r) => q = r
    /\ reconnecting => \E r \in Reconnectors : Active(r)

(* While a thread has yet to install its socket there is none, and no      *)
(* sender is writing to one or taking one down.                            *)
InstallInv ==
    \A e \in Establishers : epc[e] \in PreInstall \cup {"unwind"} =>
        /\ sock = NoSession
        /\ \A t \in Senders : spc[t] \notin {"sendall"} \cup Failing

(* What a thread that is installing a session has already written.         *)
AttemptInv ==
    \A e \in Establishers :
        /\ epc[e] \in {"connect", "handshake"} \cup Installing =>
              /\ attempt[e] \in Session
              /\ \A t \in Senders : frame[t].seen # attempt[e]
        /\ epc[e] \in Installing => sessionKey = attempt[e]
        /\ epc[e] = "setSock" => sessionId = attempt[e]

(* A sender writes to, and invalidates, the installed session only.        *)
SendInv ==
    \A t \in Senders :
        /\ spc[t] \in {"sendall", "dropSock"} =>
              sock = frame[t].sock /\ sock # NoSession
        /\ spc[t] \in {"dropKey", "markFailed", "restart"} => sock = NoSession

(* As long as the session that is_established saw is still installed, what *)
(* has been read since belongs to it.                                      *)
FrameInv ==
    \A t \in Senders :
        /\ frame[t].seen \in Session \cup {NoSession}
        /\ spc[t] \in {"checkKey", "readKey", "readId", "acquire", "deref",
                       "sendall"} => frame[t].seen # NoSession
        /\ spc[t] \in {"readId", "acquire", "deref", "sendall"} /\
           sock = frame[t].seen => frame[t].key = frame[t].seen
        /\ spc[t] \in {"acquire", "deref", "sendall"} /\
           sock = frame[t].seen => frame[t].sid = frame[t].seen

IInv ==
    /\ TypeOK
    /\ LockInv
    /\ StartupInv
    /\ ReconnectInv
    /\ InstallInv
    /\ AttemptInv
    /\ LiveSocketCoherent
    /\ SendInv
    /\ FrameInv
    /\ RepairUnderWay

-----------------------------------------------------------------------------
(* The types of the fields are preserved by every step.                    *)
LEMMA TypeStep ==
    ASSUME TypeOK, [Next]_vars
    PROVE  TypeOK'
<1> USE ChannelAssumption DEF channel, establish, network, EGoto, SGoto,
   Leave, Fault, Establishers, NoSession, Session, TypeOK, State,
   EstablisherPc, PreInstall, Retrying, Installing, SenderPc, Resting,
   Locked, Failing, Frame, NoFrame
<1>1. ASSUME NEW e \in Establishers, BeginAttempt(e) PROVE TypeOK'
  BY <1>1 DEF BeginAttempt
<1>2. ASSUME NEW e \in Establishers,
             Connect(e) \/ Handshake(e) \/ SetId(e) \/ SetSock(e)
      PROVE  TypeOK'
  <2>1. CASE Connect(e)
    BY <2>1 DEF Connect
  <2>2. CASE Handshake(e)
    BY <2>2 DEF Handshake
  <2>3. CASE SetId(e)
    BY <2>3 DEF SetId
  <2>4. CASE SetSock(e)
    BY <2>4 DEF SetSock
  <2>5. QED
    BY <1>2, <2>1, <2>2, <2>3, <2>4
<1>3. ASSUME NEW e \in Establishers, SetState(e) PROVE TypeOK'
  BY <1>3 DEF SetState
<1>4. ASSUME NEW e \in Establishers, AttemptFails(e) PROVE TypeOK'
  BY <1>4 DEF AttemptFails
<1>5. ASSUME NEW e \in Establishers,
             PeerClosesHandshake(e)
      PROVE  TypeOK'
  BY <1>5 DEF PeerClosesHandshake
<1>6. ASSUME NEW e \in Establishers,
             MarkAttemptFailed(e) \/ Retry(e)
      PROVE  TypeOK'
  BY <1>6, ZenonT(40) DEF MarkAttemptFailed, Retry
<1>7. ASSUME NEW e \in Establishers, Finish(e) PROVE TypeOK'
  BY <1>7 DEF Finish
<1>8. ASSUME NEW e \in Establishers, Unwind(e) PROVE TypeOK'
  BY <1>8 DEF Unwind
<1>9. ASSUME NEW t \in Senders, CheckState(t) PROVE TypeOK'
  BY <1>9 DEF CheckState
<1>10. ASSUME NEW t \in Senders,
             CheckSock(t) \/ CheckKey(t) \/ ReadKey(t) \/ ReadId(t)
      PROVE  TypeOK'
  <2>1. CASE CheckSock(t)
    BY <2>1, SMTT(30) DEF CheckSock
  <2>2. CASE CheckKey(t)
    BY <2>2, SMTT(30) DEF CheckKey
  <2>3. CASE ReadKey(t)
    BY <2>3, SMTT(30) DEF ReadKey
  <2>4. CASE ReadId(t)
    BY <2>4, SMTT(30) DEF ReadId
  <2>5. QED
    BY <1>10, <2>1, <2>2, <2>3, <2>4
<1>11. ASSUME NEW t \in Senders,
             Acquire(t) \/ Deref(t)
      PROVE  TypeOK'
  <2>1. CASE Acquire(t)
    BY <2>1, SMTT(30) DEF Acquire
  <2>2. CASE Deref(t)
    BY <2>2, SMTT(30) DEF Deref
  <2>3. QED
    BY <1>11, <2>1, <2>2
<1>12. ASSUME NEW t \in Senders, Sendall(t) PROVE TypeOK'
  BY <1>12 DEF Sendall
<1>13. ASSUME NEW t \in Senders, SendallRaises(t) PROVE TypeOK'
  BY <1>13 DEF SendallRaises
<1>14. ASSUME NEW t \in Senders,
             DropSock(t) \/ DropKey(t) \/ MarkFailed(t)
      PROVE  TypeOK'
  <2>1. CASE DropSock(t)
    BY <2>1 DEF DropSock
  <2>2. CASE DropKey(t)
    BY <2>2 DEF DropKey
  <2>3. CASE MarkFailed(t)
    BY <2>3 DEF MarkFailed
  <2>4. QED
    BY <1>14, <2>1, <2>2, <2>3
<1>15. ASSUME NEW t \in Senders, StartReconnect(t) PROVE TypeOK'
  BY <1>15 DEF StartReconnect
<1>16. CASE Break
  <2>1. sock \in Session
    BY <1>16 DEF Break
  <2>2. gone' \subseteq Session /\ reset' \subseteq Session
    BY <1>16, <2>1 DEF Break
  <2>3. faults' \in 0 .. MaxFaults
    BY <1>16 DEF Break
  <2>4. UNCHANGED <<channel, sendLock, reconnecting, establish, spc, frame,
                    skipped>>
    BY <1>16 DEF Break
  <2>5. QED
    BY <2>2, <2>3, <2>4
<1>17. CASE UNCHANGED vars
  BY <1>17 DEF vars
<1>18. QED
  BY <1>1, <1>2, <1>3, <1>4, <1>5, <1>6, <1>7, <1>8, <1>9, <1>10, <1>11,
     <1>12, <1>13, <1>14, <1>15, <1>16, <1>17 DEF Next, Establisher, Sender

(* Acquire takes the lock when it is free, and every way out of the with   *)
(* block gives it back.                                                    *)
LEMMA LockStep ==
    ASSUME TypeOK, LockInv, [Next]_vars
    PROVE  LockInv'
<1> USE ChannelAssumption DEF channel, establish, network, EGoto, SGoto,
   Leave, Fault, Establishers, NoSession, Session, TypeOK, State,
   EstablisherPc, PreInstall, Retrying, Installing, SenderPc, Resting,
   Locked, Failing, Frame, NoFrame, LockInv
<1>1. ASSUME NEW e \in Establishers, Establisher(e) PROVE LockInv'
  BY <1>1 DEF Establisher, BeginAttempt, Connect, Handshake, SetId, SetSock,
     SetState, AttemptFails, MarkAttemptFailed, Retry, PeerClosesHandshake,
     Finish, Unwind
<1>2. ASSUME NEW t \in Senders,
             CheckState(t) \/ CheckSock(t) \/ CheckKey(t) \/ ReadKey(t) \/
             ReadId(t)
      PROVE  LockInv'
  BY <1>2 DEF CheckState, CheckSock, CheckKey, ReadKey, ReadId
<1>3. ASSUME NEW t \in Senders, Acquire(t) PROVE LockInv'
  BY <1>3 DEF Acquire
<1>4. ASSUME NEW t \in Senders, Deref(t) PROVE LockInv'
  BY <1>4 DEF Deref
<1>5. ASSUME NEW t \in Senders,
             Sendall(t) \/ StartReconnect(t)
      PROVE  LockInv'
  BY <1>5 DEF Sendall, StartReconnect
<1>6. ASSUME NEW t \in Senders,
             SendallRaises(t) \/ DropSock(t) \/ DropKey(t) \/ MarkFailed(t)
      PROVE  LockInv'
  BY <1>6 DEF SendallRaises, DropSock, DropKey, MarkFailed
<1>7. CASE Break \/ UNCHANGED vars
  BY <1>7 DEF Break, vars
<1>8. QED
  BY <1>1, <1>2, <1>3, <1>4, <1>5, <1>6, <1>7 DEF Next, Establisher, Sender

(* Senders and reconnectors start only after main is done.                 *)
LEMMA StartupStep ==
    ASSUME TypeOK, StartupInv, AttemptInv, [Next]_vars
    PROVE  StartupInv'
<1> USE ChannelAssumption DEF channel, establish, network, EGoto, SGoto,
   Leave, Fault, Establishers, NoSession, Session, TypeOK, State,
   EstablisherPc, PreInstall, Retrying, Installing, SenderPc, Resting,
   Locked, Failing, Frame, NoFrame, StartupInv, AttemptInv
<1>1. ASSUME NEW e \in Establishers, SetSock(e) PROVE StartupInv'
  BY <1>1 DEF SetSock
<1>2. ASSUME NEW e \in Establishers, SetState(e) PROVE StartupInv'
  BY <1>2 DEF SetState
<1>3. ASSUME NEW e \in Establishers,
             BeginAttempt(e) \/ Connect(e) \/ Handshake(e) \/ SetId(e)
      PROVE  StartupInv'
  BY <1>3 DEF BeginAttempt, Connect, Handshake, SetId
<1>4. ASSUME NEW e \in Establishers,
             AttemptFails(e) \/ PeerClosesHandshake(e)
      PROVE  StartupInv'
  BY <1>4 DEF AttemptFails, PeerClosesHandshake
<1>5. ASSUME NEW e \in Establishers,
             MarkAttemptFailed(e) \/ Retry(e)
      PROVE  StartupInv'
  BY <1>5 DEF MarkAttemptFailed, Retry
<1>6. ASSUME NEW e \in Establishers, Finish(e) PROVE StartupInv'
  BY <1>6 DEF Finish
<1>7. ASSUME NEW e \in Establishers, Unwind(e) PROVE StartupInv'
  BY <1>7 DEF Unwind
<1>8. ASSUME NEW t \in Senders, CheckState(t) PROVE StartupInv'
  BY <1>8 DEF CheckState
<1>9. ASSUME NEW t \in Senders, StartReconnect(t) PROVE StartupInv'
  BY <1>9 DEF StartReconnect
<1>10. ASSUME NEW t \in Senders,
             CheckSock(t) \/ CheckKey(t) \/ ReadKey(t) \/ ReadId(t) \/
             Acquire(t) \/ Deref(t) \/ Sendall(t) \/ SendallRaises(t) \/
             DropSock(t) \/ DropKey(t) \/ MarkFailed(t)
      PROVE  StartupInv'
  BY <1>10 DEF CheckSock, CheckKey, ReadKey, ReadId, Acquire, Deref, Sendall,
     SendallRaises, DropSock, DropKey, MarkFailed
<1>11. CASE Break \/ UNCHANGED vars
  BY <1>11 DEF Break, vars
<1>12. QED
  BY <1>1, <1>2, <1>3, <1>4, <1>5, <1>6, <1>7, <1>8, <1>9, <1>10, <1>11 DEF
     Next, Establisher, Sender

(* StartReconnect finds the flag down only when no reconnect thread is     *)
(* alive, and the thread takes it down when it ends.                       *)
LEMMA ReconnectStep ==
    ASSUME TypeOK, StartupInv, ReconnectInv, [Next]_vars
    PROVE  ReconnectInv'
<1> USE ChannelAssumption DEF channel, establish, network, EGoto, SGoto,
   Leave, Fault, Establishers, NoSession, Session, TypeOK, State,
   EstablisherPc, PreInstall, Retrying, Installing, SenderPc, Resting,
   Locked, Failing, Frame, NoFrame, StartupInv, ReconnectInv, Active
<1>1. ASSUME NEW e \in Establishers,
             Finish(e) \/ Unwind(e)
      PROVE  ReconnectInv'
  BY <1>1 DEF Finish, Unwind
<1>2. ASSUME NEW e \in Establishers, SetState(e) PROVE ReconnectInv'
  BY <1>2 DEF SetState
<1>3. ASSUME NEW e \in Establishers,
             BeginAttempt(e) \/ Connect(e) \/ Handshake(e) \/ SetId(e) \/
             SetSock(e) \/ AttemptFails(e) \/ MarkAttemptFailed(e) \/
             Retry(e) \/ PeerClosesHandshake(e)
      PROVE  ReconnectInv'
  BY <1>3 DEF BeginAttempt, Connect, Handshake, SetId, SetSock, AttemptFails,
     MarkAttemptFailed, Retry, PeerClosesHandshake
<1>4. ASSUME NEW t \in Senders, StartReconnect(t) PROVE ReconnectInv'
  BY <1>4 DEF StartReconnect
<1>5. ASSUME NEW t \in Senders,
             CheckState(t) \/ CheckSock(t) \/ CheckKey(t) \/ ReadKey(t) \/
             ReadId(t) \/ Acquire(t) \/ Deref(t) \/ Sendall(t) \/
             SendallRaises(t) \/ DropSock(t) \/ DropKey(t) \/ MarkFailed(t)
      PROVE  ReconnectInv'
  BY <1>5 DEF CheckState, CheckSock, CheckKey, ReadKey, ReadId, Acquire,
     Deref, Sendall, SendallRaises, DropSock, DropKey, MarkFailed
<1>6. CASE Break \/ UNCHANGED vars
  BY <1>6 DEF Break, vars
<1>7. QED
  BY <1>1, <1>2, <1>3, <1>4, <1>5, <1>6 DEF Next, Establisher, Sender

(* A thread begins to establish only after a sender has dropped the        *)
(* socket, and until it installs its own no sender gets past Deref.        *)
LEMMA InstallStep ==
    ASSUME TypeOK, LockInv, StartupInv, ReconnectInv, InstallInv, SendInv,
       [Next]_vars
    PROVE  InstallInv'
<1> USE ChannelAssumption DEF channel, establish, network, EGoto, SGoto,
   Leave, Fault, Establishers, NoSession, Session, TypeOK, State,
   EstablisherPc, PreInstall, Retrying, Installing, SenderPc, Resting,
   Locked, Failing, Frame, NoFrame, LockInv, StartupInv, ReconnectInv,
   InstallInv, SendInv, Active
<1>1. ASSUME NEW e \in Establishers, SetSock(e) PROVE InstallInv'
  BY <1>1 DEF SetSock
<1>2. ASSUME NEW e \in Establishers,
             BeginAttempt(e) \/ Connect(e) \/ Handshake(e) \/ SetId(e)
      PROVE  InstallInv'
  BY <1>2 DEF BeginAttempt, Connect, Handshake, SetId
<1>3. ASSUME NEW e \in Establishers, SetState(e) PROVE InstallInv'
  BY <1>3 DEF SetState
<1>4. ASSUME NEW e \in Establishers,
             AttemptFails(e) \/ PeerClosesHandshake(e)
      PROVE  InstallInv'
  BY <1>4 DEF AttemptFails, PeerClosesHandshake
<1>5. ASSUME NEW e \in Establishers,
             MarkAttemptFailed(e) \/ Retry(e)
      PROVE  InstallInv'
  BY <1>5 DEF MarkAttemptFailed, Retry
<1>6. ASSUME NEW e \in Establishers,
             Finish(e) \/ Unwind(e)
      PROVE  InstallInv'
  <2>1. UNCHANGED <<sock, spc>>
    BY <1>6 DEF Finish, Unwind
  <2>2. epc \in [Establishers -> EstablisherPc]
    OBVIOUS
  <2>3. \/ epc' = [epc EXCEPT ![e] = "idle"]
        \/ epc' = [epc EXCEPT ![e] = "raised"]
    BY <1>6 DEF Finish, Unwind
  <2>4. \A d \in Establishers \ {e} : epc'[d] = epc[d]
    BY <2>2, <2>3
  <2>5. epc'[e] \notin PreInstall \cup {"unwind"}
    BY <2>2, <2>3
  <2>6. QED
    BY <2>1, <2>4, <2>5
<1>7. ASSUME NEW t \in Senders, Deref(t) PROVE InstallInv'
  BY <1>7 DEF Deref
<1>8. ASSUME NEW t \in Senders,
             SendallRaises(t) \/ DropSock(t)
      PROVE  InstallInv'
  BY <1>8 DEF SendallRaises, DropSock
<1>9. ASSUME NEW t \in Senders, StartReconnect(t) PROVE InstallInv'
  BY <1>9 DEF StartReconnect
<1>10. ASSUME NEW t \in Senders,
             CheckState(t) \/ CheckSock(t) \/ CheckKey(t) \/ ReadKey(t) \/
             ReadId(t) \/ Acquire(t) \/ Sendall(t) \/ DropKey(t) \/
             MarkFailed(t)
      PROVE  InstallInv'
  BY <1>10 DEF CheckState, CheckSock, CheckKey, ReadKey, ReadId, Acquire,
     Sendall, DropKey, MarkFailed
<1>11. CASE Break \/ UNCHANGED vars
  BY <1>11 DEF Break, vars
<1>12. QED
  BY <1>1, <1>2, <1>3, <1>4, <1>5, <1>6, <1>7, <1>8, <1>9, <1>10, <1>11 DEF
     Next, Establisher, Sender

(* Only the establishing thread writes the key and the identifier while it *)
(* installs them, and its attempt is newer than what any sender saw.       *)
LEMMA AttemptStep ==
    ASSUME TypeOK, StartupInv, ReconnectInv, InstallInv, AttemptInv,
       FrameInv, [Next]_vars
    PROVE  AttemptInv'
<1> USE ChannelAssumption DEF channel, establish, network, EGoto, SGoto,
   Leave, Fault, Establishers, NoSession, Session, TypeOK, State,
   EstablisherPc, PreInstall, Retrying, Installing, SenderPc, Resting,
   Locked, Failing, Frame, NoFrame, StartupInv, ReconnectInv, InstallInv,
   AttemptInv, FrameInv, Active
<1>1. ASSUME NEW e \in Establishers, BeginAttempt(e) PROVE AttemptInv'
  BY <1>1 DEF BeginAttempt
<1>2. ASSUME NEW e \in Establishers,
             Connect(e) \/ SetSock(e) \/ SetState(e)
      PROVE  AttemptInv'
  BY <1>2 DEF Connect, SetSock, SetState
<1>3. ASSUME NEW e \in Establishers, Handshake(e) PROVE AttemptInv'
  BY <1>3 DEF Handshake
<1>4. ASSUME NEW e \in Establishers, SetId(e) PROVE AttemptInv'
  BY <1>4 DEF SetId
<1>5. ASSUME NEW e \in Establishers,
             AttemptFails(e) \/ PeerClosesHandshake(e)
      PROVE  AttemptInv'
  BY <1>5 DEF AttemptFails, PeerClosesHandshake
<1>6. ASSUME NEW e \in Establishers,
             MarkAttemptFailed(e) \/ Retry(e)
      PROVE  AttemptInv'
  BY <1>6 DEF MarkAttemptFailed, Retry
<1>7. ASSUME NEW e \in Establishers, Finish(e) PROVE AttemptInv'
  BY <1>7 DEF Finish
<1>8. ASSUME NEW e \in Establishers, Unwind(e) PROVE AttemptInv'
  BY <1>8 DEF Unwind
<1>9. ASSUME NEW t \in Senders, CheckSock(t) PROVE AttemptInv'
  BY <1>9 DEF CheckSock
<1>10. ASSUME NEW t \in Senders, DropKey(t) PROVE AttemptInv'
  BY <1>10 DEF DropKey
<1>11. ASSUME NEW t \in Senders, StartReconnect(t) PROVE AttemptInv'
  BY <1>11 DEF StartReconnect
<1>12. ASSUME NEW t \in Senders,
             CheckState(t) \/ CheckKey(t) \/ ReadKey(t) \/ ReadId(t) \/
             Acquire(t) \/ Deref(t) \/ Sendall(t) \/ SendallRaises(t) \/
             DropSock(t) \/ MarkFailed(t)
      PROVE  AttemptInv'
  BY <1>12 DEF CheckState, CheckKey, ReadKey, ReadId, Acquire, Deref,
     Sendall, SendallRaises, DropSock, MarkFailed
<1>13. CASE Break \/ UNCHANGED vars
  BY <1>13 DEF Break, vars
<1>14. QED
  BY <1>1, <1>2, <1>3, <1>4, <1>5, <1>6, <1>7, <1>8, <1>9, <1>10, <1>11,
     <1>12, <1>13 DEF Next, Establisher, Sender

(* The socket is installed after the key and the identifier and dropped    *)
(* before the key.                                                         *)
LEMMA CoherentStep ==
    ASSUME TypeOK, InstallInv, AttemptInv, SendInv, LiveSocketCoherent,
       [Next]_vars
    PROVE  LiveSocketCoherent'
<1> USE ChannelAssumption DEF channel, establish, network, EGoto, SGoto,
   Leave, Fault, Establishers, NoSession, Session, TypeOK, State,
   EstablisherPc, PreInstall, Retrying, Installing, SenderPc, Resting,
   Locked, Failing, Frame, NoFrame, InstallInv, AttemptInv, SendInv,
   LiveSocketCoherent
<1>1. ASSUME NEW e \in Establishers,
             Handshake(e) \/ SetId(e)
      PROVE  LiveSocketCoherent'
  BY <1>1 DEF Handshake, SetId
<1>2. ASSUME NEW e \in Establishers, SetSock(e) PROVE LiveSocketCoherent'
  BY <1>2 DEF SetSock
<1>3. ASSUME NEW e \in Establishers,
             BeginAttempt(e) \/ Connect(e) \/ SetState(e) \/
             AttemptFails(e) \/ MarkAttemptFailed(e) \/ Retry(e) \/
             PeerClosesHandshake(e) \/ Finish(e) \/ Unwind(e)
      PROVE  LiveSocketCoherent'
  BY <1>3 DEF BeginAttempt, Connect, SetState, AttemptFails,
     MarkAttemptFailed, Retry, PeerClosesHandshake, Finish, Unwind
<1>4. ASSUME NEW t \in Senders, DropSock(t) PROVE LiveSocketCoherent'
  BY <1>4 DEF DropSock
<1>5. ASSUME NEW t \in Senders, DropKey(t) PROVE LiveSocketCoherent'
  BY <1>5 DEF DropKey
<1>6. ASSUME NEW t \in Senders,
             CheckState(t) \/ CheckSock(t) \/ CheckKey(t) \/ ReadKey(t) \/
             ReadId(t) \/ Acquire(t) \/ Deref(t) \/ Sendall(t) \/
             SendallRaises(t) \/ MarkFailed(t) \/ StartReconnect(t)
      PROVE  LiveSocketCoherent'
  BY <1>6 DEF CheckState, CheckSock, CheckKey, ReadKey, ReadId, Acquire,
     Deref, Sendall, SendallRaises, MarkFailed, StartReconnect
<1>7. CASE Break \/ UNCHANGED vars
  BY <1>7 DEF Break, vars
<1>8. QED
  BY <1>1, <1>2, <1>3, <1>4, <1>5, <1>6, <1>7 DEF Next, Establisher, Sender

(* The holder of the send lock is the only one that takes the socket away, *)
(* and nobody replaces it under the holder.                                *)
LEMMA SendStep ==
    ASSUME TypeOK, LockInv, InstallInv, SendInv, [Next]_vars
    PROVE  SendInv'
<1> USE ChannelAssumption DEF channel, establish, network, EGoto, SGoto,
   Leave, Fault, Establishers, NoSession, Session, TypeOK, State,
   EstablisherPc, PreInstall, Retrying, Installing, SenderPc, Resting,
   Locked, Failing, Frame, NoFrame, LockInv, InstallInv, SendInv
<1>1. ASSUME NEW e \in Establishers, SetSock(e) PROVE SendInv'
  <2>1. \A t \in Senders : spc[t] \notin {"sendall"} \cup Failing
    BY <1>1 DEF SetSock
  <2>2. QED
    BY <1>1, <2>1 DEF SetSock
<1>2. ASSUME NEW e \in Establishers,
             BeginAttempt(e) \/ Connect(e) \/ Handshake(e) \/ SetId(e) \/
             SetState(e) \/ AttemptFails(e) \/ MarkAttemptFailed(e) \/
             Retry(e) \/ PeerClosesHandshake(e) \/ Finish(e) \/ Unwind(e)
      PROVE  SendInv'
  BY <1>2 DEF BeginAttempt, Connect, Handshake, SetId, SetState,
     AttemptFails, MarkAttemptFailed, Retry, PeerClosesHandshake, Finish,
     Unwind
<1>3. ASSUME NEW t \in Senders, Deref(t) PROVE SendInv'
  BY <1>3 DEF Deref
<1>4. ASSUME NEW t \in Senders, DropSock(t) PROVE SendInv'
  BY <1>4 DEF DropSock
<1>5. ASSUME NEW t \in Senders,
             CheckState(t) \/ CheckSock(t) \/ CheckKey(t) \/ ReadKey(t) \/
             ReadId(t) \/ Acquire(t) \/ Sendall(t) \/ SendallRaises(t) \/
             DropKey(t) \/ MarkFailed(t) \/ StartReconnect(t)
      PROVE  SendInv'
  BY <1>5 DEF CheckState, CheckSock, CheckKey, ReadKey, ReadId, Acquire,
     Sendall, SendallRaises, DropKey, MarkFailed, StartReconnect
<1>6. CASE Break \/ UNCHANGED vars
  BY <1>6 DEF Break, vars
<1>7. QED
  BY <1>1, <1>2, <1>3, <1>4, <1>5, <1>6 DEF Next, Establisher, Sender

(* What a sender reads while the session it saw is installed belongs to    *)
(* that session; a new one has a number it has not seen.                   *)
LEMMA FrameStep ==
    ASSUME TypeOK, InstallInv, AttemptInv, LiveSocketCoherent, FrameInv,
       [Next]_vars
    PROVE  FrameInv'
<1> USE ChannelAssumption DEF channel, establish, network, EGoto, SGoto,
   Leave, Fault, Establishers, NoSession, Session, TypeOK, State,
   EstablisherPc, PreInstall, Retrying, Installing, SenderPc, Resting,
   Locked, Failing, Frame, NoFrame, InstallInv, AttemptInv,
   LiveSocketCoherent, FrameInv
<1>1. ASSUME NEW e \in Establishers, BeginAttempt(e) PROVE FrameInv'
  BY <1>1 DEF BeginAttempt
<1>2. ASSUME NEW e \in Establishers, SetSock(e) PROVE FrameInv'
  BY <1>2 DEF SetSock
<1>3. ASSUME NEW e \in Establishers,
             Connect(e) \/ Handshake(e) \/ SetId(e) \/ SetState(e) \/
             AttemptFails(e) \/ MarkAttemptFailed(e) \/ Retry(e) \/
             PeerClosesHandshake(e) \/ Finish(e) \/ Unwind(e)
      PROVE  FrameInv'
  BY <1>3 DEF Connect, Handshake, SetId, SetState, AttemptFails,
     MarkAttemptFailed, Retry, PeerClosesHandshake, Finish, Unwind
<1>4. ASSUME NEW t \in Senders, CheckSock(t) PROVE FrameInv'
  BY <1>4 DEF CheckSock
<1>5. ASSUME NEW t \in Senders, ReadKey(t) PROVE FrameInv'
  BY <1>5 DEF ReadKey
<1>6. ASSUME NEW t \in Senders, ReadId(t) PROVE FrameInv'
  BY <1>6 DEF ReadId
<1>7. ASSUME NEW t \in Senders, DropSock(t) PROVE FrameInv'
  BY <1>7 DEF DropSock
<1>8. ASSUME NEW t \in Senders,
             CheckState(t) \/ CheckKey(t) \/ Acquire(t) \/ Deref(t) \/
             Sendall(t) \/ SendallRaises(t) \/ DropKey(t) \/ MarkFailed(t)
             \/ StartReconnect(t)
      PROVE  FrameInv'
  BY <1>8 DEF CheckState, CheckKey, Acquire, Deref, Sendall, SendallRaises,
     DropKey, MarkFailed, StartReconnect
<1>9. CASE Break \/ UNCHANGED vars
  BY <1>9 DEF Break, vars
<1>10. QED
  BY <1>1, <1>2, <1>3, <1>4, <1>5, <1>6, <1>7, <1>8, <1>9 DEF Next,
     Establisher, Sender

(* Each step hands the duty to repair the channel over to the next.        *)
LEMMA RepairStep ==
    ASSUME TypeOK, StartupInv, AttemptInv, RepairUnderWay, [Next]_vars
    PROVE  RepairUnderWay'
<1> USE ChannelAssumption DEF channel, establish, network, EGoto, SGoto,
   Leave, Fault, Establishers, NoSession, Session, TypeOK, State,
   EstablisherPc, PreInstall, Retrying, Installing, SenderPc, Resting,
   Locked, Failing, Frame, NoFrame, StartupInv, AttemptInv, RepairUnderWay
<1>1. ASSUME NEW e \in Establishers, SetSock(e) PROVE RepairUnderWay'
  <2>1. sock' # NoSession
    BY <1>1 DEF SetSock, AttemptInv
  <2>2. QED
    BY <2>1 DEF RepairUnderWay
<1>2. ASSUME NEW e \in Establishers, SetState(e) PROVE RepairUnderWay'
  BY <1>2 DEF SetState
<1>3. ASSUME NEW e \in Establishers,
             BeginAttempt(e) \/ Connect(e) \/ Handshake(e) \/ SetId(e) \/
             AttemptFails(e) \/ MarkAttemptFailed(e) \/ Retry(e) \/
             PeerClosesHandshake(e) \/ Finish(e) \/ Unwind(e)
      PROVE  RepairUnderWay'
  <2>1. CASE BeginAttempt(e) \/ Connect(e) \/ Handshake(e) \/ SetId(e)
    BY <2>1 DEF BeginAttempt, Connect, Handshake, SetId
  <2>2. CASE AttemptFails(e) \/ MarkAttemptFailed(e) \/ Retry(e)
    BY <2>2 DEF AttemptFails, MarkAttemptFailed, Retry
  <2>3. CASE PeerClosesHandshake(e) \/ Finish(e) \/ Unwind(e)
    BY <2>3 DEF PeerClosesHandshake, Finish, Unwind
  <2>4. QED
    BY <1>3, <2>1, <2>2, <2>3
<1>4. ASSUME NEW t \in Senders, DropSock(t) PROVE RepairUnderWay'
  BY <1>4 DEF DropSock
<1>5. ASSUME NEW t \in Senders, StartReconnect(t) PROVE RepairUnderWay'
  BY <1>5 DEF StartReconnect
<1>6. ASSUME NEW t \in Senders,
             CheckState(t) \/ CheckSock(t) \/ CheckKey(t) \/ ReadKey(t) \/
             ReadId(t) \/ Acquire(t) \/ Deref(t) \/ Sendall(t) \/
             SendallRaises(t) \/ DropKey(t) \/ MarkFailed(t)
      PROVE  RepairUnderWay'
  BY <1>6 DEF CheckState, CheckSock, CheckKey, ReadKey, ReadId, Acquire,
     Deref, Sendall, SendallRaises, DropKey, MarkFailed
<1>7. CASE Break \/ UNCHANGED vars
  BY <1>7 DEF Break, vars
<1>8. QED
  BY <1>1, <1>2, <1>3, <1>4, <1>5, <1>6, <1>7 DEF Next, Establisher, Sender


(* IInv holds when the constructor has returned and main starts to connect.*)
LEMMA InitIInv == Init => IInv
<1> SUFFICES ASSUME Init PROVE IInv
  OBVIOUS
<1> USE ChannelAssumption DEF Init
<1>1. /\ state \in State /\ nextSession \in Nat \ {0}
      /\ faults \in 0 .. MaxFaults
      /\ gone \subseteq Session /\ reset \subseteq Session
      /\ sendLock \in Senders \cup {Free}
  BY DEF State
<1>2. epc \in [Establishers -> EstablisherPc]
  BY DEF EstablisherPc, PreInstall, Retrying
<1>3. spc \in [Senders -> SenderPc]
  BY DEF SenderPc, Resting
<1>4. frame \in [Senders -> Frame]
  BY DEF Frame, NoFrame, NoSession
<1>5. TypeOK
  BY <1>1, <1>2, <1>3, <1>4 DEF TypeOK, NoSession
<1>6. LockInv /\ StartupInv /\ ReconnectInv
  BY DEF LockInv, StartupInv, ReconnectInv, Active, Establishers, Locked,
     Failing, Resting
<1>7. InstallInv /\ AttemptInv
  BY DEF InstallInv, AttemptInv, Establishers, PreInstall, Retrying,
     Installing, Failing
<1>8. LiveSocketCoherent /\ SendInv /\ FrameInv /\ RepairUnderWay
  BY DEF LiveSocketCoherent, SendInv, FrameInv, RepairUnderWay, NoFrame,
     NoSession, Establishers
<1>9. QED
  BY <1>5, <1>6, <1>7, <1>8 DEF IInv

(* The invariant is inductive: the lemmas above, one per part.             *)
LEMMA NextIInv == IInv /\ [Next]_vars => IInv'
  BY TypeStep, LockStep, StartupStep, ReconnectStep, InstallStep, AttemptStep,
     CoherentStep, SendStep, FrameStep, RepairStep DEF IInv

(* Hence it holds in every state of every execution.                       *)
LEMMA Inductive == Spec => []IInv
  BY InitIInv, NextIInv, PTL DEF Spec

-----------------------------------------------------------------------------
(* The state of the channel keeps its type in every execution.             *)
THEOREM TypeCorrect == Spec => []TypeOK
<1>1. IInv => TypeOK
  BY DEF IInv
<1>2. QED
  BY <1>1, Inductive, PTL

(* No reader ever pairs a live socket with another session's key or        *)
(* identifier, however many threads send, fail and reconnect.              *)
THEOREM Coherence == Spec => []LiveSocketCoherent
<1>1. IInv => LiveSocketCoherent
  BY DEF IInv
<1>2. QED
  BY <1>1, Inductive, PTL

(* Main establishes before there are reconnectors, of which one is alive.  *)
LEMMA Alone == IInv => SingleEstablisher
<1> SUFFICES ASSUME IInv,
                    NEW d \in Establishers, NEW e \in Establishers,
                    epc[d] \in PreInstall \cup {"setState"},
                    epc[e] \in PreInstall \cup {"setState"}
             PROVE  d = e
  BY DEF SingleEstablisher
<1> USE DEF IInv, PreInstall, Retrying, Installing, Active
<1>1. CASE d \in Reconnectors /\ e \in Reconnectors
  BY <1>1 DEF ReconnectInv
<1>2. CASE d = Main \/ e = Main
  BY <1>2 DEF StartupInv, Establishers
<1>3. QED
  BY <1>1, <1>2 DEF Establishers

(* The flag _reconnecting is enough to keep establishment single-threaded. *)
THEOREM OneEstablisher == Spec => []SingleEstablisher
  BY Alone, Inductive, PTL

(* A write error never takes down a session other than the one it hit.     *)
THEOREM OwnSessionOnly == Spec => []FailureHitsOwnSession
<1>1. IInv => FailureHitsOwnSession
  BY DEF IInv, SendInv, FailureHitsOwnSession
<1>2. QED
  BY <1>1, Inductive, PTL

(* The check-then-act gap of send_reading matters only if a whole          *)
(* reconnect fits into it.                                                 *)
THEOREM StaleOnlyAfterReplacement == Spec => []MismatchOnlyIfReplaced
<1>1. IInv => MismatchOnlyIfReplaced
  BY DEF IInv, FrameInv, SendInv, MismatchOnlyIfReplaced
<1>2. QED
  BY <1>1, Inductive, PTL

(* Whoever dies of the race in send_reading has lost its session to        *)
(* another thread; as long as the session lives, the key it read is there. *)
THEOREM CrashMeansInvalidated == Spec => CrashOnlyIfInvalidated
<1>1. ASSUME IInv, [Next]_vars, NEW t \in Senders,
             spc[t] # "crashed", spc'[t] = "crashed"
      PROVE  frame[t].seen \notin {NoSession, sock}
  <2>1. ReadId(t) \/ Deref(t)
    <3> USE <1>1 DEF IInv, TypeOK, EGoto, SGoto, Leave, Resting
    <3>1. ASSUME NEW e \in Establishers, Establisher(e) PROVE FALSE
      BY <3>1 DEF Establisher, BeginAttempt, Connect, Handshake, SetId,
         SetSock, SetState, AttemptFails, MarkAttemptFailed, Retry,
         PeerClosesHandshake, Finish, Unwind
    <3>2. ASSUME NEW u \in Senders, Sender(u) PROVE ReadId(t) \/ Deref(t)
      BY <3>2 DEF Sender, CheckState, CheckSock, CheckKey, ReadKey, Acquire,
         Sendall, SendallRaises, DropSock, DropKey, MarkFailed,
         StartReconnect, ReadId, Deref
    <3>3. CASE Break \/ UNCHANGED vars
      BY <3>3 DEF Break, vars
    <3>4. QED
      BY <3>1, <3>2, <3>3 DEF Next
  <2>2. CASE ReadId(t)
    BY <1>1, <2>2 DEF ReadId, SGoto, Leave, IInv, FrameInv, TypeOK
  <2>3. CASE Deref(t)
    BY <1>1, <2>3 DEF Deref, SGoto, Leave, IInv, FrameInv, TypeOK
  <2>4. QED
    BY <2>1, <2>2, <2>3
<1>2. IInv /\ [Next]_vars =>
         [\A t \in Senders : spc[t] # "crashed" /\ spc'[t] = "crashed" =>
             frame[t].seen \notin {NoSession, sock}]_vars
  BY <1>1
<1>3. QED
  BY <1>2, Inductive, PTL DEF Spec, CrashOnlyIfInvalidated

(* A channel without a socket is being repaired, but for the two defects   *)
(* that RepairUnderWay names.                                              *)
THEOREM AlwaysRepairing == Spec => []RepairUnderWay
<1>1. IInv => RepairUnderWay
  BY DEF IInv
<1>2. QED
  BY <1>1, Inductive, PTL

(* Every early return of _start_reconnect is a lost request.               *)
THEOREM EarlyReturnIsLost == Spec => []SkippedIsLost
<1>1. IInv => SkippedIsLost
  <2> SUFFICES ASSUME IInv, NEW t \in Senders, spc[t] = "restart",
                      reconnecting
               PROVE  \E r \in Reconnectors : epc[r] \in {"setState", "finish"}
    BY DEF SkippedIsLost
  <2> USE DEF IInv
  <2>1. PICK r \in Reconnectors : Active(r)
    BY DEF ReconnectInv
  <2>2. epc[r] \notin PreInstall \cup {"unwind"}
    BY DEF InstallInv, Failing, Establishers
  <2>3. epc[r] \in EstablisherPc /\ epc[r] # "done"
    BY DEF TypeOK, StartupInv, Establishers
  <2>4. QED
    BY <2>1, <2>2, <2>3 DEF Active, EstablisherPc
<1>2. QED
  BY <1>1, Inductive, PTL

-----------------------------------------------------------------------------
(* The channel implements SessionLifecycle.                                *)

(* An attempt is newer than the identifier published last, until it        *)
(* publishes its own.                                                      *)
FreshInv ==
    \A e \in Establishers :
        epc[e] \in {"connect", "handshake", "setId"} => sessionId < attempt[e]

LEMMA FreshStep ==
    ASSUME IInv, FreshInv, [Next]_vars
    PROVE  FreshInv'
<1> USE ChannelAssumption DEF channel, establish, network, EGoto, SGoto,
   Leave, Fault, NoSession, Session, TypeOK, IInv, FreshInv
<1>1. ASSUME NEW e \in Establishers, BeginAttempt(e) PROVE FreshInv'
  <2>1. sessionId < nextSession /\ nextSession \in Nat
    OBVIOUS
  <2>2. QED
    BY <1>1, <2>1 DEF BeginAttempt
<1>2. ASSUME NEW e \in Establishers, SetId(e) PROVE FreshInv'
  <2>1. \A d \in Establishers : epc[d] \in PreInstall => d = e
    BY <1>2, Alone DEF SetId, SingleEstablisher, PreInstall, Installing
  <2>2. QED
    BY <1>2, <2>1 DEF SetId, PreInstall, Retrying, Installing
<1>3. ASSUME NEW e \in Establishers,
             Connect(e) \/ Handshake(e) \/ SetSock(e) \/ SetState(e) \/
             AttemptFails(e) \/ MarkAttemptFailed(e) \/ Retry(e) \/
             PeerClosesHandshake(e) \/ Finish(e) \/ Unwind(e)
      PROVE  FreshInv'
  <2>1. CASE Connect(e) \/ Handshake(e) \/ SetSock(e) \/ SetState(e)
    BY <2>1 DEF Connect, Handshake, SetSock, SetState
  <2>2. CASE AttemptFails(e) \/ MarkAttemptFailed(e) \/ Retry(e)
    BY <2>2 DEF AttemptFails, MarkAttemptFailed, Retry
  <2>3. CASE PeerClosesHandshake(e)
    BY <2>3 DEF PeerClosesHandshake
  <2>4. CASE Finish(e)
    BY <2>4 DEF Finish
  <2>5. CASE Unwind(e)
    BY <2>5 DEF Unwind
  <2>6. QED
    BY <1>3, <2>1, <2>2, <2>3, <2>4, <2>5
<1>4. ASSUME NEW t \in Senders, Sender(t) PROVE FreshInv'
  BY <1>4 DEF Sender, CheckState, CheckSock, CheckKey, ReadKey, ReadId,
     Acquire, Deref, Sendall, SendallRaises, DropSock, DropKey, MarkFailed,
     StartReconnect, Establishers
<1>5. CASE Break \/ UNCHANGED vars
  BY <1>5 DEF Break, vars
<1>6. QED
  BY <1>1, <1>2, <1>3, <1>4, <1>5 DEF Next, Establisher

(* SetId announces, SetSock installs, DropSock drops; every other step of  *)
(* every thread leaves what the abstract specification sees alone.         *)
LEMMA LifecycleStep ==
    ASSUME IInv, FreshInv, [Next]_vars
    PROVE  [Lifecycle!Next]_(Lifecycle!vars)
<1> DEFINE Pending == \E e \in Establishers : epc[e] = "setSock"
<1> USE DEF Lifecycle!vars, Lifecycle!None, NoSession
<1>1. ASSUME NEW e \in Establishers, SetId(e) PROVE Lifecycle!Announce
  <2>1. epc[e] = "setId" /\ epc' = [epc EXCEPT ![e] = "setSock"]
    BY <1>1 DEF SetId, EGoto
  <2>2. sock = NoSession /\ sock' = sock
    BY <1>1, <2>1 DEF IInv, InstallInv, PreInstall, Installing, SetId
  <2>3. ~Pending
    BY <2>1, Alone DEF SingleEstablisher, PreInstall, Installing
  <2>4. Pending'
    BY <2>1 DEF IInv, TypeOK
  <2>5. sessionId' \in Nat /\ sessionId' > sessionId
    BY <1>1, <2>1
    DEF SetId, IInv, TypeOK, AttemptInv, Installing, FreshInv, Session
  <2>6. QED
    BY <2>2, <2>3, <2>4, <2>5 DEF Lifecycle!Announce
<1>2. ASSUME NEW e \in Establishers, SetSock(e) PROVE Lifecycle!Install
  <2>1. epc[e] = "setSock" /\ epc' = [epc EXCEPT ![e] = "setState"]
    BY <1>2 DEF SetSock, EGoto
  <2>2. sock' = sessionId /\ sessionId' = sessionId
    BY <1>2, <2>1 DEF SetSock, IInv, AttemptInv
  <2>3. ~Pending'
    BY <2>1, Alone DEF SingleEstablisher, PreInstall, Installing, IInv, TypeOK
  <2>4. QED
    BY <2>1, <2>2, <2>3 DEF Lifecycle!Install
<1>3. ASSUME NEW t \in Senders, DropSock(t) PROVE Lifecycle!Drop
  <2>1. sock # NoSession
    BY <1>3 DEF DropSock, SGoto, IInv, SendInv
  <2>2. QED
    BY <1>3, <2>1 DEF DropSock, establish, Lifecycle!Drop
<1>4. ASSUME NEW e \in Establishers,
             BeginAttempt(e) \/ Connect(e) \/ Handshake(e) \/ SetState(e)
      PROVE  UNCHANGED <<sock, sessionId, Pending>>
  BY <1>4 DEF BeginAttempt, Connect, Handshake, SetState, EGoto, IInv, TypeOK
<1>5. ASSUME NEW e \in Establishers,
             AttemptFails(e) \/ MarkAttemptFailed(e) \/ Retry(e) \/
             PeerClosesHandshake(e) \/ Finish(e) \/ Unwind(e)
      PROVE  UNCHANGED <<sock, sessionId, Pending>>
  BY <1>5 DEF AttemptFails, MarkAttemptFailed, Retry, PeerClosesHandshake,
     Finish, Unwind, EGoto, channel, IInv, TypeOK
<1>6. ASSUME NEW t \in Senders,
             CheckState(t) \/ CheckSock(t) \/ CheckKey(t) \/ ReadKey(t) \/
             ReadId(t) \/ Acquire(t) \/ Deref(t) \/ Sendall(t) \/
             SendallRaises(t) \/ DropKey(t) \/ MarkFailed(t)
      PROVE  UNCHANGED <<sock, sessionId, Pending>>
  BY <1>6 DEF CheckState, CheckSock, CheckKey, ReadKey, ReadId, Acquire,
     Deref, Sendall, SendallRaises, DropKey, MarkFailed, channel, establish
<1>7. ASSUME NEW t \in Senders, StartReconnect(t)
      PROVE  UNCHANGED <<sock, sessionId, Pending>>
  BY <1>7 DEF StartReconnect, EGoto, channel, Establishers, IInv, TypeOK
<1>8. CASE Break \/ UNCHANGED vars
  BY <1>8 DEF Break, vars, channel, establish
<1>9. QED
  BY <1>1, <1>2, <1>3, <1>4, <1>5, <1>6, <1>7, <1>8
  DEF Next, Establisher, Sender, Lifecycle!Next

(* The threads' unlocked assignments together implement the protocol of    *)
(* SessionLifecycle, for any number of threads and faults.                 *)
THEOREM ChannelImplementsLifecycle == Spec => ImplementsLifecycle
<1>1. Init => Lifecycle!Init /\ FreshInv
  BY DEF Init, Lifecycle!Init, Lifecycle!None, NoSession, FreshInv
<1>2. IInv /\ FreshInv /\ [Next]_vars => FreshInv'
  BY FreshStep
<1>3. IInv /\ FreshInv /\ [Next]_vars => [Lifecycle!Next]_(Lifecycle!vars)
  BY LifecycleStep
<1>4. QED
  BY <1>1, <1>2, <1>3, Inductive, PTL
  DEF Spec, ImplementsLifecycle, Lifecycle!Spec

-----------------------------------------------------------------------------
(* What a user of the channel may conclude from SessionLifecycle alone.    *)

(* Only the identifier published last may be usable, and not before it is  *)
(* installed.                                                              *)
LatestOnly ==
    /\ sock \in Nat /\ sessionId \in Nat
    /\ sock # NoSession =>
          sock = sessionId /\ ~\E e \in Establishers : epc[e] = "setSock"

(* Session n was given up, or another one has been published after it.     *)
Retired(n) ==
    \/ n < sessionId
    \/ /\ n = sessionId
       /\ sock # n
       /\ ~\E e \in Establishers : epc[e] = "setSock"

LEMMA LatestStep ==
    ASSUME LatestOnly, [Lifecycle!Next]_(Lifecycle!vars)
    PROVE  LatestOnly'
BY DEF LatestOnly, Lifecycle!Next, Lifecycle!vars, Lifecycle!Announce,
   Lifecycle!Install, Lifecycle!Drop, Lifecycle!None, NoSession

LEMMA RetiredStep ==
    ASSUME NEW n \in Nat \ {NoSession},
           LatestOnly, [Lifecycle!Next]_(Lifecycle!vars)
    PROVE  /\ Retired(n) => Retired(n)'
           /\ sock = n /\ sock' # n => Retired(n)'
BY DEF LatestOnly, Retired, Lifecycle!Next, Lifecycle!vars,
   Lifecycle!Announce, Lifecycle!Install, Lifecycle!Drop, Lifecycle!None,
   NoSession

(* A session that _invalidate gave up is never usable again, although      *)
(* other threads assign _sock and session_id without a lock: once it was   *)
(* retired it stays so, and giving it up retires it.                       *)
THEOREM DroppedNeverReturns ==
    ASSUME NEW n \in Nat \ {NoSession}
    PROVE  Spec => /\ [](Retired(n) => [](sock # n))
                   /\ [][sock = n /\ sock' # n => Retired(n)']_vars
<1>1. Lifecycle!Init => LatestOnly
  BY DEF Lifecycle!Init, Lifecycle!None, LatestOnly, NoSession
<1>2. LatestOnly /\ [Lifecycle!Next]_(Lifecycle!vars) => LatestOnly'
  BY LatestStep
<1>3. LatestOnly => (Retired(n) => sock # n)
  BY DEF LatestOnly, Retired, NoSession
<1>4. LatestOnly /\ [Lifecycle!Next]_(Lifecycle!vars) =>
         (Retired(n) => Retired(n)')
  BY RetiredStep
<1>5. LatestOnly /\ [Lifecycle!Next]_(Lifecycle!vars) =>
         (sock = n /\ sock' # n => Retired(n)')
  BY RetiredStep
<1>6. UNCHANGED Lifecycle!vars => ~(sock = n /\ sock' # n)
  BY DEF Lifecycle!vars
<1>7. UNCHANGED vars => UNCHANGED Lifecycle!vars
  BY DEF vars, channel, establish, Lifecycle!vars
<1>8. QED
  BY <1>1, <1>2, <1>3, <1>4, <1>5, <1>6, <1>7, ChannelImplementsLifecycle,
     PTL DEF ImplementsLifecycle, Lifecycle!Spec

-----------------------------------------------------------------------------
(* The health page.                                                        *)

(* An identifier is published whose session is not installed yet.          *)
Pending == \E e \in Establishers : epc[e] = "setSock"

(* What the histories have recorded of the channel.                        *)
SeenInv ==
    probe \in Under =>
        /\ sock # NoSession => sock \in installed
        /\ installed # {} => sessionId \in installed \/ Pending

(* is_established has found a socket, in the call for the status.          *)
FoundSocket ==
    \/ probe = "key"
    \/ probe = "id" /\ page.status
    \/ call = "connected" /\ page.status

StatusInv == probe # "idle" /\ FoundSocket => installed # {}

(* The identifier on the page is that of an installed session or of the    *)
(* one that will be installed next; once a socket was found, of the former.*)
IdInv ==
    /\ probe \in Under /\ call = "connected" /\ page.status =>
          \/ page.id \in installed
          \/ Pending /\ page.id = sessionId
    /\ probe = "key" /\ call = "connected" /\ page.status =>
          page.id \in installed
    /\ probe \in {"last", "done"} /\ page.status /\ page.connected =>
          page.id \in installed

(* An answer is on the page only after its call.                           *)
PageInv ==
    /\ probe \in {"state", "sock", "key"} /\ call = "status" => ~page.status
    /\ probe # "done" /\ probe # "last" => ~page.connected
    /\ probe \in {"last", "done"} => call = "connected"
    /\ probe = "id" => call = "status"

HInv == HTypeOK /\ PageInv /\ SeenInv /\ StatusInv /\ IdInv

-----------------------------------------------------------------------------
(* The HTTP thread writes nothing of the channel's.                        *)
LEMMA ChannelOrNot ==
    ASSUME [HNext]_hvars
    PROVE  [Next]_vars
BY DEF HNext, Channel, Probe, Get, ReadState, ReadSock, ReadSessionKey,
   ReadSessionId, ReadLast, Respond, Reading, hvars

LEMMA ChannelInductive == HSpec => [](IInv /\ FreshInv)
<1>1. HInit => IInv /\ FreshInv
  BY InitIInv DEF HInit, Init, FreshInv
<1>2. IInv /\ FreshInv /\ [HNext]_hvars => (IInv /\ FreshInv)'
  BY NextIInv, FreshStep, ChannelOrNot
<1>3. QED
  BY <1>1, <1>2, PTL DEF HSpec

(* What a step of the channel's threads is to a request.                   *)
LEMMA ChannelFacts ==
    ASSUME IInv, IInv', FreshInv, Channel
    PROVE  /\ \/ sock = NoSession /\ ~Pending /\ Pending' /\ UNCHANGED sock
              \/ /\ Pending /\ sock' = sessionId /\ sock' # NoSession
                 /\ UNCHANGED sessionId
              \/ sock' = NoSession /\ UNCHANGED <<sessionId, Pending>>
              \/ UNCHANGED <<sock, sessionId, Pending>>
           /\ probe \in Under =>
                 installed' = installed \cup ({sock'} \ {NoSession})
           /\ probe \notin Under => UNCHANGED installed
           /\ UNCHANGED <<probe, call, page>>
<1>1. [Lifecycle!Next]_(Lifecycle!vars)
  BY LifecycleStep DEF Channel
<1>2. Pending => sessionId # NoSession
  BY DEF Pending, IInv, AttemptInv, Installing, Session, NoSession
<1>3. \/ sock = NoSession /\ ~Pending /\ Pending' /\ UNCHANGED sock
      \/ Pending /\ sock' = sessionId /\ sock' # NoSession
         /\ UNCHANGED sessionId
      \/ sock' = NoSession /\ UNCHANGED <<sessionId, Pending>>
      \/ UNCHANGED <<sock, sessionId, Pending>>
  BY <1>1, <1>2 DEF Lifecycle!Next, Lifecycle!vars, Lifecycle!Announce,
     Lifecycle!Install, Lifecycle!Drop, Lifecycle!None, Pending, NoSession
<1>4. QED
  BY <1>3 DEF Channel

(* While an attempt is about to install its socket there is none.          *)
LEMMA SocketNotPending == IInv /\ sock # NoSession => ~Pending
BY DEF IInv, InstallInv, Pending, PreInstall, Installing

-----------------------------------------------------------------------------
(* Session numbers once allocated stay allocated.                          *)
LEMMA RangeGrows ==
    ASSUME NEW m \in Nat, NEW n \in Nat, n = m \/ n = m + 1
    PROVE  1 .. m - 1 \subseteq 1 .. n - 1
OBVIOUS

(* A step of the channel preserves the invariant.                          *)
LEMMA ChannelStep ==
    ASSUME HInv, IInv, IInv', FreshInv, Channel
    PROVE  HInv'
<1> USE DEF HInv
<1>1. HTypeOK'
  <2>1. TypeOK' /\ sock' \in Session' \cup {NoSession}
    BY DEF IInv, TypeOK
  <2>2. Session \subseteq Session'
    <3>1. nextSession' \in Nat /\ nextSession \in Nat
      BY DEF IInv, TypeOK
    <3>2. nextSession' = nextSession \/ nextSession' = nextSession + 1
      <4>1. ASSUME NEW e \in Establishers, Establisher(e)
            PROVE  nextSession' \in {nextSession, nextSession + 1}
        BY <4>1 DEF Establisher, BeginAttempt, Connect, Handshake, SetId,
           SetSock, SetState, AttemptFails, MarkAttemptFailed, Retry,
           PeerClosesHandshake, Finish, Unwind
      <4>2. ASSUME NEW t \in Senders, Sender(t)
            PROVE  nextSession' = nextSession
        <5>1. CASE StartReconnect(t)
          BY <5>1 DEF StartReconnect
        <5>2. CASE ~StartReconnect(t)
          BY <4>2, <5>2 DEF Sender, CheckState, CheckSock, CheckKey, ReadKey,
             ReadId, Acquire, Deref, Sendall, SendallRaises, DropSock,
             DropKey, MarkFailed, establish
        <5>3. QED
          BY <5>1, <5>2
      <4>3. CASE Break
        BY <4>3 DEF Break, establish
      <4>4. QED
        BY <4>1, <4>2, <4>3 DEF Channel, Next
    <3>3. QED
      BY <3>1, <3>2, RangeGrows DEF Session
  <2>3. installed' \subseteq Session'
    BY <2>1, <2>2, ChannelFacts DEF HTypeOK
  <2>4. page' \in Page'
    BY <2>2, ChannelFacts DEF HTypeOK, Page
  <2>5. QED
    BY <2>1, <2>3, <2>4, ChannelFacts DEF HTypeOK
<1>2. PageInv'
  BY ChannelFacts DEF PageInv
<1>3. SeenInv'
  BY ChannelFacts DEF SeenInv
<1>4. StatusInv'
  BY ChannelFacts DEF StatusInv, FoundSocket
<1>5. IdInv'
  BY ChannelFacts DEF IdInv, Under
<1>6. QED
  BY <1>1, <1>2, <1>3, <1>4, <1>5

(* So does a step of the HTTP thread.                                      *)
LEMMA ProbeStep ==
    ASSUME HInv, IInv, Probe
    PROVE  HInv'
<1> USE DEF HInv, HTypeOK, PageInv, SeenInv, StatusInv, FoundSocket, IdInv,
   Under, Page, Calls, Pending
<1>1. CASE Get \/ Respond
  <2>1. sock \in Session \cup {NoSession}
    BY DEF IInv, TypeOK
  <2>2. NoPage \in Page
    BY DEF NoPage, State
  <2>3. sock # NoSession => sessionId = sock
    BY DEF IInv, LiveSocketCoherent
  <2>4. QED
    BY <1>1, <2>1, <2>2, <2>3 DEF Get, Respond, NoPage, vars, channel,
       establish, network, TypeOK, Session
<1>2. ASSUME ReadState \/ ReadSock PROVE HInv'
  <2>1. UNCHANGED <<vars, installed>>
    BY <1>2 DEF ReadState, ReadSock, Reading
  <2>2. TypeOK' /\ Session' = Session /\ Pending' = Pending
    BY <2>1 DEF vars, channel, establish, network, TypeOK, Session
  <2>3. UNCHANGED <<sock, sessionId>>
    BY <2>1 DEF vars, channel
  <2>4. CASE probe = "state" /\ probe' = "sock" /\ UNCHANGED <<call, page>>
    BY <2>1, <2>2, <2>3, <2>4
  <2>5. CASE /\ probe = "sock" /\ sock # NoSession
             /\ probe' = "key" /\ UNCHANGED <<call, page>>
    BY SocketNotPending, <2>1, <2>2, <2>3, <2>5
  <2>6. CASE probe \in {"state", "sock"} /\ Answer(FALSE)
    BY <2>1, <2>2, <2>3, <2>6 DEF Answer
  <2>7. QED
    BY <1>2, <2>4, <2>5, <2>6 DEF ReadState, ReadSock, Conjunct
<1>3. CASE ReadSessionKey
  BY <1>3, ZenonT(40) DEF ReadSessionKey, Reading, Answer, vars, channel,
     establish, network, TypeOK, Session
<1>4. CASE ReadSessionId
  BY <1>4 DEF ReadSessionId, Reading, vars, channel,
     establish, network, TypeOK, Session
<1>5. CASE ReadLast
  BY <1>5 DEF ReadLast, Reading, vars, channel,
     establish, network, TypeOK, Session
<1>6. QED
  BY <1>1, <1>2, <1>3, <1>4, <1>5 DEF Probe

LEMMA InitHInv == HInit => HInv
<1> SUFFICES ASSUME HInit PROVE HInv
  OBVIOUS
<1>1. TypeOK
  BY InitIInv DEF HInit, IInv
<1>2. NoPage \in Page
  BY DEF NoPage, Page, State
<1>3. probe = "idle" /\ call = "status" /\ page = NoPage /\ installed = {}
  BY DEF HInit
<1>4. ~page.status /\ ~page.connected
  BY <1>3 DEF NoPage
<1>5. QED
  BY <1>1, <1>2, <1>3, <1>4 DEF HInv, HTypeOK, PageInv, SeenInv, StatusInv,
     FoundSocket, IdInv, Under, Calls

LEMMA HInductive == HSpec => []HInv
<1>1. HInv /\ IInv /\ IInv' /\ FreshInv /\ [HNext]_hvars => HInv'
  <2> SUFFICES ASSUME HInv, IInv, IInv', FreshInv, [HNext]_hvars PROVE HInv'
    OBVIOUS
  <2>1. CASE UNCHANGED hvars
    BY <2>1 DEF hvars, http, vars, channel, establish, network, HInv, HTypeOK,
       PageInv, SeenInv, StatusInv, FoundSocket, IdInv, Under, Page, Calls,
       Pending, TypeOK, Session
  <2>2. QED
    BY <2>1, ChannelStep, ProbeStep DEF HNext
<1>2. QED
  BY <1>1, InitHInv, ChannelInductive, PTL DEF HSpec

-----------------------------------------------------------------------------
(* The variables of the HTTP thread keep their types.                      *)
THEOREM HTypeCorrect == HSpec => []HTypeOK
<1>1. HInv => HTypeOK
  BY DEF HInv
<1>2. QED
  BY <1>1, HInductive, PTL

(* No page says ok if no session was there during the request, and an ok   *)
(* and connected page shows one that was.                                  *)
THEOREM PageShowsInstalled == HSpec => []ShowsInstalledSession
<1>1. HInv => ShowsInstalledSession
  BY DEF HInv, PageInv, StatusInv, FoundSocket, IdInv, ShowsInstalledSession
<1>2. QED
  BY <1>1, HInductive, PTL
=============================================================================
