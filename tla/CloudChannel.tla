---------------------------- MODULE CloudChannel ----------------------------
(***************************************************************************)
(* The gateway's client side of the ML-KEM session with the cloud:         *)
(* src/gateway/cloud_channel.py, class CloudChannel.                       *)
(*                                                                         *)
(* One CloudChannel object is shared, without a lock around its fields, by *)
(*   - the main thread, which runs connect_and_establish once at startup;  *)
(*   - the per-device handler threads ("senders"), which call send_reading *)
(*     and, when a write fails, _invalidate and _start_reconnect;          *)
(*   - the background thread that _start_reconnect spawns ("reconnector"). *)
(* Every read and every write of a shared field is a step of its own, so   *)
(* TLC explores every interleaving the interpreter can produce.            *)
(*                                                                         *)
(* A session is a number: the socket, the key and the identifier that one  *)
(* establishment attempt creates carry that attempt's number, and NoSession*)
(* is Python's None.  What the cloud and the network may do is in the last *)
(* section; each of their faults uses up one of MaxFaults.                 *)
(***************************************************************************)
EXTENDS Naturals

CONSTANTS
    Senders,       \* device-handler threads that call send_reading
    Reconnectors,  \* pool of names for the background reconnect threads
    Main,          \* the main thread
    Free,          \* value of sendLock when nobody holds it
    MaxFaults,     \* bound: how many faults the network and the cloud commit
    PeerCloses     \* may the cloud close the socket cleanly in a handshake?

ASSUME ChannelAssumption ==
    /\ Main \notin Reconnectors
    /\ Free \notin Senders
    /\ MaxFaults \in Nat
    /\ PeerCloses \in BOOLEAN

VARIABLES
    state,         \* self.state
    sock,          \* self._sock
    sessionKey,    \* self.session_key
    sessionId,     \* self.session_id
    sendLock,      \* owner of self._send_lock
    reconnecting,  \* self._reconnecting
    epc,           \* program counter of each establishing thread
    attempt,       \* the attempt each establishing thread is making
    nextSession,   \* next unused session number (secrets.token_hex)
    spc,           \* program counter of each sender
    frame,         \* what each sender has read for its current reading
    gone,          \* sockets the peer has left: the next write is swallowed
    reset,         \* sockets on which a write raises OSError
    faults,        \* faults committed so far
    skipped        \* history: a _start_reconnect found a thread running

channel   == <<state, sock, sessionKey, sessionId>>
establish == <<epc, attempt, nextSession>>
network   == <<gone, reset, faults>>
vars == <<channel, sendLock, reconnecting, establish, spc, frame, network,
          skipped>>

NoSession    == 0
Establishers == Reconnectors \cup {Main}
Session      == 1 .. nextSession - 1
Frame        == [seen : Nat, key : Nat, sid : Nat, sock : Nat]
NoFrame      == [seen |-> NoSession, key |-> NoSession, sid |-> NoSession,
                 sock |-> NoSession]

(* A sender between readings: its last reading was forwarded ("idle"),     *)
(* refused with CryptoError, or ended by an exception nobody handles.      *)
Resting == {"idle", "refused", "crashed"}

(* The steps a sender makes while it holds the send lock.                  *)
Failing == {"dropSock", "dropKey", "markFailed", "restart"}
Locked  == {"deref", "sendall"} \cup Failing

(* An establishing thread that has not yet installed its new socket.       *)
Installing == {"setId", "setSock"}
Retrying   == {"attempt", "connect", "handshake", "failed", "pause"}
PreInstall == Retrying \cup Installing

State == {"disconnected", "connecting", "establishing", "established",
          "failed"}
SenderPc == Resting \cup Locked \cup
            {"checkSock", "checkKey", "readKey", "readId", "acquire"}
EstablisherPc == PreInstall \cup
                 {"setState", "done", "idle", "finish", "unwind", "raised"}

IsEstablished ==
    /\ state = "established"
    /\ sock # NoSession
    /\ sessionKey # NoSession

Init ==
    /\ state = "disconnected"
    /\ sock = NoSession
    /\ sessionKey = NoSession
    /\ sessionId = NoSession
    /\ sendLock = Free
    /\ reconnecting = FALSE
    /\ epc = [e \in Establishers |-> IF e = Main THEN "attempt" ELSE "idle"]
    /\ attempt = [e \in Establishers |-> NoSession]
    /\ nextSession = 1
    /\ spc = [t \in Senders |-> "idle"]
    /\ frame = [t \in Senders |-> NoFrame]
    /\ gone = {}
    /\ reset = {}
    /\ faults = 0
    /\ skipped = FALSE

-----------------------------------------------------------------------------
(* connect_and_establish and _establish_once, run by thread e.             *)

EGoto(e, from, to) ==
    /\ epc[e] = from
    /\ epc' = [epc EXCEPT ![e] = to]

(* Mutant: the session identifier of an attempt is not fresh.              *)
BeginAttemptNotFresh(e) ==
    /\ EGoto(e, "attempt", "connect")
    /\ state' = "connecting"
    /\ attempt' = [attempt EXCEPT ![e] = nextSession]
    /\ UNCHANGED <<sock, sessionKey, sessionId, sendLock, reconnecting,
                   nextSession, spc, frame, network, skipped>>

Fault ==
    /\ faults < MaxFaults
    /\ faults' = faults + 1

BeginAttempt(e) ==
    /\ EGoto(e, "attempt", "connect")
    /\ state' = "connecting"
    /\ attempt' = [attempt EXCEPT ![e] = nextSession]
    /\ nextSession' = nextSession + 1
    /\ UNCHANGED <<sock, sessionKey, sessionId, sendLock, reconnecting, spc,
                   frame, network, skipped>>

Connect(e) ==
    /\ EGoto(e, "connect", "handshake")
    /\ state' = "establishing"
    /\ UNCHANGED <<sock, sessionKey, sessionId, sendLock, reconnecting,
                   attempt, nextSession, spc, frame, network, skipped>>

(* Mutant: the socket is installed together with the key, before the       *)
(* identifier.                                                             *)
HandshakeInstallsSocket(e) ==
    /\ EGoto(e, "handshake", "setId")
    /\ sessionKey' = attempt[e]
    /\ sock' = attempt[e]
    /\ UNCHANGED <<state, sessionId, sendLock, reconnecting, attempt,
                   nextSession, spc, frame, network, skipped>>

(* The cloud's replies arrive, match the pin and the session identifier,   *)
(* and the key is derived and stored.                                      *)
Handshake(e) ==
    /\ EGoto(e, "handshake", "setId")
    /\ sessionKey' = attempt[e]
    /\ UNCHANGED <<state, sock, sessionId, sendLock, reconnecting, attempt,
                   nextSession, spc, frame, network, skipped>>

SetId(e) ==
    /\ EGoto(e, "setId", "setSock")
    /\ sessionId' = attempt[e]
    /\ UNCHANGED <<state, sock, sessionKey, sendLock, reconnecting, attempt,
                   nextSession, spc, frame, network, skipped>>

SetSock(e) ==
    /\ EGoto(e, "setSock", "setState")
    /\ sock' = attempt[e]
    /\ UNCHANGED <<state, sessionKey, sessionId, sendLock, reconnecting,
                   attempt, nextSession, spc, frame, network, skipped>>

SetState(e) ==
    /\ EGoto(e, "setState", IF e = Main THEN "done" ELSE "finish")
    /\ state' = "established"
    /\ UNCHANGED <<sock, sessionKey, sessionId, sendLock, reconnecting,
                   attempt, nextSession, spc, frame, network, skipped>>

(* OSError, ProtocolError or CryptoError: no connection, a timeout, a      *)
(* reset, a malformed reply, a key that does not match the pin.            *)
AttemptFails(e) ==
    /\ epc[e] \in {"connect", "handshake"}
    /\ epc' = [epc EXCEPT ![e] = "failed"]
    /\ Fault
    /\ UNCHANGED <<channel, sendLock, reconnecting, attempt, nextSession,
                   spc, frame, gone, reset, skipped>>

(* Mutant: a failed attempt is the last one.                               *)
RetryNever(e) ==
    /\ EGoto(e, "pause", "finish")
    /\ state' = "disconnected"
    /\ UNCHANGED <<sock, sessionKey, sessionId, sendLock, reconnecting,
                   attempt, nextSession, spc, frame, network, skipped>>

MarkAttemptFailed(e) ==
    /\ EGoto(e, "failed", "pause")
    /\ state' = "failed"
    /\ UNCHANGED <<sock, sessionKey, sessionId, sendLock, reconnecting,
                   attempt, nextSession, spc, frame, network, skipped>>

Retry(e) ==
    /\ EGoto(e, "pause", "attempt")
    /\ state' = "disconnected"
    /\ UNCHANGED <<sock, sessionKey, sessionId, sendLock, reconnecting,
                   attempt, nextSession, spc, frame, network, skipped>>

(* read_message meets a clean end of file and raises ConnectionClosedError,*)
(* which is not one of the exceptions connect_and_establish catches.       *)
PeerClosesHandshake(e) ==
    /\ PeerCloses
    /\ EGoto(e, "handshake", "unwind")
    /\ Fault
    /\ UNCHANGED <<channel, sendLock, reconnecting, attempt, nextSession,
                   spc, frame, gone, reset, skipped>>

(* Mutant: the flag is not reset when the thread ends.                     *)
FinishKeepsFlag(e) ==
    /\ EGoto(e, "finish", "idle")
    /\ UNCHANGED <<channel, sendLock, reconnecting, attempt, nextSession, spc,
                   frame, network, skipped>>

(* The finally clause of _reconnect_loop, on both ways out of it.          *)
Finish(e) ==
    /\ EGoto(e, "finish", "idle")
    /\ reconnecting' = FALSE
    /\ UNCHANGED <<channel, sendLock, attempt, nextSession, spc, frame,
                   network, skipped>>

Unwind(e) ==
    /\ EGoto(e, "unwind", "raised")
    /\ reconnecting' = IF e = Main THEN reconnecting ELSE FALSE
    /\ UNCHANGED <<channel, sendLock, attempt, nextSession, spc, frame,
                   network, skipped>>

Establisher(e) ==
    \/ BeginAttempt(e)
    \/ Connect(e)
    \/ Handshake(e)
    \/ SetId(e)
    \/ SetSock(e)
    \/ SetState(e)
    \/ AttemptFails(e)
    \/ MarkAttemptFailed(e)
    \/ Retry(e)
    \/ PeerClosesHandshake(e)
    \/ Finish(e)
    \/ Unwind(e)

-----------------------------------------------------------------------------
(* send_reading, _invalidate and _start_reconnect, run by sender t.        *)

SGoto(t, from, to) ==
    /\ spc[t] = from
    /\ spc' = [spc EXCEPT ![t] = to]

(* send_reading returns or raises: its local variables are gone.           *)
Leave(t, from, outcome) ==
    /\ SGoto(t, from, outcome)
    /\ frame' = [frame EXCEPT ![t] = NoFrame]

(* is_established reads the three fields one after the other.  Device      *)
(* handlers exist only once main has established the first session.        *)
CheckState(t) ==
    /\ epc[Main] = "done"
    /\ spc[t] \in Resting
    /\ spc' = [spc EXCEPT ![t] = IF state = "established" THEN "checkSock"
                                                          ELSE "refused"]
    /\ UNCHANGED <<channel, sendLock, reconnecting, establish, frame, network,
                   skipped>>

CheckSock(t) ==
    /\ \/ /\ sock # NoSession
          /\ SGoto(t, "checkSock", "checkKey")
          /\ frame' = [frame EXCEPT ![t].seen = sock]
       \/ /\ sock = NoSession
          /\ Leave(t, "checkSock", "refused")
    /\ UNCHANGED <<channel, sendLock, reconnecting, establish, network,
                   skipped>>

CheckKey(t) ==
    /\ \/ /\ sessionKey # NoSession
          /\ SGoto(t, "checkKey", "readKey")
          /\ UNCHANGED frame
       \/ /\ sessionKey = NoSession
          /\ Leave(t, "checkKey", "refused")
    /\ UNCHANGED <<channel, sendLock, reconnecting, establish, network,
                   skipped>>

ReadKey(t) ==
    /\ SGoto(t, "readKey", "readId")
    /\ frame' = [frame EXCEPT ![t].key = sessionKey]
    /\ UNCHANGED <<channel, sendLock, reconnecting, establish, network,
                   skipped>>

(* Mutant: the lock is not waited for.                                     *)
AcquireUnguarded(t) ==
    /\ SGoto(t, "acquire", "deref")
    /\ sendLock' = t
    /\ UNCHANGED <<channel, reconnecting, establish, frame, network, skipped>>

(* Encrypting under a key that has become None raises TypeError.           *)
ReadId(t) ==
    /\ \/ /\ frame[t].key # NoSession
          /\ SGoto(t, "readId", "acquire")
          /\ frame' = [frame EXCEPT ![t].sid = sessionId]
       \/ /\ frame[t].key = NoSession
          /\ Leave(t, "readId", "crashed")
    /\ UNCHANGED <<channel, sendLock, reconnecting, establish, network,
                   skipped>>

Acquire(t) ==
    /\ SGoto(t, "acquire", "deref")
    /\ sendLock = Free
    /\ sendLock' = t
    /\ UNCHANGED <<channel, reconnecting, establish, frame, network, skipped>>

(* Mutant: the lock is released by hand and an exception passes it by.     *)
DerefKeepsLock(t) ==
    /\ \/ /\ sock # NoSession
          /\ SGoto(t, "deref", "sendall")
          /\ frame' = [frame EXCEPT ![t].sock = sock]
       \/ /\ sock = NoSession
          /\ Leave(t, "deref", "crashed")
    /\ UNCHANGED <<channel, sendLock, reconnecting, establish, network,
                   skipped>>

(* self._sock is read under the lock; None.sendall raises AttributeError,  *)
(* which leaves the with block and releases the lock.                      *)
Deref(t) ==
    /\ \/ /\ sock # NoSession
          /\ SGoto(t, "deref", "sendall")
          /\ frame' = [frame EXCEPT ![t].sock = sock]
          /\ UNCHANGED sendLock
       \/ /\ sock = NoSession
          /\ Leave(t, "deref", "crashed")
          /\ sendLock' = Free
    /\ UNCHANGED <<channel, reconnecting, establish, network, skipped>>

(* The first write after the peer left is accepted by the local kernel and *)
(* lost; the peer answers it with a reset, so the next one raises.         *)
Sendall(t) ==
    /\ frame[t].sock \notin reset
    /\ Leave(t, "sendall", "idle")
    /\ sendLock' = Free
    /\ gone' = gone \ {frame[t].sock}
    /\ reset' = reset \cup (gone \cap {frame[t].sock})
    /\ UNCHANGED <<channel, reconnecting, establish, faults, skipped>>

(* Mutant: the write error is swallowed and the session kept.              *)
SendallRaisesIgnored(t) ==
    /\ frame[t].sock \in reset
    /\ Leave(t, "sendall", "refused")
    /\ sendLock' = Free
    /\ UNCHANGED <<channel, reconnecting, establish, network, skipped>>

(* Mutant: the key goes first, while the socket is still installed.        *)
DropSockLast(t) ==
    /\ SGoto(t, "dropSock", "dropKey")
    /\ sessionKey' = NoSession
    /\ UNCHANGED <<state, sock, sessionId, sendLock, reconnecting, establish,
                   frame, network, skipped>>

(* OSError: the connection was reset, or the write timed out.              *)
SendallRaises(t) ==
    /\ SGoto(t, "sendall", "dropSock")
    /\ \/ /\ frame[t].sock \in reset
          /\ UNCHANGED faults
       \/ /\ frame[t].sock \notin reset
          /\ Fault
    /\ UNCHANGED <<channel, sendLock, reconnecting, establish, frame, gone,
                   reset, skipped>>

DropSock(t) ==
    /\ SGoto(t, "dropSock", "dropKey")
    /\ sock' = NoSession
    /\ UNCHANGED <<state, sessionKey, sessionId, sendLock, reconnecting,
                   establish, frame, network, skipped>>

DropKey(t) ==
    /\ SGoto(t, "dropKey", "markFailed")
    /\ sessionKey' = NoSession
    /\ UNCHANGED <<state, sock, sessionId, sendLock, reconnecting, establish,
                   frame, network, skipped>>

MarkFailed(t) ==
    /\ SGoto(t, "markFailed", "restart")
    /\ state' = "failed"
    /\ UNCHANGED <<sock, sessionKey, sessionId, sendLock, reconnecting,
                   establish, frame, network, skipped>>

(* Mutant: the flag is not tested.                                         *)
StartReconnectAlways(t) ==
    /\ Leave(t, "restart", "refused")
    /\ sendLock' = Free
    /\ reconnecting' = TRUE
    /\ \E r \in Reconnectors : EGoto(r, "idle", "attempt")
    /\ UNCHANGED <<channel, attempt, nextSession, network, skipped>>

(* _start_reconnect tests and sets the flag under its own lock, hence in   *)
(* one step; then CryptoError leaves send_reading and frees the send lock. *)
StartReconnect(t) ==
    /\ Leave(t, "restart", "refused")
    /\ sendLock' = Free
    /\ \/ /\ reconnecting
          /\ skipped' = TRUE
          /\ UNCHANGED <<reconnecting, epc>>
       \/ /\ ~reconnecting
          /\ reconnecting' = TRUE
          /\ \E r \in Reconnectors : EGoto(r, "idle", "attempt")
          /\ UNCHANGED skipped
    /\ UNCHANGED <<channel, attempt, nextSession, network>>

Sender(t) ==
    \/ CheckState(t)
    \/ CheckSock(t)
    \/ CheckKey(t)
    \/ ReadKey(t)
    \/ ReadId(t)
    \/ Acquire(t)
    \/ Deref(t)
    \/ Sendall(t)
    \/ SendallRaises(t)
    \/ DropSock(t)
    \/ DropKey(t)
    \/ MarkFailed(t)
    \/ StartReconnect(t)

-----------------------------------------------------------------------------
(* The network and the cloud.                                              *)

(* The cloud ends the installed session: it closes the socket (restart,    *)
(* idle timeout, protocol error) or the path resets it.                    *)
Break ==
    /\ sock # NoSession
    /\ sock \notin gone \cup reset
    /\ Fault
    /\ \/ /\ gone' = gone \cup {sock}
          /\ UNCHANGED reset
       \/ /\ reset' = reset \cup {sock}
          /\ UNCHANGED gone
    /\ UNCHANGED <<channel, sendLock, reconnecting, establish, spc, frame,
                   skipped>>

Next ==
    \/ \E e \in Establishers : Establisher(e)
    \/ \E t \in Senders : Sender(t)
    \/ Break

Spec == Init /\ [][Next]_vars

(* Every thread that can move does.  For the establishing threads this is  *)
(* the interpreter's scheduling plus the 10 s socket timeout, which ends   *)
(* every blocking call one way or the other.  For the senders it also says *)
(* that devices keep sending, which device.py's loop does.                 *)
Fairness ==
    /\ \A e \in Establishers : WF_vars(Establisher(e))
    /\ \A t \in Senders : WF_vars(Sender(t))

FairSpec == Spec /\ Fairness

-----------------------------------------------------------------------------
(* Properties.                                                             *)

(* Every field has its type, every session number in use was allocated.    *)
TypeOK ==
    /\ state \in State
    /\ nextSession \in Nat \ {0}
    /\ sock \in Session \cup {NoSession}
    /\ sessionKey \in Session \cup {NoSession}
    /\ sessionId \in Session \cup {NoSession}
    /\ sendLock \in Senders \cup {Free}
    /\ reconnecting \in BOOLEAN
    /\ epc \in [Establishers -> EstablisherPc]
    /\ attempt \in [Establishers -> Session \cup {NoSession}]
    /\ spc \in [Senders -> SenderPc]
    /\ frame \in [Senders -> Frame]
    /\ gone \subseteq Session
    /\ reset \subseteq Session
    /\ faults \in 0 .. MaxFaults
    /\ skipped \in BOOLEAN

(* Whoever can see a socket sees the key and the identifier of the same    *)
(* session: _establish_once installs the socket last and _invalidate drops *)
(* it first, so no reader pairs a live socket with another session's key.  *)
LiveSocketCoherent ==
    sock # NoSession => sessionKey = sock /\ sessionId = sock

(* At most one thread ever runs connect_and_establish: _reconnecting keeps *)
(* two failing senders from starting two reconnect threads.                *)
SingleEstablisher ==
    \A d, e \in Establishers :
        epc[d] \in PreInstall \cup {"setState"} /\
        epc[e] \in PreInstall \cup {"setState"} => d = e

(* A sender that is about to invalidate the session on a write error drops *)
(* the session the write failed on, never a newer one that a reconnect has *)
(* installed in the meantime.                                              *)
FailureHitsOwnSession ==
    \A t \in Senders :
        spc[t] \in {"sendall", "dropSock"} => sock = frame[t].sock

(* A frame goes out over the session it was encrypted for, unless the      *)
(* session that is_established saw was replaced before the send lock was   *)
(* taken: the check is stale only when a reconnect completed inside it.    *)
MismatchOnlyIfReplaced ==
    \A t \in Senders :
        spc[t] = "sendall" /\ frame[t].seen = frame[t].sock =>
            frame[t].key = frame[t].sock /\ frame[t].sid = frame[t].sock

(* An exception other than the documented CryptoError ("Raises             *)
(* crypto.CryptoError when the session is not usable",                     *)
(* cloud_channel.py:154) leaves send_reading only if another thread took   *)
(* the session away after is_established saw it: a live session never      *)
(* fails a sender in this way.                                             *)
CrashOnlyIfInvalidated ==
    [][\A t \in Senders :
          spc[t] # "crashed" /\ spc'[t] = "crashed" =>
              frame[t].seen \notin {NoSession, sock}]_vars

(* Once the gateway is up, a channel without a socket is being repaired:   *)
(* a sender is on its way to _start_reconnect or a thread is establishing. *)
(* The two exceptions are a _start_reconnect that found the old thread not *)
(* yet finished and a thread that died of ConnectionClosedError.           *)
RepairUnderWay ==
    epc[Main] = "done" /\ sock = NoSession =>
        \/ \E t \in Senders : spc[t] \in {"dropKey", "markFailed", "restart"}
        \/ \E r \in Reconnectors : epc[r] \in PreInstall
        \/ skipped
        \/ \E r \in Reconnectors : epc[r] \in {"unwind", "raised"}

(* _start_reconnect's early return is never taken for a repair that is     *)
(* still to come: the thread it defers to has already installed its socket *)
(* (the one whose write has just failed) and is only on its way out.       *)
SkippedIsLost ==
    \A t \in Senders : spc[t] = "restart" /\ reconnecting =>
        \E r \in Reconnectors : epc[r] \in {"setState", "finish"}

(* A channel that is not usable becomes usable again, if no request to     *)
(* reconnect was dropped by _start_reconnect's early return and no thread  *)
(* died of ConnectionClosedError: nothing else stops the recovery.         *)
RecoversUnlessSkipped ==
    ~IsEstablished ~>
        \/ IsEstablished
        \/ skipped
        \/ \E e \in Establishers : epc[e] = "raised"

(* A connection that the cloud has left is noticed and dropped: the first  *)
(* write may be swallowed but a later one fails and invalidates it.        *)
DeadLinkDropped == (sock \in gone \cup reset) ~> (sock \notin gone \cup reset)

(* The send lock is never held for ever, whatever the write ends in.       *)
LockReleased == sendLock # Free ~> sendLock = Free

-----------------------------------------------------------------------------
(* The abstract specification that the fields of the channel implement.    *)

Lifecycle == INSTANCE SessionLifecycle WITH
    current <- sock,
    latest  <- sessionId,
    pending <- \E e \in Establishers : epc[e] = "setSock"

(* One session at a time, published before it is used, never used again:   *)
(* the unlocked assignments of all threads together follow this protocol.  *)
ImplementsLifecycle == Lifecycle!Spec

-----------------------------------------------------------------------------
(* What the code's comments and docstrings say and the code does not do.   *)

(* "connect_and_establish retries until it succeeds"                       *)
(* (cloud_channel.py:191): no establishing thread leaves by an exception.  *)
RetriesUntilSuccess == \A e \in Establishers : epc[e] # "raised"

(* "A send failure invalidates the session and starts a background         *)
(* reconnect" (cloud_channel.py:154-156): the channel always recovers.     *)
Recovers == ~IsEstablished ~> IsEstablished

=============================================================================
