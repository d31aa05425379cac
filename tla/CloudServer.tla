---------------------------- MODULE CloudServer -----------------------------
(***************************************************************************)
(* The cloud service: src/cloud/cloud.py (SessionRegistry, CloudServer),   *)
(* src/cloud/processing.py, src/cloud/store.py and src/common/replay.py.   *)
(*                                                                         *)
(* Every accepted gateway connection is served by a thread of its own,     *)
(* running _handle.  The threads share the registry of sessions, the       *)
(* replay guard, the bounded store of readings and the metrics; each of    *)
(* these has its own lock, held for one call, so one call is one step and  *)
(* nothing keeps two calls of a thread together.                           *)
(*                                                                         *)
(* Connections are numbered.  The gateway makes one establishment attempt, *)
(* with a fresh session identifier, on each connection, so the session     *)
(* identifier is the connection's number.                                  *)
(***************************************************************************)
EXTENDS Naturals, Sequences, FiniteSets

CONSTANTS
    Handlers,        \* slots for concurrent handler threads
    Devices,         \* device identifiers in the readings
    MaxSeq,          \* bound: sequence numbers of the readings
    MaxConnections,  \* bound: connections accepted
    MaxFrames,       \* bound: protected readings received
    Capacity         \* maxlen of the store's deque

ASSUME CloudAssumption ==
    /\ MaxSeq \in Nat
    /\ MaxConnections \in Nat
    /\ MaxFrames \in Nat
    /\ Capacity \in Nat \ {0}

VARIABLES
    pc,         \* where each handler thread is
    conn,       \* number of the connection it serves
    peer,       \* what has become of the gateway at the other end
    owned,      \* _handle's session_id: set when _establish_session returns
    reading,    \* the reading a handler has accepted and not yet stored
    nextConn,   \* number of the next connection
    registry,   \* sessions in SessionRegistry
    last,       \* ReplayGuard: highest accepted sequence per device
    store,      \* ReadingStore's deque
    stored,     \* history: every reading ever added to the store
    leaked,     \* history: sessions whose handler died in its last reply
    died,       \* history: sessions whose handler died at the replay guard
    metrics     \* the counters

threads == <<pc, conn, peer, owned, reading, nextConn>>
readings == <<last, store, stored>>
vars == <<threads, registry, readings, leaked, died, metrics>>

Reading  == [dev : Devices, seq : 1 .. MaxSeq]
NoSession == 0
NoReading == [dev |-> "none", seq |-> 0]
Counters == {"received", "processed", "rejected", "errors", "established"}
Pc       == {"closed", "request", "encaps", "register", "reply", "serve",
             "store", "closing"}

Count(counter)     == metrics' = [metrics EXCEPT ![counter] = @ + 1]
CountBoth(one, two) ==
    metrics' = [metrics EXCEPT ![one] = @ + 1, ![two] = @ + 1]

Goto(h, from, to) ==
    /\ pc[h] \in from
    /\ pc' = [pc EXCEPT ![h] = to]

Init ==
    /\ pc = [h \in Handlers |-> "closed"]
    /\ conn = [h \in Handlers |-> 0]
    /\ peer = [h \in Handlers |-> "here"]
    /\ owned = [h \in Handlers |-> NoSession]
    /\ reading = [h \in Handlers |-> NoReading]
    /\ nextConn = 1
    /\ registry = {}
    /\ last = [d \in Devices |-> 0]
    /\ store = <<>>
    /\ stored = {}
    /\ leaked = {}
    /\ died = {}
    /\ metrics = [c \in Counters |-> 0]

-----------------------------------------------------------------------------
(* _establish_session.                                                     *)

Accept(h) ==
    /\ Goto(h, {"closed"}, "request")
    /\ nextConn <= MaxConnections
    /\ conn' = [conn EXCEPT ![h] = nextConn]
    /\ peer' = [peer EXCEPT ![h] = "here"]
    /\ nextConn' = nextConn + 1
    /\ UNCHANGED <<owned, reading, registry, readings, leaked, died, metrics>>

(* The request is well formed, its tag verifies, and the public key is     *)
(* sent.                                                                   *)
AnswerRequest(h) ==
    /\ Goto(h, {"request"}, "encaps")
    /\ UNCHANGED <<conn, peer, owned, reading, nextConn, registry, readings,
                   leaked, died, metrics>>

(* An unknown gateway or a tag that does not verify is a policy rejection. *)
RejectGateway(h) ==
    /\ Goto(h, {"request"}, "closing")
    /\ Count("rejected")
    /\ UNCHANGED <<conn, peer, owned, reading, nextConn, registry, readings,
                   leaked, died>>

Decapsulate(h) ==
    /\ Goto(h, {"encaps"}, "register")
    /\ Count("established")
    /\ UNCHANGED <<conn, peer, owned, reading, nextConn, registry, readings,
                   leaked, died>>

Register(h) ==
    /\ Goto(h, {"register"}, "reply")
    /\ registry' = registry \cup {conn[h]}
    /\ UNCHANGED <<conn, peer, owned, reading, nextConn, readings, leaked,
                   died, metrics>>

SendReply(h) ==
    /\ Goto(h, {"reply"}, "serve")
    /\ owned' = [owned EXCEPT ![h] = conn[h]]
    /\ UNCHANGED <<conn, peer, reading, nextConn, registry, readings, leaked,
                   died, metrics>>

(* The write of the reply raises OSError, so _establish_session does not   *)
(* return and _handle never learns which session was registered.           *)
ReplyFails(h) ==
    /\ Goto(h, {"reply"}, "closing")
    /\ leaked' = leaked \cup {conn[h]}
    /\ Count("errors")
    /\ UNCHANGED <<conn, peer, owned, reading, nextConn, registry, readings,
                   died>>

-----------------------------------------------------------------------------
(* _receive_readings.                                                      *)

(* ReplayGuard.check_and_update, in two halves.                            *)
IsNewerOrSame(r) == r.seq >= last[r.dev]  \* mutant: duplicates pass
IsNewer(r)       == r.seq > last[r.dev]
Update(r)        == last' = [last EXCEPT ![r.dev] = r.seq]

CanReceive == metrics["received"] < MaxFrames

AcceptReading(h) ==
    /\ CanReceive
    /\ Goto(h, {"serve"}, "store")
    /\ \E r \in Reading :
          /\ IsNewer(r)
          /\ Update(r)
          /\ reading' = [reading EXCEPT ![h] = r]
    /\ Count("received")
    /\ UNCHANGED <<conn, peer, owned, nextConn, registry, store, stored,
                   leaked, died>>

(* Mutant: a replay is dropped and counted nowhere.                        *)
RejectReplaySilently(h) ==
    /\ CanReceive
    /\ Goto(h, {"serve"}, "serve")
    /\ \E r \in Reading : ~IsNewer(r)
    /\ Count("received")
    /\ UNCHANGED <<conn, peer, owned, reading, nextConn, registry, readings,
                   leaked, died>>

RejectReplay(h) ==
    /\ CanReceive
    /\ Goto(h, {"serve"}, "serve")
    /\ \E r \in Reading : ~IsNewer(r)
    /\ CountBoth("received", "rejected")
    /\ UNCHANGED <<conn, peer, owned, reading, nextConn, registry, readings,
                   leaked, died>>

(* Wrong type, another session's identifier, a frame that does not decrypt,*)
(* a plaintext that is no reading, a sequence that is no integer: the      *)
(* message is dropped and the connection goes on.                          *)
RejectFrame(h) ==
    /\ CanReceive
    /\ Goto(h, {"serve"}, "serve")
    /\ CountBoth("received", "rejected")
    /\ UNCHANGED <<conn, peer, owned, reading, nextConn, registry, readings,
                   leaked, died>>

(* A message without a session_id, or with fields that are not base64,     *)
(* raises ProtocolError, which ends the connection.                        *)
MalformedFrame(h) ==
    /\ CanReceive
    /\ Goto(h, {"serve"}, "closing")
    /\ CountBoth("received", "errors")
    /\ UNCHANGED <<conn, peer, owned, reading, nextConn, registry, readings,
                   leaked, died>>

(* A reading that opens has a device_id, but parse_reading_bytes asks for  *)
(* no more than that: a list or an object cannot be looked up.  The        *)
(* TypeError of check_and_update is none that _handle catches; the thread  *)
(* ends after the finally clause, and nothing else is counted.             *)
LookupDies(h) ==
    /\ CanReceive
    /\ Goto(h, {"serve"}, "closing")
    /\ died' = died \cup {conn[h]}
    /\ Count("received")
    /\ UNCHANGED <<conn, peer, owned, reading, nextConn, registry, readings,
                   leaked>>

(* ReadingStore.add: the deque drops its oldest reading when it is full.   *)
Push(r) == IF Len(store) < Capacity THEN Append(store, r)
                                    ELSE Append(Tail(store), r)

StoreReading(h) ==
    /\ Goto(h, {"store"}, "serve")
    /\ store' = Push(reading[h])
    /\ stored' = stored \cup {reading[h]}
    /\ reading' = [reading EXCEPT ![h] = NoReading]
    /\ Count("processed")
    /\ UNCHANGED <<conn, peer, owned, nextConn, registry, last, leaked, died>>

-----------------------------------------------------------------------------
(* The ways a connection ends, from any blocking read.                     *)

Reads == {"request", "encaps", "serve"}

(* ConnectionClosedError is not an error: the gateway has disconnected.    *)
EndOfFile(h) ==
    /\ peer[h] = "left"
    /\ Goto(h, Reads, "closing")
    /\ UNCHANGED <<conn, peer, owned, reading, nextConn, registry, readings,
                   leaked, died, metrics>>

(* Mutant: a socket without settimeout(60) only fails when it is told.     *)
ReadFailsWhenTold(h) ==
    /\ peer[h] = "left"
    /\ Goto(h, Reads, "closing")
    /\ Count("errors")
    /\ UNCHANGED <<conn, peer, owned, reading, nextConn, registry, readings,
                   leaked, died>>

(* ProtocolError or OSError: malformed bytes, a reset, 60 s of silence.    *)
ReadFails(h) ==
    /\ Goto(h, Reads, "closing")
    /\ Count("errors")
    /\ UNCHANGED <<conn, peer, owned, reading, nextConn, registry, readings,
                   leaked, died>>

(* Mutant: the finally clause forgets the registry.                        *)
CloseWithoutEviction(h) ==
    /\ Goto(h, {"closing"}, "closed")
    /\ conn' = [conn EXCEPT ![h] = 0]
    /\ owned' = [owned EXCEPT ![h] = NoSession]
    /\ UNCHANGED <<peer, reading, nextConn, registry, readings, leaked,
                   died, metrics>>

(* The finally clause evicts the session _handle knows of.                 *)
Close(h) ==
    /\ Goto(h, {"closing"}, "closed")
    /\ registry' = registry \ {owned[h]}
    /\ conn' = [conn EXCEPT ![h] = 0]
    /\ owned' = [owned EXCEPT ![h] = NoSession]
    /\ UNCHANGED <<peer, reading, nextConn, readings, leaked, died, metrics>>

Handler(h) ==
    \/ AnswerRequest(h)
    \/ RejectGateway(h)
    \/ Decapsulate(h)
    \/ Register(h)
    \/ SendReply(h)
    \/ ReplyFails(h)
    \/ AcceptReading(h)
    \/ RejectReplay(h)
    \/ RejectFrame(h)
    \/ MalformedFrame(h)
    \/ LookupDies(h)
    \/ StoreReading(h)
    \/ EndOfFile(h)
    \/ ReadFails(h)
    \/ Close(h)

(* The gateway disconnects, or vanishes without a word (power, network);   *)
(* what it had sent before may still be read.                              *)
PeerGoes(h) ==
    /\ pc[h] # "closed"
    /\ peer[h] = "here"
    /\ \E fate \in {"left", "vanished"} : peer' = [peer EXCEPT ![h] = fate]
    /\ UNCHANGED <<pc, conn, owned, reading, nextConn, registry, readings,
                   leaked, died, metrics>>

Next == \E h \in Handlers : Accept(h) \/ Handler(h) \/ PeerGoes(h)

Spec == Init /\ [][Next]_vars

(* A handler thread does not stop for ever: the 60 s timeout set on every  *)
(* connection ends each of its blocking calls.  Nothing is assumed of the  *)
(* gateways.                                                               *)
Fairness == \A h \in Handlers : WF_vars(Handler(h))

FairSpec == Spec /\ Fairness

-----------------------------------------------------------------------------
(* Properties.                                                             *)

(* Every variable has its type and the store respects its capacity.        *)
TypeOK ==
    /\ pc \in [Handlers -> Pc]
    /\ conn \in [Handlers -> Nat]
    /\ peer \in [Handlers -> {"here", "left", "vanished"}]
    /\ owned \in [Handlers -> Nat]
    /\ reading \in [Handlers -> Reading \cup {NoReading}]
    /\ nextConn \in Nat \ {0}
    /\ registry \subseteq 1 .. nextConn - 1
    /\ last \in [Devices -> 0 .. MaxSeq]
    /\ store \in Seq(Reading) /\ Len(store) <= Capacity
    /\ stored \subseteq Reading
    /\ leaked \subseteq registry
    /\ died \subseteq 1 .. nextConn - 1
    /\ metrics \in [Counters -> Nat]

Registered(h) == pc[h] = "reply" \/ owned[h] # NoSession

(* The registry holds the sessions of the live connections, no more and no *)
(* less, except for those whose handler died while it sent its last reply. *)
RegistryMatches ==
    registry = {conn[h] : h \in {g \in Handlers : Registered(g)}}
                  \cup leaked

(* A reading reaches the store at most once, whichever connections it came *)
(* over: what a handler is about to store is neither there yet nor about   *)
(* to be stored by another handler, although check and add are two calls.  *)
StoresNewReading ==
    \A h \in Handlers : pc[h] = "store" =>
        /\ reading[h] \notin stored
        /\ \A g \in Handlers \ {h} :
              pc[g] = "store" => reading[g] # reading[h]

(* Every message read from the wire ends up processed, rejected or as an   *)
(* error, and no message is processed that was not received.  The only     *)
(* exception is the last message of a connection whose handler dies at the *)
(* replay guard: one at most for each such connection.                     *)
NothingUnaccounted ==
    LET storing == Cardinality({h \in Handlers : pc[h] = "store"})
    IN  /\ metrics["processed"] + storing <= metrics["received"]
        /\ metrics["received"] <= metrics["processed"] + storing
                                  + metrics["rejected"] + metrics["errors"]
                                  + Cardinality(died)

(* The session of a gateway that disconnected or vanished is evicted: the  *)
(* registry does not hold it for ever, whatever becomes of its handler.    *)
DepartedEvicted ==
    \A h \in Handlers, s \in 1 .. MaxConnections :
        pc[h] = "serve" /\ conn[h] = s /\ peer[h] # "here"
            ~> s \notin registry
=============================================================================
