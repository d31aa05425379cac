---------------------------- MODULE DeviceServer ----------------------------
(***************************************************************************)
(* The gateway's side of the device connections: src/gateway/gateway.py,   *)
(* class DeviceServer, with the decisions it takes on each message in      *)
(* src/gateway/processing.py (hello policy, legacy readings), the checks   *)
(* of src/common/protocol.py and the AEAD use of src/common/crypto.py.     *)
(*                                                                         *)
(* A message is a record of its fields.  A field is Absent when it is      *)
(* missing or has the wrong JSON type, NotBase64 or WrongLength when it    *)
(* does not decode as it should.  An AEAD output is the record of what     *)
(* went into it: it opens under the same key, nonce and associated data    *)
(* and under nothing else.  Messages with any combination of fields may    *)
(* arrive, whether by a fault of a device, of the network or otherwise.    *)
(***************************************************************************)
EXTENDS Naturals, FiniteSets

CONSTANTS
    Handlers,        \* slots for handler threads
    Known,           \* devices in the gateway's key registry
    Unknown,         \* a device that is not
    Nonces,          \* nonces of the right length
    MaxSeq,          \* bound: sequence numbers
    MaxConnections,  \* bound: connections accepted
    MaxFrames        \* bound: readings received

ASSUME ServerAssumption ==
    /\ Unknown \notin Known
    /\ MaxSeq \in Nat
    /\ MaxConnections \in Nat
    /\ MaxFrames \in Nat

VARIABLES
    pc,        \* where each handler thread is
    device,    \* the device it serves
    hello,     \* history: the hello it admitted
    frame,     \* the reading it has accepted and not yet forwarded
    accepted,  \* history: device and message of every accepted reading
    last,      \* the replay guard
    seen,      \* _seen_devices
    conns,     \* connections accepted so far
    crashes,   \* history: threads that died in send_reading
    metrics    \* the counters

thread == <<pc, device, hello, frame>>
vars == <<thread, accepted, last, seen, conns, crashes, metrics>>

Absent      == [form |-> "absent"]
NotBase64   == [form |-> "notBase64"]
WrongLength == [form |-> "wrongLength"]
NotAList    == {"not a list of strings"}
NotAnInt    == 0
Bad         == {Absent, NotBase64, WrongLength}
Nonce       == {[form |-> "nonce", value |-> n] : n \in Nonces}

Modern  == "ml-kem-768"
Legacy  == "chacha20-poly1305"
Other   == "a capability the gateway does not know"
Claims  == SUBSET {Modern, Legacy, Other}
Devices == Known \cup {Unknown}

(* ChaCha20-Poly1305 under the key of device k, over the associated data.  *)
Sealed(k, n, aad, body) ==
    [form |-> "sealed", key |-> k, nonce |-> n, aad |-> aad, body |-> body]

HelloAad(id, caps)  == [id |-> id, caps |-> caps]
FrameAad(id, seq)   == [id |-> id, seq |-> seq]

(* crypto.build_hello, and what encrypts a reading in device.run.          *)
HelloTag(k, n, id, caps) == Sealed(k, n, HelloAad(id, caps), "empty")
Ciphertext(k, n, id, seq, body) == Sealed(k, n, FrameAad(id, seq), body)

Hellos ==
    [type  : {"hello", "other"},
     id    : Devices \cup {Absent},
     caps  : Claims \cup {NotAList},
     nonce : Nonce \cup Bad,
     tag   : {Absent, NotBase64} \cup
             {HelloTag(k, n, i, c) : k \in Known, n \in Nonce,
                                     i \in Devices, c \in Claims}]

Frames ==
    [type  : {"reading", "other"},
     id    : Devices \cup {Absent},
     seq   : NotAnInt .. MaxSeq,
     nonce : Nonce \cup Bad,
     text  : {Absent, NotBase64} \cup
             {Ciphertext(k, n, i, s, b) : k \in Known, n \in Nonce,
                                          i \in Devices, s \in 1 .. MaxSeq,
                                          b \in {"reading", "garbage"}}]

Counters == {"received", "processed", "forwarded", "rejected", "errors",
             "fallback", "detected"}
Pc == {"closed", "hello", "serve", "forward"}

Bump(counters) ==
    metrics' = [c \in Counters |->
                   IF c \in counters THEN metrics[c] + 1 ELSE metrics[c]]

Goto(h, from, to) ==
    /\ pc[h] \in from
    /\ pc' = [pc EXCEPT ![h] = to]

Init ==
    /\ pc = [h \in Handlers |-> "closed"]
    /\ device = [h \in Handlers |-> Absent]
    /\ hello = [h \in Handlers |-> Absent]
    /\ frame = [h \in Handlers |-> Absent]
    /\ accepted = {}
    /\ last = [d \in Known |-> 0]
    /\ seen = {}
    /\ conns = 0
    /\ crashes = 0
    /\ metrics = [c \in Counters |-> 0]

-----------------------------------------------------------------------------
(* The hello: parse_hello, verify_hello_auth, determine_path and           *)
(* evaluate_hello.                                                         *)

WellFormedHello(m) ==
    /\ m.type = "hello"
    /\ m.id # Absent
    /\ m.caps # NotAList
    /\ m.nonce # Absent
    /\ m.tag # Absent

(* Mutant: the tag covers who speaks but not what it claims.               *)
HelloIdVerifies(m) ==
    /\ m.nonce \in Nonce
    /\ \E c \in Claims : m.tag = HelloTag(m.id, m.nonce, m.id, c)

HelloVerifies(m) ==
    /\ m.nonce \in Nonce
    /\ m.tag = HelloTag(m.id, m.nonce, m.id, m.caps)

(* Mutant: a device that can do both is served on the legacy path.         *)
Downgraded(caps) ==
    IF Legacy \in caps THEN "legacy"
    ELSE IF Modern \in caps THEN "modern" ELSE "unknown"

DeterminePath(caps) ==
    LET has_modern == Modern \in caps
        has_legacy == Legacy \in caps
    IN  CASE has_modern  /\ has_legacy  -> "both"
          [] has_modern  /\ ~has_legacy -> "modern"
          [] ~has_modern /\ has_legacy  -> "legacy"
          [] ~has_modern /\ ~has_legacy -> "unknown"

Admitted(m) ==
    /\ m.id \in Known
    /\ HelloVerifies(m)
    /\ DeterminePath(m.caps) = "legacy"

(* The hellos that _handle counts as errors, that _admit_or_serve counts as*)
(* rejected, and that it admits.                                           *)
Malformed == {m \in Hellos : ~WellFormedHello(m)}
Refused   == {m \in Hellos : WellFormedHello(m) /\ ~Admitted(m)}
Welcome   == {m \in Hellos : WellFormedHello(m) /\ Admitted(m)}

Connect(h) ==
    /\ conns < MaxConnections
    /\ conns' = conns + 1
    /\ Goto(h, {"closed"}, "hello")
    /\ UNCHANGED <<device, hello, frame, accepted, last, seen, crashes,
                   metrics>>

MalformedHello(h) ==
    /\ Goto(h, {"hello"}, "closed")
    /\ Malformed # {}
    /\ Bump({"errors"})
    /\ UNCHANGED <<device, hello, frame, accepted, last, seen, conns, crashes>>

RejectHello(h) ==
    /\ Goto(h, {"hello"}, "closed")
    /\ Refused # {}
    /\ Bump({"rejected"})
    /\ UNCHANGED <<device, hello, frame, accepted, last, seen, conns, crashes>>

(* Mutant: the set of devices seen is not consulted.                       *)
DetectedAlways(id) == {"fallback", "detected"}
DetectedBy(id) ==
    IF id \in seen THEN {"fallback"} ELSE {"fallback", "detected"}

AdmitHello(h) ==
    /\ Goto(h, {"hello"}, "serve")
    /\ \E m \in Welcome :
          /\ device' = [device EXCEPT ![h] = m.id]
          /\ hello' = [hello EXCEPT ![h] = m]
          /\ seen' = seen \cup {m.id}
          /\ Bump(DetectedBy(m.id))
    /\ UNCHANGED <<frame, accepted, last, conns, crashes>>

-----------------------------------------------------------------------------
(* The readings: _serve_legacy, decrypt_legacy_message and _aead_decrypt.  *)

(* An envelope field that is there but does not decode, in the order the   *)
(* fields are read: nonce, ciphertext, length of the nonce.                *)
Undecodable(m) ==
    \/ m.nonce = NotBase64
    \/ m.nonce # Absent /\ m.text = NotBase64
    \/ m.nonce = WrongLength /\ m.text # Absent

(* Mutant: the associated data does not bind the sequence number.          *)
OpensAnySequence(m, id) ==
    \E s \in 1 .. MaxSeq :
        m.text = Ciphertext(id, m.nonce, id, s, "reading")

Opens(m, id) == m.text = Ciphertext(id, m.nonce, id, m.seq, "reading")

(* ProcessingError and LegacyDecryptionError drop the message; a           *)
(* ProtocolError is caught only by _handle, which ends the connection.     *)
AddressedTo(m, id) == m.type = "reading" /\ m.id = id
RaisesProtocolError(m, id) ==
    AddressedTo(m, id) /\ (m.seq = NotAnInt \/ Undecodable(m))
IsReading(m, id) ==
    AddressedTo(m, id) /\ m.seq # NotAnInt /\ ~Undecodable(m) /\ Opens(m, id)

(* Mutant: a number equal to the last one passes the replay guard.         *)
PassesOrRepeats(seq, id) == seq >= last[id]
Passes(seq, id) == seq > last[id]

CanReceive == metrics["received"] < MaxFrames

(* Mutant: a frame that does not decode is dropped without being counted.  *)
MalformedFrameUncounted(h) ==
    /\ CanReceive
    /\ Goto(h, {"serve"}, "closed")
    /\ \E m \in Frames : RaisesProtocolError(m, device[h])
    /\ Bump({"received"})
    /\ UNCHANGED <<device, hello, frame, accepted, last, seen, conns, crashes>>

MalformedFrame(h) ==
    /\ CanReceive
    /\ Goto(h, {"serve"}, "closed")
    /\ \E m \in Frames : RaisesProtocolError(m, device[h])
    /\ Bump({"received", "errors"})
    /\ UNCHANGED <<device, hello, frame, accepted, last, seen, conns, crashes>>

(* Not a reading of this device, or one the replay guard has seen.         *)
RejectFrame(h) ==
    /\ CanReceive
    /\ Goto(h, {"serve"}, "serve")
    /\ \E m \in Frames :
          /\ ~RaisesProtocolError(m, device[h])
          /\ IsReading(m, device[h]) => ~Passes(m.seq, device[h])
    /\ Bump({"received", "rejected"})
    /\ UNCHANGED <<device, hello, frame, accepted, last, seen, conns, crashes>>

(* check_and_update, the only call of this step that other threads see.    *)
AcceptFrame(h) ==
    /\ CanReceive
    /\ Goto(h, {"serve"}, "forward")
    /\ \E m \in Frames :
          /\ IsReading(m, device[h])
          /\ Passes(m.seq, device[h])
          /\ last' = [last EXCEPT ![device[h]] = m.seq]
          /\ frame' = [frame EXCEPT ![h] = m]
          /\ accepted' = accepted \cup {[id |-> device[h], message |-> m]}
    /\ Bump({"received", "processed"})
    /\ UNCHANGED <<device, hello, seen, conns, crashes>>

-----------------------------------------------------------------------------
(* CloudChannel.send_reading returns, raises CryptoError, or is left by an *)
(* exception nobody catches (CloudChannel.tla says when).                  *)

Forwarded(h) ==
    /\ Goto(h, {"forward"}, "serve")
    /\ frame' = [frame EXCEPT ![h] = Absent]
    /\ Bump({"forwarded"})
    /\ UNCHANGED <<device, hello, accepted, last, seen, conns, crashes>>

SendRefused(h) ==
    /\ Goto(h, {"forward"}, "closed")
    /\ frame' = [frame EXCEPT ![h] = Absent]
    /\ Bump({"errors"})
    /\ UNCHANGED <<device, hello, accepted, last, seen, conns, crashes>>

SendCrashes(h) ==
    /\ Goto(h, {"forward"}, "closed")
    /\ frame' = [frame EXCEPT ![h] = Absent]
    /\ crashes' = crashes + 1
    /\ UNCHANGED <<device, hello, accepted, last, seen, conns, metrics>>

(* The device disconnects, which is no error.                              *)
Disconnect(h) ==
    /\ Goto(h, {"hello", "serve"}, "closed")
    /\ UNCHANGED <<device, hello, frame, accepted, last, seen, conns, crashes,
                   metrics>>

(* No message at all comes of the bytes read: a reset, 60 s of silence, a  *)
(* line that is too long, cut off, or no JSON object.                      *)
ReadFails(h) ==
    /\ Goto(h, {"hello", "serve"}, "closed")
    /\ Bump({"errors"})
    /\ UNCHANGED <<device, hello, frame, accepted, last, seen, conns, crashes>>

Handler(h) ==
    \/ Connect(h)
    \/ MalformedHello(h)
    \/ RejectHello(h)
    \/ AdmitHello(h)
    \/ MalformedFrame(h)
    \/ RejectFrame(h)
    \/ AcceptFrame(h)
    \/ Forwarded(h)
    \/ SendRefused(h)
    \/ SendCrashes(h)
    \/ Disconnect(h)
    \/ ReadFails(h)

Next == \E h \in Handlers : Handler(h)

Spec == Init /\ [][Next]_vars

-----------------------------------------------------------------------------
(* Properties.                                                             *)

(* Every variable has its type; only registered devices are ever served.   *)
TypeOK ==
    /\ pc \in [Handlers -> Pc]
    /\ \A h \in Handlers :
          /\ pc[h] \in {"serve", "forward"} => device[h] \in Known
          /\ pc[h] = "forward" <=> frame[h] # Absent
    /\ last \in [Known -> 0 .. MaxSeq]
    /\ seen \subseteq Known
    /\ conns \in 0 .. MaxConnections
    /\ crashes \in Nat
    /\ metrics \in [Counters -> Nat]

(* Downgrade resistance: a device is served on the weaker path only if it  *)
(* has itself claimed this path, under its own key, in a list without the  *)
(* modern one; nobody can strip or add a capability on the way.  The list  *)
(* may name more that the gateway does not know: "legacy-only"             *)
(* (gateway.py:14) is not what determine_path asks for.                    *)
ServedAsClaimed ==
    \A h \in Handlers : pc[h] \in {"serve", "forward"} =>
        \E n \in Nonce, caps \in Claims :
            /\ hello[h].tag = HelloTag(device[h], n, device[h], caps)
            /\ Legacy \in caps
            /\ Modern \notin caps

(* A reading is accepted on behalf of a device only as that device sealed  *)
(* it, under the number it was sealed with, and no two accepted readings   *)
(* of a device have the same number, on whichever connections they came.   *)
AcceptedAsSealed ==
    /\ \A a \in accepted :
          /\ a.message.text.key = a.id
          /\ a.message.text.aad = FrameAad(a.id, a.message.seq)
    /\ \A a, b \in accepted :
          a.id = b.id /\ a.message.seq = b.message.seq => a = b

(* Every message read is counted as processed, as rejected or as an error, *)
(* and every processed reading is forwarded, on its way, an error, or lost *)
(* with a thread that died in send_reading.                                *)
NothingUnaccounted ==
    LET forwarding == Cardinality({h \in Handlers : pc[h] = "forward"})
    IN  /\ metrics["processed"] <= metrics["received"]
        /\ metrics["received"] <= metrics["processed"] + metrics["rejected"]
                                  + metrics["errors"]
        /\ metrics["forwarded"] + forwarding <= metrics["processed"]
        /\ metrics["processed"] <= metrics["forwarded"] + forwarding
                                   + metrics["errors"] + crashes

(* legacy_devices_detected counts devices, fallback_activations counts     *)
(* admissions, however often a device reconnects and on whichever threads. *)
DetectedCountsDevices ==
    /\ metrics["detected"] = Cardinality(seen)
    /\ metrics["detected"] <= metrics["fallback"]

=============================================================================
