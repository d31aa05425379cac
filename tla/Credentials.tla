---------------------------- MODULE Credentials -----------------------------
(***************************************************************************)
(* The key registries of src/common/config.py and the lookup that decides  *)
(* whether a connection is served: device_key in src/gateway/gateway.py.   *)
(* The cloud looks gateways up in the same way.                            *)
(*                                                                         *)
(* The registry is not loaded once: every hello reads the document again,  *)
(* from the environment, from the file that DEVICE_KEYS_FILE names or from *)
(* the demo file.  A peer loads its own key once, when its process starts. *)
(* The operator may overwrite the file while the server runs; the document *)
(* is then truncated for a moment, and not every document that is written  *)
(* is well formed.                                                         *)
(*                                                                         *)
(* CInit, CNext, CSpec: CommonProofs extends this module and Framing.      *)
(***************************************************************************)
EXTENDS Naturals

CONSTANTS
    Handlers,        \* slots for the server's handler threads
    Peers,           \* identities of devices
    Keys,            \* 32-byte keys
    NoKey,           \* no entry in a registry, or a process that is not up
    DemoKey,         \* the key of every peer in the committed demo file
    MaxConnections,  \* bound: connections accepted
    MaxEdits         \* bound: times that the operator writes the file

Registry == [Peers -> Keys \cup {NoKey}]
Demo     == [d \in Peers |-> DemoKey]

ASSUME CredentialsAssumption ==
    /\ Peers # {}
    /\ NoKey \notin Keys
    /\ DemoKey \in Keys
    /\ MaxConnections \in Nat
    /\ MaxEdits \in Nat

VARIABLES
    inline,     \* what DEVICE_KEYS_JSON holds
    file,       \* what the file that DEVICE_KEYS_FILE names holds
    edit,       \* what the operator is about to write to the file
    edits,      \* times that the operator wrote
    own,        \* the key that each peer's process has loaded
    pc,         \* where each handler thread is
    peer,       \* the peer that connected
    sealed,     \* the key under which the peer's hello is sealed
    device_key, \* the key that serves the connection
    current,    \* history: registries in force since the peer connected
    conns,      \* connections accepted
    counters    \* messages_rejected and errors

document == <<inline, file, edit, edits>>
thread == <<pc, peer, sealed, device_key>>
tally == <<conns, counters>>
cvars == <<document, own, thread, current, tally>>

(* A document: its variable is not set; the file is not there; it is cut   *)
(* short, so that json.loads fails; complete, but with a key that is not 32*)
(* bytes of hexadecimal; or a registry.                                    *)
Unset     == [form |-> "unset"]
Missing   == [form |-> "missing"]
Torn      == [form |-> "torn"]
Malformed == [form |-> "malformed"]
Doc(keys) == [form |-> "complete", keys |-> keys]

Written  == {Malformed} \cup {Doc(keys) : keys \in Registry}
Document == {Unset, Missing, Torn} \cup Written

(* _keys_from_env_or_file: the document that counts.  Mutants: the demo    *)
(* file stands in for a document that cannot be used; an empty file holds  *)
(* an empty registry.                                                      *)
ResolvedOrDemo(i, f) ==
    IF i.form = "complete" THEN i
    ELSE IF f.form = "complete" THEN f
    ELSE Doc(Demo)
ResolvedEmpty(i, f) ==
    IF i # Unset THEN i
    ELSE IF f = Torn THEN Doc([d \in Peers |-> NoKey])
    ELSE IF f # Unset THEN f
    ELSE Doc(Demo)
Resolved(i, f) ==
    IF i # Unset THEN i
    ELSE IF f # Unset THEN f
    ELSE Doc(Demo)

(* The registry that the operator has in force, if any.                    *)
InForce ==
    {keys \in Registry :
        \/ inline = Doc(keys)
        \/ inline = Unset /\ file = Doc(keys)
        \/ inline = Unset /\ file = Unset /\ keys = Demo}

CInit ==
    /\ inline \in {Unset} \cup Written
    /\ file \in {Unset, Missing} \cup Written
    /\ edit = Unset
    /\ edits = 0
    /\ own = [d \in Peers |-> NoKey]
    /\ pc = [h \in Handlers |-> "free"]
    /\ peer = [h \in Handlers |-> CHOOSE d \in Peers : TRUE]
    /\ sealed = [h \in Handlers |-> NoKey]
    /\ device_key = [h \in Handlers |-> NoKey]
    /\ current = [h \in Handlers |-> {}]
    /\ conns = 0
    /\ counters = [messages_rejected |-> 0, errors |-> 0]

-----------------------------------------------------------------------------
(* Around the server.                                                      *)

(* What is in force now is what a connection under way may be judged by.   *)
Noted ==
    current' = [h \in Handlers |->
                   IF pc'[h] = "hello" THEN current[h] \cup InForce'
                   ELSE IF pc'[h] = "free" THEN {} ELSE current[h]]

(* The operator overwrites the file: it is truncated, then written.        *)
Truncate ==
    /\ file # Unset
    /\ edit = Unset
    /\ edits < MaxEdits
    /\ edit' \in Written
    /\ file' = Torn
    /\ edits' = edits + 1
    /\ UNCHANGED <<inline, own, thread, tally>>
    /\ Noted

Write ==
    /\ edit # Unset
    /\ file' = edit
    /\ edit' = Unset
    /\ UNCHANGED <<inline, edits, own, thread, tally>>
    /\ Noted

(* A device process starts with the key it is given, or ends.              *)
StartPeer(d) ==
    /\ own[d] = NoKey
    /\ \E k \in Keys : own' = [own EXCEPT ![d] = k]
    /\ UNCHANGED <<document, thread, current, tally>>

StopPeer(d) ==
    /\ own[d] # NoKey
    /\ own' = [own EXCEPT ![d] = NoKey]
    /\ UNCHANGED <<document, thread, current, tally>>

(* A device connects and sends its hello.                                  *)
Connect(h, d) ==
    /\ pc[h] = "free"
    /\ own[d] # NoKey
    /\ conns < MaxConnections
    /\ conns' = conns + 1
    /\ pc' = [pc EXCEPT ![h] = "hello"]
    /\ peer' = [peer EXCEPT ![h] = d]
    /\ sealed' = [sealed EXCEPT ![h] = own[d]]
    /\ UNCHANGED <<document, own, device_key, counters>>
    /\ Noted

-----------------------------------------------------------------------------
(* The lookup: the thread of h has read the hello and reads the document.  *)

Lookup(h, forms) ==
    /\ pc[h] = "hello"
    /\ Resolved(inline, file).form \in forms

(* The key for the peer of h in the document.                              *)
Registered(h) == Resolved(inline, file).keys[peer[h]]

(* The handler returns or raises; the connection is closed.                *)
End(h) ==
    /\ pc' = [pc EXCEPT ![h] = "free"]
    /\ sealed' = [sealed EXCEPT ![h] = NoKey]
    /\ device_key' = [device_key EXCEPT ![h] = NoKey]
    /\ UNCHANGED <<document, own, peer, conns>>
    /\ Noted

CountOne(name) == counters' = [counters EXCEPT ![name] = @ + 1]

(* ValueError from json.loads, fromhex or the length check: _handle does   *)
(* not catch it, so the thread ends with a traceback and nothing is counted*)
(* although errors stands for "unexpected failures" (metrics.py:13).       *)
LookupDies(h) ==
    /\ Lookup(h, {"torn", "malformed"})
    /\ UNCHANGED counters
    /\ End(h)

(* FileNotFoundError is an OSError.                                        *)
LookupFails(h) ==
    /\ Lookup(h, {"missing"})
    /\ CountOne("errors")
    /\ End(h)

(* The peer is not in the registry, or its hello is sealed under another   *)
(* key than the registry has for it.                                       *)
RejectPeer(h) ==
    /\ Lookup(h, {"complete"})
    /\ Registered(h) # sealed[h]
    /\ CountOne("messages_rejected")
    /\ End(h)

(* Mutant: the hello is not verified.                                      *)
AdmitUnverified(h) ==
    /\ Lookup(h, {"complete"})
    /\ device_key' = [device_key EXCEPT ![h] = Registered(h)]
    /\ pc' = [pc EXCEPT ![h] = "serving"]
    /\ UNCHANGED <<document, own, peer, sealed, tally>>
    /\ Noted

(* The key is passed down to _serve_legacy, which never looks it up again. *)
Admit(h) ==
    /\ Lookup(h, {"complete"})
    /\ Registered(h) = sealed[h]
    /\ device_key' = [device_key EXCEPT ![h] = Registered(h)]
    /\ pc' = [pc EXCEPT ![h] = "serving"]
    /\ UNCHANGED <<document, own, peer, sealed, tally>>
    /\ Noted

(* The device is gone, or silent for 60 s.                                 *)
Depart(h) ==
    /\ pc[h] = "serving"
    /\ UNCHANGED counters
    /\ End(h)

Handler(h) ==
    \/ LookupDies(h)
    \/ LookupFails(h)
    \/ RejectPeer(h)
    \/ Admit(h)
    \/ Depart(h)

CNext ==
    \/ Truncate
    \/ Write
    \/ \E d \in Peers : StartPeer(d) \/ StopPeer(d)
    \/ \E h \in Handlers, d \in Peers : Connect(h, d)
    \/ \E h \in Handlers : Handler(h)

CSpec == CInit /\ [][CNext]_cvars

-----------------------------------------------------------------------------
(* Properties.                                                             *)

(* Every variable has its type.                                            *)
CTypeOK ==
    /\ inline \in Document
    /\ file \in Document
    /\ edit \in {Unset} \cup Written
    /\ edits \in 0 .. MaxEdits
    /\ own \in [Peers -> Keys \cup {NoKey}]
    /\ pc \in [Handlers -> {"free", "hello", "serving"}]
    /\ peer \in [Handlers -> Peers]
    /\ sealed \in [Handlers -> Keys \cup {NoKey}]
    /\ device_key \in [Handlers -> Keys \cup {NoKey}]
    /\ \A h \in Handlers :
          /\ sealed[h] \in Keys <=> pc[h] # "free"
          /\ device_key[h] \in Keys <=> pc[h] = "serving"
    /\ current \in [Handlers -> SUBSET Registry]
    /\ conns \in 0 .. MaxConnections
    /\ counters \in [{"messages_rejected", "errors"} -> Nat]

(* A connection is served under a key that the operator's registry held for*)
(* this peer between the connection and its hello's verdict: not under one *)
(* that was withdrawn before, and never under a demo key because the       *)
(* configured document is missing or broken.                               *)
ServedUnderCurrentKey ==
    \A h \in Handlers :
        pc[h] = "serving" =>
            /\ device_key[h] = sealed[h]
            /\ \E keys \in current[h] : keys[peer[h]] = device_key[h]

(* A peer is rejected only by a complete registry which disagrees with its *)
(* hello: an operator who rewrites the file and leaves a peer's entry as it*)
(* is never turns that peer into an unknown one for a moment.              *)
RejectedNow(h) ==
    /\ pc[h] = "hello"
    /\ pc'[h] = "free"
    /\ counters'["messages_rejected"] # counters["messages_rejected"]

RejectedForCause ==
    [][\A h \in Handlers : RejectedNow(h) =>
          \E keys \in current[h] : keys[peer[h]] # sealed[h]]_cvars
=============================================================================
