------------------------- MODULE DeviceServerProofs -------------------------
(***************************************************************************)
(* The properties of DeviceServer hold for any number of handler threads,  *)
(* devices, nonces, connections and readings.                              *)
(***************************************************************************)
EXTENDS DeviceServer, FiniteSetTheorems, TLAPS

Forwarding == {h \in Handlers : pc[h] = "forward"}

(* What every step may rely on of the types.                               *)
Types ==
    /\ pc \in [Handlers -> Pc]
    /\ device \in [Handlers -> Known \cup {Absent}]
    /\ hello \in [Handlers -> Hellos \cup {Absent}]
    /\ frame \in [Handlers -> Frames \cup {Absent}]
    /\ \A h \in Handlers :
          /\ pc[h] \in {"serve", "forward"} => device[h] \in Known
          /\ pc[h] = "forward" <=> frame[h] # Absent
    /\ last \in [Known -> 0 .. MaxSeq]
    /\ seen \subseteq Known
    /\ conns \in 0 .. MaxConnections
    /\ crashes \in Nat
    /\ metrics \in [Counters -> Nat]

(* The guard has seen every accepted reading.                              *)
GuardInv ==
    \A a \in accepted :
        /\ a.id \in Known
        /\ a.message.seq \in 0 .. MaxSeq
        /\ a.message.seq <= last[a.id]

(* Only finitely many threads are forwarding, and only finitely many       *)
(* devices have been seen.                                                 *)
CountInv ==
    /\ IsFiniteSet(Forwarding)
    /\ IsFiniteSet(seen)
    /\ NothingUnaccounted
    /\ DetectedCountsDevices

IInv ==
    /\ Types
    /\ ServedAsClaimed
    /\ GuardInv
    /\ AcceptedAsSealed
    /\ CountInv

-----------------------------------------------------------------------------
(* Counters and threads.                                                   *)

LEMMA BumpFacts ==
    ASSUME metrics \in [Counters -> Nat], NEW C, Bump(C)
    PROVE  /\ metrics' \in [Counters -> Nat]
           /\ \A c \in Counters :
                 metrics'[c] = IF c \in C THEN metrics[c] + 1 ELSE metrics[c]
BY DEF Bump

LEMMA GotoFacts ==
    ASSUME pc \in [Handlers -> Pc], NEW h \in Handlers, NEW from,
           NEW to \in Pc, Goto(h, from, to)
    PROVE  /\ pc' \in [Handlers -> Pc]
           /\ pc[h] \in from
           /\ pc'[h] = to
           /\ \A g \in Handlers \ {h} : pc'[g] = pc[g]
           /\ "forward" \notin from /\ to # "forward" =>
                 Forwarding' = Forwarding
           /\ "forward" \notin from /\ to = "forward" =>
                 h \notin Forwarding /\ Forwarding' = Forwarding \cup {h}
           /\ from = {"forward"} /\ to # "forward" =>
                 h \in Forwarding /\ Forwarding' = Forwarding \ {h}
<1>1. /\ pc' \in [Handlers -> Pc]
      /\ pc[h] \in from /\ pc'[h] = to
      /\ \A g \in Handlers \ {h} : pc'[g] = pc[g]
  BY DEF Goto
<1>2. QED
  BY <1>1 DEF Forwarding

(* A frame is not Absent: it has other fields.                             *)
LEMMA FramePresent == Absent \notin Frames
<1>1. \A m \in Frames : DOMAIN m = {"type", "id", "seq", "nonce", "text"}
  BY DEF Frames
<1>2. DOMAIN Absent = {"form"}
  BY DEF Absent
<1>3. QED
  BY <1>1, <1>2

-----------------------------------------------------------------------------
(* Types.                                                                  *)

(* The counters keep their type.                                           *)
LEMMA MetricsStep ==
    ASSUME Types, NEW h \in Handlers, Handler(h)
    PROVE  metrics' \in [Counters -> Nat] /\ crashes' \in Nat
<1> USE BumpFacts DEF Types
<1>1. CASE MalformedHello(h) \/ RejectHello(h) \/ AdmitHello(h)
  BY <1>1 DEF MalformedHello, RejectHello, AdmitHello
<1>2. CASE MalformedFrame(h) \/ RejectFrame(h) \/ AcceptFrame(h)
  BY <1>2 DEF MalformedFrame, RejectFrame, AcceptFrame
<1>3. CASE Forwarded(h) \/ SendRefused(h) \/ ReadFails(h)
  BY <1>3 DEF Forwarded, SendRefused, ReadFails
<1>4. CASE Connect(h) \/ SendCrashes(h) \/ Disconnect(h)
  BY <1>4 DEF Connect, SendCrashes, Disconnect
<1>5. QED
  BY <1>1, <1>2, <1>3, <1>4 DEF Handler

(* A step that ends a message or the connection, or begins one.            *)
Quiet(h) ==
    /\ UNCHANGED <<device, hello, frame, accepted, last, seen>>
    /\ \/ Goto(h, {"closed"}, "hello")
       \/ Goto(h, {"hello"}, "closed")
       \/ Goto(h, {"serve"}, "closed")
       \/ Goto(h, {"serve"}, "serve")

(* A step after send_reading.                                              *)
Sent(h) ==
    /\ UNCHANGED <<device, hello, accepted, last, seen>>
    /\ frame' = [frame EXCEPT ![h] = Absent]
    /\ \/ Goto(h, {"forward"}, "serve")
       \/ Goto(h, {"forward"}, "closed")

LEMMA HandlerKinds ==
    ASSUME NEW h \in Handlers, Handler(h)
    PROVE  Quiet(h) \/ AdmitHello(h) \/ AcceptFrame(h) \/ Sent(h)
<1>1. CASE Connect(h) \/ MalformedHello(h) \/ RejectHello(h)
  BY <1>1 DEF Connect, MalformedHello, RejectHello, Quiet
<1>2. CASE MalformedFrame(h) \/ RejectFrame(h)
  BY <1>2 DEF MalformedFrame, RejectFrame, Quiet
<1>3. CASE Disconnect(h) \/ ReadFails(h)
  BY <1>3 DEF Disconnect, ReadFails, Quiet, Goto
<1>4. CASE Forwarded(h) \/ SendRefused(h) \/ SendCrashes(h)
  BY <1>4 DEF Forwarded, SendRefused, SendCrashes, Sent
<1>5. QED
  BY <1>1, <1>2, <1>3, <1>4 DEF Handler

LEMMA TypeStep ==
    ASSUME Types, NEW h \in Handlers, Handler(h)
    PROVE  Types'
<1> USE ServerAssumption DEF Types, Pc
<1>1. metrics' \in [Counters -> Nat] /\ crashes' \in Nat
  BY MetricsStep
<1>2. conns' \in 0 .. MaxConnections
  BY DEF Handler, Connect, MalformedHello, RejectHello, AdmitHello,
     MalformedFrame, RejectFrame, AcceptFrame, Forwarded, SendRefused,
     SendCrashes, Disconnect, ReadFails
<1>3. CASE Quiet(h)
  BY <1>1, <1>2, <1>3 DEF Quiet, Goto
<1>4. CASE AdmitHello(h)
  <2>1. PICK m \in Hellos :
           /\ WellFormedHello(m) /\ Admitted(m)
           /\ device' = [device EXCEPT ![h] = m.id]
           /\ hello' = [hello EXCEPT ![h] = m]
           /\ seen' = seen \cup {m.id}
    BY <1>4 DEF AdmitHello, Welcome
  <2>2. m.id \in Known
    BY <2>1 DEF Admitted
  <2>3. UNCHANGED <<frame, last>> /\ Goto(h, {"hello"}, "serve")
    BY <1>4 DEF AdmitHello
  <2>4. QED
    BY <1>1, <1>2, <2>1, <2>2, <2>3 DEF Goto
<1>5. CASE AcceptFrame(h)
  <2>1. PICK m \in Frames :
           /\ last' = [last EXCEPT ![device[h]] = m.seq]
           /\ frame' = [frame EXCEPT ![h] = m]
    BY <1>5 DEF AcceptFrame
  <2>2. m.seq \in 0 .. MaxSeq /\ m # Absent
    BY <2>1, FramePresent DEF Frames, NotAnInt
  <2>3. UNCHANGED <<device, hello, seen>> /\ Goto(h, {"serve"}, "forward")
    BY <1>5 DEF AcceptFrame
  <2>4. QED
    BY <1>1, <1>2, <2>1, <2>2, <2>3 DEF Goto
<1>6. CASE Sent(h)
  BY <1>1, <1>2, <1>6 DEF Sent, Goto
<1>7. QED
  BY <1>3, <1>4, <1>5, <1>6, HandlerKinds

-----------------------------------------------------------------------------
(* The hello policy and the replay guard.                                  *)

(* Only a claim of the legacy path without the modern one leads to the     *)
(* legacy path.                                                            *)
LEMMA LegacyNotModern ==
    ASSUME NEW caps \in Claims, DeterminePath(caps) = "legacy"
    PROVE  Legacy \in caps /\ Modern \notin caps
BY DEF DeterminePath

LEMMA ServedStep ==
    ASSUME Types, ServedAsClaimed, NEW h \in Handlers, Handler(h)
    PROVE  ServedAsClaimed'
<1> USE DEF Types, ServedAsClaimed
<1>1. CASE Quiet(h)
  BY <1>1 DEF Quiet, Goto
<1>2. CASE AdmitHello(h)
  <2>1. PICK m \in Hellos :
           /\ WellFormedHello(m) /\ Admitted(m)
           /\ device' = [device EXCEPT ![h] = m.id]
           /\ hello' = [hello EXCEPT ![h] = m]
    BY <1>2 DEF AdmitHello, Welcome
  <2>2. m.caps \in Claims
    BY <2>1 DEF Hellos, WellFormedHello
  <2>3. /\ Legacy \in m.caps /\ Modern \notin m.caps
        /\ m.nonce \in Nonce
        /\ m.tag = HelloTag(m.id, m.nonce, m.id, m.caps)
    BY <2>1, <2>2, LegacyNotModern DEF Admitted, HelloVerifies
  <2>4. Goto(h, {"hello"}, "serve")
    BY <1>2 DEF AdmitHello
  <2>5. hello'[h].tag = HelloTag(device'[h], m.nonce, device'[h], m.caps)
    BY <2>1, <2>3
  <2>6. QED
    BY <2>1, <2>2, <2>3, <2>4, <2>5 DEF Goto
<1>3. CASE AcceptFrame(h)
  BY <1>3 DEF AcceptFrame, Goto
<1>4. CASE Sent(h)
  BY <1>4 DEF Sent, Goto
<1>5. QED
  BY <1>1, <1>2, <1>3, <1>4, HandlerKinds

(* The guard admits only numbers above every number it has admitted for    *)
(* the device, and the ciphertext only the number it was sealed with.      *)
LEMMA AcceptStep ==
    ASSUME Types, GuardInv, AcceptedAsSealed, NEW h \in Handlers, Handler(h)
    PROVE  GuardInv' /\ AcceptedAsSealed'
<1> USE DEF Types, GuardInv, AcceptedAsSealed
<1>1. CASE Quiet(h) \/ Sent(h)
  BY <1>1 DEF Quiet, Sent
<1>2. CASE AdmitHello(h)
  BY <1>2 DEF AdmitHello
<1>3. CASE AcceptFrame(h)
  <2>1. PICK m \in Frames :
           /\ IsReading(m, device[h])
           /\ Passes(m.seq, device[h])
           /\ last' = [last EXCEPT ![device[h]] = m.seq]
           /\ accepted' = accepted \cup {[id |-> device[h], message |-> m]}
    BY <1>3 DEF AcceptFrame
  <2>2. device[h] \in Known
    BY <1>3 DEF AcceptFrame, Goto
  <2>3. m.seq \in 0 .. MaxSeq /\ m.seq > last[device[h]]
    BY <2>1 DEF Frames, NotAnInt, Passes
  <2>4. /\ m.text.key = device[h]
        /\ m.text.aad = FrameAad(device[h], m.seq)
    BY <2>1 DEF IsReading, Opens, Ciphertext, Sealed
  <2>5. \A a \in accepted : a.id = device[h] => a.message.seq < m.seq
    BY <2>2, <2>3, ServerAssumption
  <2>6. GuardInv'
    BY <2>1, <2>2, <2>3, ServerAssumption
  <2>7. AcceptedAsSealed'
    BY <2>1, <2>3, <2>4, <2>5, ServerAssumption
  <2>8. QED
    BY <2>6, <2>7
<1>4. QED
  BY <1>1, <1>2, <1>3, HandlerKinds

-----------------------------------------------------------------------------
(* The counters.                                                           *)

(* What NothingUnaccounted says of six numbers.                            *)
Balanced(received, processed, forwarded, rejected, errors, forwarding) ==
    /\ processed <= received
    /\ received <= processed + rejected + errors
    /\ forwarded + forwarding <= processed
    /\ processed <= forwarded + forwarding + errors + crashes

LEMMA Balance ==
    NothingUnaccounted <=>
        Balanced(metrics["received"], metrics["processed"],
                 metrics["forwarded"], metrics["rejected"],
                 metrics["errors"], Cardinality(Forwarding))
BY DEF NothingUnaccounted, Balanced, Forwarding

(* The steps by which the number of forwarding threads changes by one.     *)
LEMMA AccountStep ==
    ASSUME Types, CountInv, NEW h \in Handlers, Handler(h)
    PROVE  IsFiniteSet(Forwarding') /\ NothingUnaccounted'
<1> USE DEF Types, Pc
<1> DEFINE n == Cardinality(Forwarding)
           Typed == /\ n \in Nat
                    /\ metrics["received"] \in Nat
                    /\ metrics["processed"] \in Nat
                    /\ metrics["forwarded"] \in Nat
                    /\ metrics["rejected"] \in Nat
                    /\ metrics["errors"] \in Nat
                    /\ crashes \in Nat
           Now == Balanced(metrics["received"], metrics["processed"],
                           metrics["forwarded"], metrics["rejected"],
                           metrics["errors"], n)
<1>1. IsFiniteSet(Forwarding) /\ Typed /\ Now
  BY FS_CardinalityType, Balance DEF CountInv, Counters
<1>2. SUFFICES IsFiniteSet(Forwarding') /\ Now'
  BY Balance DEF NothingUnaccounted, Balanced, Forwarding
<1>3. CASE Connect(h) \/ Disconnect(h)
  <2>1. Forwarding' = Forwarding
    BY <1>3, GotoFacts DEF Connect, Disconnect
  <2>2. UNCHANGED <<metrics, crashes>>
    BY <1>3 DEF Connect, Disconnect
  <2>3. QED
    BY <1>1, <2>1, <2>2 DEF Balanced
<1>4. CASE MalformedHello(h) \/ RejectHello(h) \/ AdmitHello(h) \/ ReadFails(h)
           \/ MalformedFrame(h) \/ RejectFrame(h)
  <2>1. Forwarding' = Forwarding
    BY <1>4, GotoFacts DEF MalformedHello, RejectHello, AdmitHello, ReadFails,
       MalformedFrame, RejectFrame
  <2>2. \E C : /\ Bump(C) /\ C \cap {"processed", "forwarded"} = {}
               /\ "received" \in C => "rejected" \in C \/ "errors" \in C
    BY <1>4 DEF MalformedHello, RejectHello, AdmitHello, DetectedBy, ReadFails,
       MalformedFrame, RejectFrame
  <2>3. UNCHANGED crashes
    BY <1>4 DEF MalformedHello, RejectHello, AdmitHello, ReadFails,
       MalformedFrame, RejectFrame
  <2>4. PICK C : /\ Bump(C) /\ C \cap {"processed", "forwarded"} = {}
                 /\ "received" \in C => "rejected" \in C \/ "errors" \in C
    BY <2>2
  <2>5. /\ metrics'["processed"] = metrics["processed"]
        /\ metrics'["forwarded"] = metrics["forwarded"]
        /\ metrics'["received"] =
              IF "received" \in C THEN metrics["received"] + 1
                                  ELSE metrics["received"]
        /\ metrics'["rejected"] =
              IF "rejected" \in C THEN metrics["rejected"] + 1
                                  ELSE metrics["rejected"]
        /\ metrics'["errors"] =
              IF "errors" \in C THEN metrics["errors"] + 1
                                ELSE metrics["errors"]
    BY <2>4, BumpFacts DEF Counters
  <2>6. QED
    BY <1>1, <2>1, <2>3, <2>4, <2>5 DEF Balanced
<1>5. CASE AcceptFrame(h)
  <2>1. h \notin Forwarding /\ Forwarding' = Forwarding \cup {h}
    BY <1>5, GotoFacts DEF AcceptFrame
  <2>2. IsFiniteSet(Forwarding') /\ Cardinality(Forwarding') = n + 1
    BY <1>1, <2>1, FS_AddElement
  <2>3. /\ metrics'["received"] = metrics["received"] + 1
        /\ metrics'["processed"] = metrics["processed"] + 1
        /\ metrics'["forwarded"] = metrics["forwarded"]
        /\ metrics'["rejected"] = metrics["rejected"]
        /\ metrics'["errors"] = metrics["errors"]
        /\ UNCHANGED crashes
    BY <1>5, BumpFacts DEF AcceptFrame, Counters
  <2>4. QED
    BY <1>1, <2>2, <2>3 DEF Balanced
<1>6. CASE Forwarded(h) \/ SendRefused(h) \/ SendCrashes(h)
  <2>1. h \in Forwarding /\ Forwarding' = Forwarding \ {h}
    BY <1>6, GotoFacts DEF Forwarded, SendRefused, SendCrashes
  <2>2. IsFiniteSet(Forwarding') /\ Cardinality(Forwarding') = n - 1
    BY <1>1, <2>1, FS_RemoveElement
  <2>3. /\ metrics'["received"] = metrics["received"]
        /\ metrics'["processed"] = metrics["processed"]
        /\ metrics'["rejected"] = metrics["rejected"]
        /\ \/ /\ metrics'["forwarded"] = metrics["forwarded"] + 1
              /\ metrics'["errors"] = metrics["errors"]
              /\ UNCHANGED crashes
           \/ /\ metrics'["forwarded"] = metrics["forwarded"]
              /\ metrics'["errors"] = metrics["errors"] + 1
              /\ UNCHANGED crashes
           \/ /\ metrics'["forwarded"] = metrics["forwarded"]
              /\ metrics'["errors"] = metrics["errors"]
              /\ crashes' = crashes + 1
    BY <1>6, BumpFacts DEF Forwarded, SendRefused, SendCrashes, Counters
  <2>4. QED
    BY <1>1, <2>2, <2>3 DEF Balanced
<1>7. QED
  BY <1>3, <1>4, <1>5, <1>6 DEF Handler

(* A device is counted in the step in which it is first seen.              *)
LEMMA DetectedStep ==
    ASSUME Types, CountInv, NEW h \in Handlers, Handler(h)
    PROVE  IsFiniteSet(seen') /\ DetectedCountsDevices'
<1> USE DEF Types, CountInv, DetectedCountsDevices
<1>1. CASE AdmitHello(h)
  <2>1. PICK m \in Hellos : seen' = seen \cup {m.id} /\ Bump(DetectedBy(m.id))
    BY <1>1 DEF AdmitHello, Welcome
  <2>2. /\ IsFiniteSet(seen')
        /\ Cardinality(seen') = IF m.id \in seen THEN Cardinality(seen)
                                                 ELSE Cardinality(seen) + 1
    BY <2>1, FS_AddElement
  <2>3. /\ metrics'["fallback"] = metrics["fallback"] + 1
        /\ metrics'["detected"] = IF m.id \in seen THEN metrics["detected"]
                                              ELSE metrics["detected"] + 1
    BY <2>1, BumpFacts DEF DetectedBy, Counters
  <2>4. metrics["fallback"] \in Nat /\ metrics["detected"] \in Nat
    BY DEF Counters
  <2>5. QED
    BY <2>2, <2>3, <2>4
<1>2. ASSUME ~AdmitHello(h)
      PROVE  /\ UNCHANGED seen
             /\ metrics'["fallback"] = metrics["fallback"]
             /\ metrics'["detected"] = metrics["detected"]
  BY <1>2, BumpFacts
  DEF Handler, Connect, MalformedHello, RejectHello, MalformedFrame,
      RejectFrame, AcceptFrame, Forwarded, SendRefused, SendCrashes,
      Disconnect, ReadFails, Counters
<1>3. QED
  BY <1>1, <1>2

-----------------------------------------------------------------------------
(* Nobody is connected at the start.                                       *)
LEMMA InitIInv == Init => IInv
<1> SUFFICES ASSUME Init PROVE IInv
  OBVIOUS
<1>1. Types /\ ServedAsClaimed /\ GuardInv /\ AcceptedAsSealed
  BY ServerAssumption DEF Init, Types, Pc, ServedAsClaimed, GuardInv,
     AcceptedAsSealed
<1>2. Forwarding = {} /\ seen = {}
  BY DEF Init, Forwarding
<1>3. IsFiniteSet({}) /\ Cardinality({}) = 0
  BY FS_EmptySet
<1>4. /\ metrics["received"] = 0 /\ metrics["processed"] = 0
      /\ metrics["forwarded"] = 0 /\ metrics["rejected"] = 0
      /\ metrics["errors"] = 0 /\ metrics["fallback"] = 0
      /\ metrics["detected"] = 0 /\ crashes = 0
  BY DEF Init, Counters
<1>5. CountInv
  BY <1>2, <1>3, <1>4, Balance DEF CountInv, Balanced, DetectedCountsDevices
<1>6. QED
  BY <1>1, <1>5 DEF IInv

LEMMA NextIInv == IInv /\ [Next]_vars => IInv'
<1> SUFFICES ASSUME IInv, [Next]_vars PROVE IInv'
  OBVIOUS
<1> USE DEF IInv
<1>1. ASSUME NEW h \in Handlers, Handler(h) PROVE IInv'
  <2>1. Types' /\ ServedAsClaimed' /\ GuardInv' /\ AcceptedAsSealed'
    BY <1>1, TypeStep, ServedStep, AcceptStep
  <2>2. CountInv'
    BY <1>1, AccountStep, DetectedStep DEF CountInv
  <2>3. QED
    BY <2>1, <2>2
<1>2. CASE UNCHANGED vars
  BY <1>2 DEF vars, thread, Types, ServedAsClaimed, GuardInv,
     AcceptedAsSealed, CountInv, NothingUnaccounted, DetectedCountsDevices,
     Forwarding
<1>3. QED
  BY <1>1, <1>2 DEF Next

(* Hence it holds in every state of every execution.                       *)
LEMMA Inductive == Spec => []IInv
  BY InitIInv, NextIInv, PTL DEF Spec

-----------------------------------------------------------------------------
(* Every variable keeps its type, and only registered devices are served.  *)
THEOREM TypeCorrect == Spec => []TypeOK
<1>1. IInv => TypeOK
  BY DEF IInv, Types, TypeOK
<1>2. QED
  BY <1>1, Inductive, PTL

(* Nobody is downgraded: a device is served on the legacy path only on its *)
(* own authenticated word, in which it does not claim the modern path,     *)
(* whatever else it names.                                                 *)
THEOREM NeverDowngraded == Spec => []ServedAsClaimed
<1>1. IInv => ServedAsClaimed
  BY DEF IInv
<1>2. QED
  BY <1>1, Inductive, PTL

(* Accepted readings are as their device sealed them, each number once.    *)
THEOREM AcceptedOnce == Spec => []AcceptedAsSealed
<1>1. IInv => AcceptedAsSealed
  BY DEF IInv
<1>2. QED
  BY <1>1, Inductive, PTL

(* The counters leave no message out.                                      *)
THEOREM Accounted == Spec => []NothingUnaccounted
<1>1. IInv => NothingUnaccounted
  BY DEF IInv, CountInv
<1>2. QED
  BY <1>1, Inductive, PTL

(* A device that reconnects is detected once.                              *)
THEOREM DetectedOnce == Spec => []DetectedCountsDevices
<1>1. IInv => DetectedCountsDevices
  BY DEF IInv, CountInv
<1>2. QED
  BY <1>1, Inductive, PTL
=============================================================================
