-------------------------- MODULE CloudServerProofs -------------------------
(***************************************************************************)
(* The registry of CloudServer and its replay protection are right for any *)
(* number of handler threads, devices, connections and readings.           *)
(***************************************************************************)
EXTENDS CloudServer, FiniteSetTheorems, TLAPS

(* TypeOK in three parts, for the steps that need only one.                *)
ThreadTypes ==
    /\ pc \in [Handlers -> Pc]
    /\ conn \in [Handlers -> Nat]
    /\ owned \in [Handlers -> Nat]
    /\ nextConn \in Nat \ {0}
    /\ registry \subseteq 1 .. nextConn - 1
    /\ leaked \subseteq registry

ReadingTypes ==
    /\ pc \in [Handlers -> Pc]
    /\ reading \in [Handlers -> Reading \cup {NoReading}]
    /\ last \in [Devices -> 0 .. MaxSeq]
    /\ stored \subseteq Reading

StoreTypes ==
    /\ store \in Seq(Reading) /\ Len(store) <= Capacity
    /\ peer \in [Handlers -> {"here", "left", "vanished"}]

(* Open connections have numbers of their own.                             *)
ConnInv ==
    /\ \A h \in Handlers : pc[h] # "closed" => conn[h] \in 1 .. nextConn - 1
    /\ \A g, h \in Handlers :
          pc[g] # "closed" /\ pc[h] # "closed" /\ conn[g] = conn[h] => g = h

(* _handle knows its session exactly from SendReply on.                    *)
OwnedInv ==
    /\ \A h \in Handlers :
          pc[h] \in {"serve", "store"} => owned[h] # NoSession
    /\ \A h \in Handlers : owned[h] # NoSession =>
          owned[h] = conn[h] /\ pc[h] \in {"serve", "store", "closing"}

(* A session is registered only by its handler, and leaked only by one     *)
(* that does not know it.                                                  *)
LeakInv ==
    /\ \A h \in Handlers :
          pc[h] \in {"request", "encaps", "register", "reply"} \/
          owned[h] # NoSession => conn[h] \notin leaked
    /\ \A h \in Handlers :
          pc[h] \in {"request", "encaps", "register"} =>
              conn[h] \notin registry

(* RegistryMatches, one session at a time.                                 *)
RegistryInv ==
    \A s \in Nat :
        s \in registry <=> \/ \E h \in Handlers : Registered(h) /\ conn[h] = s
                           \/ s \in leaked

(* A handler dies at most once on a connection, which is then over.        *)
DiedInv ==
    /\ died \subseteq 1 .. nextConn - 1
    /\ \A h \in Handlers :
          pc[h] \notin {"closed", "closing"} => conn[h] \notin died

(* The guard has seen every reading that was stored or is about to be.     *)
GuardInv ==
    /\ \A h \in Handlers : pc[h] = "store" =>
          /\ reading[h] \in Reading
          /\ reading[h].seq <= last[reading[h].dev]
    /\ \A r \in stored : r.seq <= last[r.dev]

IInv ==
    /\ TypeOK
    /\ ConnInv
    /\ OwnedInv
    /\ LeakInv
    /\ RegistryInv
    /\ DiedInv
    /\ GuardInv
    /\ StoresNewReading

-----------------------------------------------------------------------------
(* Adding one to a counter, or to two, leaves numbers.                     *)
LEMMA Counting ==
    ASSUME metrics \in [Counters -> Nat],
           NEW c \in Counters, NEW d \in Counters
    PROVE  /\ Count(c) => metrics' \in [Counters -> Nat]
           /\ CountBoth(c, d) /\ c # d => metrics' \in [Counters -> Nat]
<1>1. ASSUME Count(c) PROVE metrics' \in [Counters -> Nat]
  BY <1>1 DEF Count
<1>2. ASSUME CountBoth(c, d), c # d PROVE metrics' \in [Counters -> Nat]
  <2> DEFINE m == [metrics EXCEPT ![c] = @ + 1]
  <2>1. m \in [Counters -> Nat]
    OBVIOUS
  <2>2. metrics' = [m EXCEPT ![d] = @ + 1]
    BY <1>2 DEF CountBoth
  <2> HIDE DEF m
  <2>3. QED
    BY <2>1, <2>2
<1>3. QED
  BY <1>1, <1>2

(* The counters only ever count.                                           *)
LEMMA CounterStep ==
    ASSUME TypeOK, [Next]_vars
    PROVE  (metrics \in [Counters -> Nat])'
<1>1. metrics \in [Counters -> Nat]
  BY DEF TypeOK
<1>2. \/ UNCHANGED metrics
      \/ \E c \in Counters : Count(c)
      \/ \E c, d \in Counters : c # d /\ CountBoth(c, d)
  <2>1. Counters = {"received", "processed", "rejected", "errors",
                    "established"}
    BY DEF Counters
  <2>2. ASSUME NEW h \in Handlers,
               Accept(h) \/ AnswerRequest(h) \/ Register(h) \/ SendReply(h)
               \/ EndOfFile(h) \/ Close(h) \/ PeerGoes(h)
        PROVE  UNCHANGED metrics
    BY <2>2 DEF Accept, AnswerRequest, Register, SendReply, EndOfFile, Close,
       PeerGoes
  <2>3. ASSUME NEW h \in Handlers,
               RejectGateway(h) \/ Decapsulate(h) \/ ReplyFails(h) \/
               AcceptReading(h) \/ LookupDies(h) \/ StoreReading(h) \/
               ReadFails(h)
        PROVE  \E c \in Counters : Count(c)
    BY <2>1, <2>3 DEF RejectGateway, Decapsulate, ReplyFails, AcceptReading,
       LookupDies, StoreReading, ReadFails
  <2>4. ASSUME NEW h \in Handlers,
               RejectReplay(h) \/ RejectFrame(h) \/ MalformedFrame(h)
        PROVE  \E c, d \in Counters : c # d /\ CountBoth(c, d)
    BY <2>1, <2>4 DEF RejectReplay, RejectFrame, MalformedFrame
  <2>5. UNCHANGED vars => UNCHANGED metrics
    BY DEF vars
  <2>6. QED
    BY <2>2, <2>3, <2>4, <2>5 DEF Next, Handler
<1>3. QED
  BY <1>1, <1>2, Counting

(* The types of what belongs to the threads and the registry are           *)
(* preserved.                                                              *)
LEMMA ThreadTypeStep ==
    ASSUME ThreadTypes, ConnInv, OwnedInv, LeakInv, RegistryInv, [Next]_vars
    PROVE  ThreadTypes'
<1> USE CloudAssumption DEF threads, readings, Goto, ThreadTypes, NoSession,
   Pc, Reads
<1>1. ASSUME NEW h \in Handlers, Accept(h) PROVE ThreadTypes'
  BY <1>1 DEF Accept
<1>2. ASSUME NEW h \in Handlers,
             AnswerRequest(h) \/ RejectGateway(h) \/ Decapsulate(h)
      PROVE  ThreadTypes'
  BY <1>2 DEF AnswerRequest, RejectGateway, Decapsulate
<1>3. ASSUME NEW h \in Handlers, Register(h) PROVE ThreadTypes'
  BY <1>3 DEF Register, ConnInv
<1>4. ASSUME NEW h \in Handlers, SendReply(h) PROVE ThreadTypes'
  BY <1>4 DEF SendReply
<1>5. ASSUME NEW h \in Handlers, ReplyFails(h) PROVE ThreadTypes'
  BY <1>5 DEF ReplyFails, RegistryInv, Registered, ConnInv
<1>6. ASSUME NEW h \in Handlers, AcceptReading(h) PROVE ThreadTypes'
  BY <1>6 DEF AcceptReading
<1>7. ASSUME NEW h \in Handlers, StoreReading(h) PROVE ThreadTypes'
  BY <1>7 DEF StoreReading
<1>8. ASSUME NEW h \in Handlers,
             RejectReplay(h) \/ RejectFrame(h) \/ MalformedFrame(h) \/
             LookupDies(h)
      PROVE  ThreadTypes'
  BY <1>8 DEF RejectReplay, RejectFrame, MalformedFrame, LookupDies
<1>9. ASSUME NEW h \in Handlers,
             EndOfFile(h) \/ ReadFails(h)
      PROVE  ThreadTypes'
  BY <1>9 DEF EndOfFile, ReadFails
<1>10. ASSUME NEW h \in Handlers, Close(h) PROVE ThreadTypes'
  <2>1. owned[h] \notin leaked
    BY DEF LeakInv, OwnedInv
  <2>2. leaked' \subseteq registry'
    BY <1>10, <2>1 DEF Close
  <2>3. conn' \in [Handlers -> Nat] /\ owned' \in [Handlers -> Nat]
    BY <1>10 DEF Close
  <2>4. QED
    BY <1>10, <2>2, <2>3 DEF Close
<1>11. ASSUME NEW h \in Handlers, PeerGoes(h) PROVE ThreadTypes'
  BY <1>11 DEF PeerGoes
<1>12. CASE UNCHANGED vars
  BY <1>12 DEF vars
<1>13. QED
  BY <1>1, <1>2, <1>3, <1>4, <1>5, <1>6, <1>7, <1>8, <1>9, <1>10, <1>11,
     <1>12 DEF Next, Handler

(* The types of what belongs to the readings are preserved.                *)
LEMMA ReadingTypeStep ==
    ASSUME ReadingTypes, GuardInv, [Next]_vars
    PROVE  ReadingTypes'
<1> USE CloudAssumption DEF threads, readings, Goto, ReadingTypes, Reading,
   NoReading, Pc, Reads
<1>1. ASSUME NEW h \in Handlers, Accept(h) PROVE ReadingTypes'
  BY <1>1 DEF Accept
<1>2. ASSUME NEW h \in Handlers,
             AnswerRequest(h) \/ RejectGateway(h) \/ Decapsulate(h)
      PROVE  ReadingTypes'
  BY <1>2 DEF AnswerRequest, RejectGateway, Decapsulate
<1>3. ASSUME NEW h \in Handlers,
             Register(h) \/ SendReply(h) \/ ReplyFails(h)
      PROVE  ReadingTypes'
  BY <1>3 DEF Register, SendReply, ReplyFails
<1>4. ASSUME NEW h \in Handlers, AcceptReading(h) PROVE ReadingTypes'
  <2>1. PICK r \in Reading : /\ IsNewer(r)
                             /\ Update(r)
                             /\ reading' = [reading EXCEPT ![h] = r]
    BY <1>4 DEF AcceptReading
  <2>2. QED
    BY <1>4, <2>1 DEF AcceptReading, IsNewer, Update
<1>5. ASSUME NEW h \in Handlers, StoreReading(h) PROVE ReadingTypes'
  BY <1>5 DEF StoreReading, GuardInv
<1>6. ASSUME NEW h \in Handlers,
             RejectReplay(h) \/ RejectFrame(h) \/ MalformedFrame(h) \/
             LookupDies(h)
      PROVE  ReadingTypes'
  BY <1>6 DEF RejectReplay, RejectFrame, MalformedFrame, LookupDies
<1>7. ASSUME NEW h \in Handlers,
             EndOfFile(h) \/ ReadFails(h)
      PROVE  ReadingTypes'
  BY <1>7 DEF EndOfFile, ReadFails
<1>8. ASSUME NEW h \in Handlers, Close(h) \/ PeerGoes(h) PROVE ReadingTypes'
  BY <1>8 DEF Close, PeerGoes
<1>9. CASE UNCHANGED vars
  BY <1>9 DEF vars
<1>10. QED
  BY <1>1, <1>2, <1>3, <1>4, <1>5, <1>6, <1>7, <1>8, <1>9 DEF Next, Handler

(* The deque never outgrows its capacity.                                  *)
LEMMA StoreTypeStep ==
    ASSUME StoreTypes, GuardInv, [Next]_vars
    PROVE  StoreTypes'
<1> USE CloudAssumption DEF StoreTypes, threads, readings, Goto
<1>1. ASSUME NEW h \in Handlers, StoreReading(h) PROVE StoreTypes'
  <2>1. reading[h] \in Reading
    BY <1>1 DEF StoreReading, GuardInv
  <2>2. Append(store, reading[h]) \in Seq(Reading)
        /\ Len(Append(store, reading[h])) = Len(store) + 1
    BY <2>1
  <2>3. CASE Len(store) < Capacity
    BY <1>1, <2>2, <2>3 DEF StoreReading, Push
  <2>4. CASE ~(Len(store) < Capacity)
    <3>1. store # <<>>
      BY <2>4
    <3>2. Tail(store) \in Seq(Reading) /\ Len(Tail(store)) = Len(store) - 1
      BY <3>1
    <3>3. Append(Tail(store), reading[h]) \in Seq(Reading)
          /\ Len(Append(Tail(store), reading[h])) = Len(store)
      BY <2>1, <3>2
    <3>4. QED
      BY <1>1, <2>4, <3>3 DEF StoreReading, Push
  <2>5. QED
    BY <2>3, <2>4
<1>2. ASSUME NEW h \in Handlers, Accept(h) \/ PeerGoes(h) PROVE StoreTypes'
  BY <1>2 DEF Accept, PeerGoes
<1>3. ASSUME NEW h \in Handlers,
             AnswerRequest(h) \/ RejectGateway(h) \/ Decapsulate(h) \/
             Register(h) \/ SendReply(h) \/ ReplyFails(h) \/
             AcceptReading(h) \/ RejectReplay(h) \/ RejectFrame(h) \/
             MalformedFrame(h) \/ LookupDies(h) \/ EndOfFile(h) \/
             ReadFails(h) \/ Close(h)
      PROVE  StoreTypes'
  BY <1>3 DEF AnswerRequest, RejectGateway, Decapsulate, Register, SendReply,
     ReplyFails, AcceptReading, RejectReplay, RejectFrame, MalformedFrame,
     LookupDies, EndOfFile, ReadFails, Close
<1>4. CASE UNCHANGED vars
  BY <1>4 DEF vars
<1>5. QED
  BY <1>1, <1>2, <1>3, <1>4 DEF Next, Handler

(* Each connection gets a new number.                                      *)
LEMMA ConnStep ==
    ASSUME ThreadTypes, ConnInv, [Next]_vars
    PROVE  ConnInv'
<1> USE CloudAssumption DEF threads, readings, Goto, ThreadTypes, NoSession,
   Pc, Reads, ConnInv
<1>1. ASSUME NEW h \in Handlers, Accept(h) PROVE ConnInv'
  BY <1>1 DEF Accept
<1>2. ASSUME NEW h \in Handlers,
             AnswerRequest(h) \/ RejectGateway(h) \/ Decapsulate(h)
      PROVE  ConnInv'
  BY <1>2 DEF AnswerRequest, RejectGateway, Decapsulate
<1>3. ASSUME NEW h \in Handlers, Register(h) PROVE ConnInv'
  BY <1>3 DEF Register
<1>4. ASSUME NEW h \in Handlers, SendReply(h) PROVE ConnInv'
  BY <1>4 DEF SendReply
<1>5. ASSUME NEW h \in Handlers, ReplyFails(h) PROVE ConnInv'
  BY <1>5 DEF ReplyFails
<1>6. ASSUME NEW h \in Handlers, AcceptReading(h) PROVE ConnInv'
  BY <1>6 DEF AcceptReading
<1>7. ASSUME NEW h \in Handlers, StoreReading(h) PROVE ConnInv'
  BY <1>7 DEF StoreReading
<1>8. ASSUME NEW h \in Handlers,
             RejectReplay(h) \/ RejectFrame(h) \/ MalformedFrame(h) \/
             LookupDies(h)
      PROVE  ConnInv'
  BY <1>8 DEF RejectReplay, RejectFrame, MalformedFrame, LookupDies
<1>9. ASSUME NEW h \in Handlers, EndOfFile(h) \/ ReadFails(h) PROVE ConnInv'
  BY <1>9 DEF EndOfFile, ReadFails
<1>10. ASSUME NEW h \in Handlers, Close(h) PROVE ConnInv'
  BY <1>10 DEF Close
<1>11. ASSUME NEW h \in Handlers, PeerGoes(h) PROVE ConnInv'
  BY <1>11 DEF PeerGoes
<1>12. CASE UNCHANGED vars
  BY <1>12 DEF vars
<1>13. QED
  BY <1>1, <1>2, <1>3, <1>4, <1>5, <1>6, <1>7, <1>8, <1>9, <1>10, <1>11,
     <1>12 DEF Next, Handler

(* SendReply tells _handle the session, Close takes it back.               *)
LEMMA OwnedStep ==
    ASSUME ThreadTypes, ConnInv, OwnedInv, [Next]_vars
    PROVE  OwnedInv'
<1> USE CloudAssumption DEF threads, readings, Goto, ThreadTypes, NoSession,
   Pc, Reads, ConnInv, OwnedInv
<1>1. ASSUME NEW h \in Handlers, Accept(h) PROVE OwnedInv'
  BY <1>1 DEF Accept
<1>2. ASSUME NEW h \in Handlers,
             AnswerRequest(h) \/ RejectGateway(h) \/ Decapsulate(h)
      PROVE  OwnedInv'
  BY <1>2 DEF AnswerRequest, RejectGateway, Decapsulate
<1>3. ASSUME NEW h \in Handlers, Register(h) PROVE OwnedInv'
  BY <1>3 DEF Register
<1>4. ASSUME NEW h \in Handlers, SendReply(h) PROVE OwnedInv'
  BY <1>4 DEF SendReply
<1>5. ASSUME NEW h \in Handlers, ReplyFails(h) PROVE OwnedInv'
  BY <1>5 DEF ReplyFails
<1>6. ASSUME NEW h \in Handlers, AcceptReading(h) PROVE OwnedInv'
  BY <1>6 DEF AcceptReading
<1>7. ASSUME NEW h \in Handlers, StoreReading(h) PROVE OwnedInv'
  BY <1>7 DEF StoreReading
<1>8. ASSUME NEW h \in Handlers,
             RejectReplay(h) \/ RejectFrame(h) \/ MalformedFrame(h) \/
             LookupDies(h)
      PROVE  OwnedInv'
  BY <1>8 DEF RejectReplay, RejectFrame, MalformedFrame, LookupDies
<1>9. ASSUME NEW h \in Handlers, EndOfFile(h) \/ ReadFails(h) PROVE OwnedInv'
  BY <1>9 DEF EndOfFile, ReadFails
<1>10. ASSUME NEW h \in Handlers, Close(h) PROVE OwnedInv'
  BY <1>10 DEF Close
<1>11. ASSUME NEW h \in Handlers, PeerGoes(h) PROVE OwnedInv'
  BY <1>11 DEF PeerGoes
<1>12. CASE UNCHANGED vars
  BY <1>12 DEF vars
<1>13. QED
  BY <1>1, <1>2, <1>3, <1>4, <1>5, <1>6, <1>7, <1>8, <1>9, <1>10, <1>11,
     <1>12 DEF Next, Handler

(* A new connection has a new session, and only ReplyFails leaks one.      *)
LEMMA LeakStep ==
    ASSUME ThreadTypes, ConnInv, OwnedInv, LeakInv, [Next]_vars
    PROVE  LeakInv'
<1> USE CloudAssumption DEF threads, readings, Goto, ThreadTypes, NoSession,
   Pc, Reads, ConnInv, OwnedInv, LeakInv
<1>1. ASSUME NEW h \in Handlers, Accept(h) PROVE LeakInv'
  <2>1. nextConn \notin registry /\ nextConn \notin leaked
    OBVIOUS
  <2>2. QED
    BY <1>1, <2>1 DEF Accept
<1>2. ASSUME NEW h \in Handlers,
             AnswerRequest(h) \/ RejectGateway(h) \/ Decapsulate(h)
      PROVE  LeakInv'
  BY <1>2 DEF AnswerRequest, RejectGateway, Decapsulate
<1>3. ASSUME NEW h \in Handlers, Register(h) PROVE LeakInv'
  BY <1>3 DEF Register
<1>4. ASSUME NEW h \in Handlers, SendReply(h) PROVE LeakInv'
  BY <1>4 DEF SendReply
<1>5. ASSUME NEW h \in Handlers, ReplyFails(h) PROVE LeakInv'
  BY <1>5 DEF ReplyFails
<1>6. ASSUME NEW h \in Handlers, AcceptReading(h) PROVE LeakInv'
  BY <1>6 DEF AcceptReading
<1>7. ASSUME NEW h \in Handlers, StoreReading(h) PROVE LeakInv'
  BY <1>7 DEF StoreReading
<1>8. ASSUME NEW h \in Handlers,
             RejectReplay(h) \/ RejectFrame(h) \/ MalformedFrame(h) \/
             LookupDies(h)
      PROVE  LeakInv'
  BY <1>8 DEF RejectReplay, RejectFrame, MalformedFrame, LookupDies
<1>9. ASSUME NEW h \in Handlers, EndOfFile(h) \/ ReadFails(h) PROVE LeakInv'
  BY <1>9 DEF EndOfFile, ReadFails
<1>10. ASSUME NEW h \in Handlers, Close(h) PROVE LeakInv'
  BY <1>10 DEF Close
<1>11. ASSUME NEW h \in Handlers, PeerGoes(h) PROVE LeakInv'
  BY <1>11 DEF PeerGoes
<1>12. CASE UNCHANGED vars
  BY <1>12 DEF vars
<1>13. QED
  BY <1>1, <1>2, <1>3, <1>4, <1>5, <1>6, <1>7, <1>8, <1>9, <1>10, <1>11,
     <1>12 DEF Next, Handler

(* Register and Close change the registry together with what is to be in   *)
(* it.                                                                     *)
LEMMA RegistryStep ==
    ASSUME ThreadTypes, ConnInv, OwnedInv, LeakInv, RegistryInv, [Next]_vars
    PROVE  RegistryInv'
<1> USE CloudAssumption DEF threads, readings, Goto, ThreadTypes, NoSession,
   Pc, Reads, ConnInv, OwnedInv, LeakInv, RegistryInv, Registered
<1>1. ASSUME NEW h \in Handlers, Accept(h) PROVE RegistryInv'
  BY <1>1 DEF Accept
<1>2. ASSUME NEW h \in Handlers,
             AnswerRequest(h) \/ RejectGateway(h) \/ Decapsulate(h)
      PROVE  RegistryInv'
  BY <1>2 DEF AnswerRequest, RejectGateway, Decapsulate
<1>3. ASSUME NEW h \in Handlers, Register(h) PROVE RegistryInv'
  BY <1>3 DEF Register
<1>4. ASSUME NEW h \in Handlers, SendReply(h) PROVE RegistryInv'
  BY <1>4 DEF SendReply
<1>5. ASSUME NEW h \in Handlers, ReplyFails(h) PROVE RegistryInv'
  BY <1>5 DEF ReplyFails
<1>6. ASSUME NEW h \in Handlers, AcceptReading(h) PROVE RegistryInv'
  BY <1>6 DEF AcceptReading
<1>7. ASSUME NEW h \in Handlers, StoreReading(h) PROVE RegistryInv'
  BY <1>7 DEF StoreReading
<1>8. ASSUME NEW h \in Handlers,
             RejectReplay(h) \/ RejectFrame(h) \/ MalformedFrame(h) \/
             LookupDies(h)
      PROVE  RegistryInv'
  BY <1>8 DEF RejectReplay, RejectFrame, MalformedFrame, LookupDies
<1>9. ASSUME NEW h \in Handlers,
             EndOfFile(h) \/ ReadFails(h)
      PROVE  RegistryInv'
  BY <1>9 DEF EndOfFile, ReadFails
<1>10. ASSUME NEW h \in Handlers, Close(h) PROVE RegistryInv'
  BY <1>10 DEF Close
<1>11. ASSUME NEW h \in Handlers, PeerGoes(h) PROVE RegistryInv'
  BY <1>11 DEF PeerGoes
<1>12. CASE UNCHANGED vars
  BY <1>12 DEF vars
<1>13. QED
  BY <1>1, <1>2, <1>3, <1>4, <1>5, <1>6, <1>7, <1>8, <1>9, <1>10, <1>11,
     <1>12 DEF Next, Handler

(* Only LookupDies adds to the handlers that died, and it ends one.        *)
LEMMA DiedStep ==
    ASSUME ThreadTypes, ConnInv, DiedInv, [Next]_vars
    PROVE  DiedInv'
<1> USE CloudAssumption DEF threads, readings, Goto, ThreadTypes, Pc, Reads,
   ConnInv, DiedInv
<1>1. ASSUME NEW h \in Handlers, Accept(h) PROVE DiedInv'
  <2>1. nextConn \notin died
    OBVIOUS
  <2>2. QED
    BY <1>1, <2>1 DEF Accept
<1>2. ASSUME NEW h \in Handlers,
             AnswerRequest(h) \/ RejectGateway(h) \/ Decapsulate(h)
      PROVE  DiedInv'
  BY <1>2 DEF AnswerRequest, RejectGateway, Decapsulate
<1>3. ASSUME NEW h \in Handlers,
             Register(h) \/ SendReply(h) \/ ReplyFails(h)
      PROVE  DiedInv'
  BY <1>3 DEF Register, SendReply, ReplyFails
<1>4. ASSUME NEW h \in Handlers, AcceptReading(h) \/ StoreReading(h)
      PROVE  DiedInv'
  BY <1>4 DEF AcceptReading, StoreReading
<1>5. ASSUME NEW h \in Handlers,
             RejectReplay(h) \/ RejectFrame(h) \/ MalformedFrame(h)
      PROVE  DiedInv'
  BY <1>5 DEF RejectReplay, RejectFrame, MalformedFrame
<1>6. ASSUME NEW h \in Handlers, LookupDies(h) PROVE DiedInv'
  <2>1. /\ pc[h] = "serve" /\ pc' = [pc EXCEPT ![h] = "closing"]
        /\ died' = died \cup {conn[h]}
        /\ UNCHANGED <<conn, nextConn>>
    BY <1>6 DEF LookupDies
  <2>2. \A g \in Handlers :
           pc[g] # "closed" /\ g # h => conn[g] # conn[h]
    BY <2>1
  <2>3. QED
    BY <2>1, <2>2
<1>7. ASSUME NEW h \in Handlers,
             EndOfFile(h) \/ ReadFails(h) \/ Close(h) \/ PeerGoes(h)
      PROVE  DiedInv'
  BY <1>7 DEF EndOfFile, ReadFails, Close, PeerGoes
<1>8. CASE UNCHANGED vars
  BY <1>8 DEF vars
<1>9. QED
  BY <1>1, <1>2, <1>3, <1>4, <1>5, <1>6, <1>7, <1>8 DEF Next, Handler

(* The guard only moves up, and it moves before a reading is stored.       *)
LEMMA GuardStep ==
    ASSUME ReadingTypes, GuardInv, [Next]_vars
    PROVE  GuardInv'
<1> USE CloudAssumption DEF threads, readings, Goto, ReadingTypes, Reading,
   NoReading, Pc, Reads, GuardInv
<1>1. ASSUME NEW h \in Handlers, AcceptReading(h) PROVE GuardInv'
  <2>1. PICK r \in Reading : /\ IsNewer(r)
                             /\ Update(r)
                             /\ reading' = [reading EXCEPT ![h] = r]
    BY <1>1 DEF AcceptReading
  <2>2. QED
    BY <1>1, <2>1 DEF AcceptReading, IsNewer, Update
<1>2. ASSUME NEW h \in Handlers, StoreReading(h) PROVE GuardInv'
  BY <1>2 DEF StoreReading
<1>3. ASSUME NEW h \in Handlers,
             Accept(h) \/ AnswerRequest(h) \/ RejectGateway(h) \/
             Decapsulate(h) \/ Register(h) \/ SendReply(h) \/ ReplyFails(h)
             \/ RejectReplay(h) \/ RejectFrame(h) \/ MalformedFrame(h) \/
             LookupDies(h) \/ EndOfFile(h) \/ ReadFails(h) \/ Close(h) \/
             PeerGoes(h)
      PROVE  GuardInv'
  BY <1>3 DEF Accept, AnswerRequest, RejectGateway, Decapsulate, Register,
     SendReply, ReplyFails, RejectReplay, RejectFrame, MalformedFrame,
     LookupDies, EndOfFile, ReadFails, Close, PeerGoes
<1>4. CASE UNCHANGED vars
  BY <1>4 DEF vars
<1>5. QED
  BY <1>1, <1>2, <1>3, <1>4 DEF Next, Handler

(* A reading that passes the guard is newer than every reading of its      *)
(* device that passed it before.                                           *)
LEMMA FreshStep ==
    ASSUME ReadingTypes, GuardInv, StoresNewReading, [Next]_vars
    PROVE  StoresNewReading'
<1> USE CloudAssumption DEF threads, readings, Goto, ReadingTypes, Reading,
   NoReading, Pc, Reads, GuardInv, StoresNewReading
<1>1. ASSUME NEW h \in Handlers, AcceptReading(h) PROVE StoresNewReading'
  <2>1. PICK r \in Reading : /\ IsNewer(r)
                             /\ Update(r)
                             /\ reading' = [reading EXCEPT ![h] = r]
    BY <1>1 DEF AcceptReading
  <2>2. QED
    BY <1>1, <2>1 DEF AcceptReading, IsNewer, Update
<1>2. ASSUME NEW h \in Handlers, StoreReading(h) PROVE StoresNewReading'
  BY <1>2 DEF StoreReading
<1>3. ASSUME NEW h \in Handlers,
             Accept(h) \/ AnswerRequest(h) \/ RejectGateway(h) \/
             Decapsulate(h) \/ Register(h) \/ SendReply(h) \/ ReplyFails(h)
             \/ RejectReplay(h) \/ RejectFrame(h) \/ MalformedFrame(h) \/
             LookupDies(h) \/ EndOfFile(h) \/ ReadFails(h) \/ Close(h) \/
             PeerGoes(h)
      PROVE  StoresNewReading'
  BY <1>3 DEF Accept, AnswerRequest, RejectGateway, Decapsulate, Register,
     SendReply, ReplyFails, RejectReplay, RejectFrame, MalformedFrame,
     LookupDies, EndOfFile, ReadFails, Close, PeerGoes
<1>4. CASE UNCHANGED vars
  BY <1>4 DEF vars
<1>5. QED
  BY <1>1, <1>2, <1>3, <1>4 DEF Next, Handler

(* IInv holds when the cloud starts.                                       *)
LEMMA InitIInv == Init => IInv
<1> SUFFICES ASSUME Init PROVE IInv
  OBVIOUS
<1> USE CloudAssumption DEF Init, TypeOK, Reading, NoReading, Counters, Pc,
       NoSession
<1>1. TypeOK
  OBVIOUS
<1>2. ConnInv /\ OwnedInv /\ LeakInv /\ DiedInv /\ GuardInv /\
      StoresNewReading
  BY DEF ConnInv, OwnedInv, LeakInv, DiedInv, GuardInv, StoresNewReading
<1>3. RegistryInv
  BY DEF RegistryInv, Registered
<1>4. QED
  BY <1>1, <1>2, <1>3 DEF IInv

(* The invariant is inductive: the lemmas above, one per part.             *)
LEMMA NextIInv == IInv /\ [Next]_vars => IInv'
<1> SUFFICES ASSUME IInv, [Next]_vars PROVE IInv'
  OBVIOUS
<1>1. ThreadTypes /\ ReadingTypes /\ StoreTypes
  BY DEF IInv, TypeOK, ThreadTypes, ReadingTypes, StoreTypes
<1>2. ThreadTypes' /\ ReadingTypes' /\ StoreTypes'
  BY <1>1, ThreadTypeStep, ReadingTypeStep, StoreTypeStep DEF IInv
<1>3. DiedInv'
  BY <1>1, DiedStep DEF IInv
<1>4. TypeOK'
  BY <1>2, <1>3, CounterStep DEF IInv, TypeOK, ThreadTypes, ReadingTypes,
     StoreTypes, DiedInv
<1>5. QED
  BY <1>1, <1>3, <1>4, ConnStep, OwnedStep, LeakStep, RegistryStep,
     GuardStep, FreshStep DEF IInv

(* Hence it holds in every state of every execution.                       *)
LEMMA Inductive == Spec => []IInv
  BY InitIInv, NextIInv, PTL DEF Spec

-----------------------------------------------------------------------------
(* The state of the cloud keeps its type in every execution, and the store *)
(* its bound.                                                              *)
THEOREM TypeCorrect == Spec => []TypeOK
<1>1. IInv => TypeOK
  BY DEF IInv
<1>2. QED
  BY <1>1, Inductive, PTL

(* The registry holds exactly the live sessions and the leaked ones.       *)
THEOREM RegistryCorrect == Spec => []RegistryMatches
<1>1. IInv => RegistryMatches
  <2> SUFFICES ASSUME IInv PROVE RegistryMatches
    OBVIOUS
  <2> USE DEF IInv, TypeOK
  <2>1. ASSUME NEW s PROVE s \in registry <=>
             s \in {conn[h] : h \in {g \in Handlers : Registered(g)}}
                      \cup leaked
    <3>1. s \in registry => s \in Nat
      OBVIOUS
    <3>2. \A h \in Handlers : conn[h] \in Nat
      OBVIOUS
    <3>3. s \in leaked => s \in registry
      OBVIOUS
    <3>4. QED
      BY <3>1, <3>2, <3>3 DEF RegistryInv
  <2>2. QED
    BY <2>1 DEF RegistryMatches
<1>2. QED
  BY <1>1, Inductive, PTL

(* No reading is stored twice, whichever connections it arrives on.        *)
THEOREM StoredAtMostOnce == Spec => []StoresNewReading
<1>1. IInv => StoresNewReading
  BY DEF IInv
<1>2. QED
  BY <1>1, Inductive, PTL

-----------------------------------------------------------------------------
(* The counters, beside IInv of which they need little.                   *)

Storing == {h \in Handlers : pc[h] = "store"}

(* Only finitely many threads hold a reading they have yet to store.       *)
CountInv == IsFiniteSet(Storing) /\ NothingUnaccounted

LEMMA StoringFacts ==
    ASSUME pc \in [Handlers -> Pc], NEW h \in Handlers, NEW from,
           NEW to \in Pc, Goto(h, from, to)
    PROVE  /\ "store" \notin from /\ to # "store" => Storing' = Storing
           /\ "store" \notin from /\ to = "store" =>
                 h \notin Storing /\ Storing' = Storing \cup {h}
           /\ from = {"store"} /\ to # "store" =>
                 h \in Storing /\ Storing' = Storing \ {h}
BY DEF Goto, Storing

(* What NothingUnaccounted says of six numbers.                            *)
Balanced(received, processed, rejected, errors, storing, lost) ==
    /\ processed + storing <= received
    /\ received <= processed + storing + rejected + errors + lost

LEMMA Balance ==
    NothingUnaccounted <=>
        Balanced(metrics["received"], metrics["processed"],
                 metrics["rejected"], metrics["errors"],
                 Cardinality(Storing), Cardinality(died))
BY DEF NothingUnaccounted, Balanced, Storing

LEMMA CountStep ==
    ASSUME TypeOK, DiedInv, CountInv, [Next]_vars
    PROVE  CountInv'
<1> USE DEF Counters, Count, CountBoth
<1> DEFINE n == Cardinality(Storing)
           d == Cardinality(died)
           Now == Balanced(metrics["received"], metrics["processed"],
                           metrics["rejected"], metrics["errors"], n, d)
           Typed == /\ n \in Nat
                    /\ d \in Nat
                    /\ metrics["received"] \in Nat
                    /\ metrics["processed"] \in Nat
                    /\ metrics["rejected"] \in Nat
                    /\ metrics["errors"] \in Nat
<1>0. IsFiniteSet(died)
  <2>1. nextConn - 1 \in Int /\ died \subseteq 1 .. nextConn - 1
    BY DEF TypeOK
  <2>2. IsFiniteSet(1 .. nextConn - 1)
    BY <2>1, FS_Interval
  <2>3. QED
    BY <2>1, <2>2, FS_Subset
<1>1. /\ IsFiniteSet(Storing) /\ Typed /\ Now
      /\ pc \in [Handlers -> Pc] /\ metrics \in [Counters -> Nat]
  BY <1>0, FS_CardinalityType, Balance DEF CountInv, TypeOK
<1>2. SUFFICES IsFiniteSet(Storing') /\ Now'
  BY DEF CountInv, NothingUnaccounted, Balanced, Storing
<1>3. ASSUME NEW h \in Handlers,
             Accept(h) \/ AnswerRequest(h) \/ Register(h) \/ SendReply(h) \/
             EndOfFile(h) \/ Close(h) \/ PeerGoes(h)
      PROVE  IsFiniteSet(Storing') /\ Now'
  <2>1. Storing' = Storing
    BY <1>1, <1>3, StoringFacts DEF Pc, Accept, AnswerRequest, Register,
       SendReply, EndOfFile, Close, PeerGoes, Reads, Storing
  <2>2. UNCHANGED <<metrics, died>>
    BY <1>3 DEF Accept, AnswerRequest, Register, SendReply, EndOfFile, Close,
       PeerGoes
  <2>3. QED
    BY <1>1, <2>1, <2>2 DEF Balanced
<1>4. ASSUME NEW h \in Handlers,
             RejectGateway(h) \/ Decapsulate(h) \/ ReplyFails(h) \/
             RejectReplay(h) \/ RejectFrame(h) \/ MalformedFrame(h) \/
             ReadFails(h)
      PROVE  IsFiniteSet(Storing') /\ Now'
  <2>1. Storing' = Storing
    BY <1>1, <1>4, StoringFacts DEF Pc, RejectGateway, Decapsulate,
       ReplyFails, RejectReplay, RejectFrame, MalformedFrame, ReadFails, Reads
  <2>2. /\ metrics'["processed"] = metrics["processed"]
        /\ UNCHANGED died
        /\ \/ /\ metrics'["received"] = metrics["received"]
              /\ metrics'["rejected"] \in
                    {metrics["rejected"], metrics["rejected"] + 1}
              /\ metrics'["errors"] \in
                    {metrics["errors"], metrics["errors"] + 1}
           \/ /\ metrics'["received"] = metrics["received"] + 1
              /\ \/ /\ metrics'["rejected"] = metrics["rejected"] + 1
                    /\ metrics'["errors"] = metrics["errors"]
                 \/ /\ metrics'["rejected"] = metrics["rejected"]
                    /\ metrics'["errors"] = metrics["errors"] + 1
    BY <1>1, <1>4 DEF RejectGateway, Decapsulate, ReplyFails, RejectReplay,
       RejectFrame, MalformedFrame, ReadFails
  <2>3. QED
    BY <1>1, <2>1, <2>2 DEF Balanced
<1>5. ASSUME NEW h \in Handlers, AcceptReading(h)
      PROVE  IsFiniteSet(Storing') /\ Now'
  <2>1. h \notin Storing /\ Storing' = Storing \cup {h}
    BY <1>1, <1>5, StoringFacts DEF Pc, AcceptReading
  <2>2. IsFiniteSet(Storing') /\ Cardinality(Storing') = n + 1
    BY <1>1, <2>1, FS_AddElement
  <2>3. /\ metrics'["received"] = metrics["received"] + 1
        /\ metrics'["processed"] = metrics["processed"]
        /\ metrics'["rejected"] = metrics["rejected"]
        /\ metrics'["errors"] = metrics["errors"]
        /\ UNCHANGED died
    BY <1>1, <1>5 DEF AcceptReading
  <2>4. QED
    BY <1>1, <2>2, <2>3 DEF Balanced
<1>6. ASSUME NEW h \in Handlers, StoreReading(h)
      PROVE  IsFiniteSet(Storing') /\ Now'
  <2>1. h \in Storing /\ Storing' = Storing \ {h}
    BY <1>1, <1>6, StoringFacts DEF Pc, StoreReading
  <2>2. IsFiniteSet(Storing') /\ Cardinality(Storing') = n - 1
    BY <1>1, <2>1, FS_RemoveElement
  <2>3. /\ metrics'["received"] = metrics["received"]
        /\ metrics'["processed"] = metrics["processed"] + 1
        /\ metrics'["rejected"] = metrics["rejected"]
        /\ metrics'["errors"] = metrics["errors"]
        /\ UNCHANGED died
    BY <1>1, <1>6 DEF StoreReading
  <2>4. QED
    BY <1>1, <2>2, <2>3 DEF Balanced
<1>7. ASSUME NEW h \in Handlers, LookupDies(h)
      PROVE  IsFiniteSet(Storing') /\ Now'
  <2>1. Storing' = Storing
    BY <1>1, <1>7, StoringFacts DEF Pc, LookupDies
  <2>2. conn[h] \notin died /\ died' = died \cup {conn[h]}
    BY <1>7 DEF LookupDies, Goto, DiedInv
  <2>3. Cardinality(died') = d + 1
    BY <1>0, <2>2, FS_AddElement
  <2>4. /\ metrics'["received"] = metrics["received"] + 1
        /\ metrics'["processed"] = metrics["processed"]
        /\ metrics'["rejected"] = metrics["rejected"]
        /\ metrics'["errors"] = metrics["errors"]
    BY <1>1, <1>7 DEF LookupDies
  <2>5. QED
    BY <1>1, <2>1, <2>3, <2>4 DEF Balanced
<1>8. CASE UNCHANGED vars
  BY <1>1, <1>8 DEF vars, threads, Storing, Balanced
<1>9. QED
  BY <1>3, <1>4, <1>5, <1>6, <1>7, <1>8 DEF Next, Handler

(* The counters leave no message out but the last one of a connection whose*)
(* handler died at the replay guard.                                       *)
THEOREM Accounted == Spec => []NothingUnaccounted
<1>1. Init => CountInv
  <2> SUFFICES ASSUME Init PROVE CountInv
    OBVIOUS
  <2>1. Storing = {} /\ died = {}
    BY DEF Init, Storing
  <2>2. IsFiniteSet({}) /\ Cardinality({}) = 0
    BY FS_EmptySet
  <2>3. QED
    BY <2>1, <2>2, Balance DEF Init, CountInv, Balanced, Counters
<1>2. CountInv => NothingUnaccounted
  BY DEF CountInv
<1>3. IInv => TypeOK /\ DiedInv
  BY DEF IInv
<1>4. QED
  BY <1>1, <1>2, <1>3, CountStep, Inductive, PTL DEF Spec
=============================================================================
