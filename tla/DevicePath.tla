----------------------------- MODULE DevicePath -----------------------------
(***************************************************************************)
(* The way of one device's readings: the device process and the file that  *)
(* persists its sequence counter (src/device/device.py, state.py), the     *)
(* gateway's handler threads and replay guard (src/gateway/gateway.py,     *)
(* src/common/replay.py) and, at the far end, the cloud's replay guard     *)
(* (src/cloud/cloud.py).                                                   *)
(*                                                                         *)
(* The device may crash between any two of its steps, the gateway and the  *)
(* cloud may restart, and connections may fail.  Each life of the device   *)
(* process makes one connection, so a life's number also names its         *)
(* connection and the gateway thread that serves it.  Threads of several   *)
(* lives may be at work together: a dead device's readings are still in    *)
(* the socket buffers of its connection.  In the same way readings sent    *)
(* over an abandoned cloud session may still be on their way.              *)
(*                                                                         *)
(* The cryptography is not modelled: every message here is authentic, and  *)
(* a message of another kind is dropped by the receiver before it reaches  *)
(* the guards.  CloudChannel and CloudServer detail what is one step here: *)
(* the forwarding of a reading and its reception.                          *)
(***************************************************************************)
EXTENDS Naturals, Sequences

CONSTANTS
    MaxLives,     \* bound: lives of the device process
    MaxSeq,       \* bound: sequence numbers
    MaxSessions,  \* bound: gateway-cloud sessions
    MaxFaults     \* bound: losses, failed writes and restarts of the services

ASSUME PathAssumption ==
    MaxLives \in Nat /\ MaxSeq \in Nat /\ MaxSessions \in Nat \ {0} /\
    MaxFaults \in Nat

VARIABLES
    dpc,        \* what the device process does next
    sequence,   \* its counter in memory
    file,       \* the counter file; Empty while it is being rewritten
    life,       \* number of the current (or last) life of the device
    chan,       \* per life: messages the gateway has not read yet
    ended,      \* per life: has the device closed its end?
    hpc,        \* per life: the gateway's handler thread
    holding,    \* per life: reading accepted and not yet forwarded
    gLast,      \* the gateway's replay guard for this device
    session,    \* number of the current gateway-cloud session
    wire,       \* per session: readings sent and not yet received
    cLast,      \* the cloud's replay guard for this device
    faults,     \* faults so far
    sent,       \* history: highest sequence number ever sent
    damaged,    \* history: the device died with the file empty
    gAccepted,  \* history: readings that passed the gateway's guard
    gRejected,  \* history: readings it rejected as replays
    cAccepted,  \* history: readings that passed the cloud's guard, tagged
    cRejected   \* with their session, since the cloud started; and rejected

device  == <<dpc, sequence, file, life, sent, damaged>>
gateway == <<hpc, holding, gLast, gAccepted, gRejected>>
cloud   == <<wire, cLast, cAccepted, cRejected>>
vars == <<device, chan, ended, gateway, session, cloud, faults>>

Lives    == 1 .. MaxLives
Sessions == 1 .. MaxSessions
Reading  == [seq : 1 .. MaxSeq, life : Lives]
Nothing  == [seq |-> 0, life |-> 0]
Empty    == MaxSeq + 1

Init ==
    /\ dpc = "down"
    /\ sequence = 0
    /\ file = 0
    /\ life = 0
    /\ chan = [l \in Lives |-> <<>>]
    /\ ended = [l \in Lives |-> FALSE]
    /\ hpc = [l \in Lives |-> "none"]
    /\ holding = [l \in Lives |-> Nothing]
    /\ gLast = 0
    /\ session = 1
    /\ wire = [s \in Sessions |-> <<>>]
    /\ cLast = 0
    /\ faults = 0
    /\ sent = 0
    /\ damaged = FALSE
    /\ gAccepted = {}
    /\ gRejected = {}
    /\ cAccepted = {}
    /\ cRejected = {}

Fault ==
    /\ faults < MaxFaults
    /\ faults' = faults + 1

-----------------------------------------------------------------------------
(* The device: run, load_sequence, save_sequence.                          *)

DGoto(from, to) == dpc = from /\ dpc' = to

(* Somebody starts the device (nothing restarts it by itself).             *)
Start ==
    /\ DGoto("down", "load")
    /\ life < MaxLives
    /\ life' = life + 1
    /\ UNCHANGED <<sequence, file, sent, damaged, chan, ended, gateway,
                   session, cloud, faults>>

(* Mutant: the counter starts again from zero.                             *)
LoadForgets ==
    /\ DGoto("load", "connect")
    /\ sequence' = 0
    /\ UNCHANGED <<file, life, sent, damaged, chan, ended, gateway, session,
                   cloud, faults>>

(* A file that does not hold a number counts as zero.                      *)
Load ==
    /\ DGoto("load", "connect")
    /\ sequence' = IF file = Empty THEN 0 ELSE file
    /\ UNCHANGED <<file, life, sent, damaged, chan, ended, gateway, session,
                   cloud, faults>>

(* The connection is made, the hello is sent and admitted.                 *)
Connect ==
    /\ DGoto("connect", "send")
    /\ hpc' = [hpc EXCEPT ![life] = "serve"]
    /\ UNCHANGED <<sequence, file, life, sent, damaged, chan, ended, holding,
                   gLast, gAccepted, gRejected, session, cloud, faults>>

Larger(m, n) == IF m > n THEN m ELSE n

(* The reading is written to the socket.  If the gateway has closed its    *)
(* end the first write still succeeds and the reading is lost.             *)
Send ==
    /\ DGoto("send", "truncate")
    /\ sequence < MaxSeq
    /\ sequence' = sequence + 1
    /\ sent' = Larger(sent, sequence')
    /\ chan' = IF hpc[life] = "none" THEN chan
               ELSE [chan EXCEPT ![life] =
                        Append(@, [seq |-> sequence', life |-> life])]
    /\ UNCHANGED <<file, life, damaged, ended, gateway, session, cloud,
                   faults>>

(* Path.write_text opens the file for writing, which empties it, and then  *)
(* writes.                                                                 *)
Truncate ==
    /\ DGoto("truncate", "write")
    /\ file' = Empty
    /\ UNCHANGED <<sequence, life, sent, damaged, chan, ended, gateway,
                   session, cloud, faults>>

Write ==
    /\ DGoto("write", "send")
    /\ file' = sequence
    /\ UNCHANGED <<sequence, life, sent, damaged, chan, ended, gateway,
                   session, cloud, faults>>

(* The process ends: a crash, a kill, or an OSError from a socket or from  *)
(* the file system, which main turns into an exit.                         *)
Die ==
    /\ dpc # "down"
    /\ dpc' = "down"
    /\ damaged' = (damaged \/ dpc = "write")
    /\ ended' = [ended EXCEPT ![life] = TRUE]
    /\ UNCHANGED <<sequence, file, life, sent, chan, gateway, session, cloud,
                   faults>>

-----------------------------------------------------------------------------
(* The gateway: _serve_legacy in the thread that serves connection l.      *)

(* ReplayGuard.check_and_update, for one device.  Mutants: a number equal  *)
(* to the last one passes; the next number is held back.                   *)
PassesOrRepeats(r, last) == r.seq >= last
PassesWithGap(r, last)   == r.seq > last + 1
Passes(r, last)          == r.seq > last

NextMessage(l) == Head(chan[l])

Read(l) ==
    /\ hpc[l] = "serve"
    /\ chan[l] # <<>>
    /\ chan' = [chan EXCEPT ![l] = Tail(@)]

AcceptReading(l) ==
    /\ Read(l)
    /\ Passes(NextMessage(l), gLast)
    /\ gLast' = NextMessage(l).seq
    /\ gAccepted' = gAccepted \cup {NextMessage(l)}
    /\ holding' = [holding EXCEPT ![l] = NextMessage(l)]
    /\ hpc' = [hpc EXCEPT ![l] = "forward"]
    /\ UNCHANGED <<device, ended, gRejected, session, cloud, faults>>

RejectReplay(l) ==
    /\ Read(l)
    /\ ~Passes(NextMessage(l), gLast)
    /\ gRejected' = gRejected \cup {NextMessage(l)}
    /\ UNCHANGED <<device, ended, hpc, holding, gLast, gAccepted, session,
                   cloud, faults>>

Forward(l) ==
    /\ hpc[l] = "forward"
    /\ wire' = [wire EXCEPT ![session] = Append(@, holding[l])]
    /\ hpc' = [hpc EXCEPT ![l] = "serve"]
    /\ holding' = [holding EXCEPT ![l] = Nothing]
    /\ UNCHANGED <<device, chan, ended, gLast, gAccepted, gRejected, session,
                   cLast, cAccepted, cRejected, faults>>

(* sendall succeeds on a connection the cloud has left: the reading counts *)
(* as forwarded and is lost.                                               *)
ForwardIsLost(l) ==
    /\ hpc[l] = "forward"
    /\ Fault
    /\ hpc' = [hpc EXCEPT ![l] = "serve"]
    /\ holding' = [holding EXCEPT ![l] = Nothing]
    /\ UNCHANGED <<device, chan, ended, gLast, gAccepted, gRejected, session,
                   cloud>>

(* The handler ends: at the end of the stream; when send_reading raises    *)
(* CryptoError, which closes the device's connection and loses what it     *)
(* still held; or on a socket error.                                       *)
EndHandler(l) ==
    /\ \/ /\ hpc[l] = "serve" /\ ended[l] /\ chan[l] = <<>>
          /\ UNCHANGED faults
       \/ /\ hpc[l] \in {"serve", "forward"}
          /\ Fault
    /\ hpc' = [hpc EXCEPT ![l] = "none"]
    /\ holding' = [holding EXCEPT ![l] = Nothing]
    /\ chan' = [chan EXCEPT ![l] = <<>>]
    /\ UNCHANGED <<device, ended, gLast, gAccepted, gRejected, session, cloud>>

(* The gateway process starts again, with an empty guard and a new session.*)
GatewayRestart ==
    /\ Fault
    /\ session < MaxSessions
    /\ session' = session + 1
    /\ hpc' = [l \in Lives |-> "none"]
    /\ holding' = [l \in Lives |-> Nothing]
    /\ chan' = [l \in Lives |-> <<>>]
    /\ gLast' = 0
    /\ UNCHANGED <<device, ended, gAccepted, gRejected, cloud>>

(* The channel gives its session up and establishes another (CloudChannel).*)
NewSession ==
    /\ Fault
    /\ session < MaxSessions
    /\ session' = session + 1
    /\ UNCHANGED <<device, chan, ended, gateway, cloud>>

-----------------------------------------------------------------------------
(* The cloud: the replay guard in _receive_readings for session s.         *)

Tagged(r, s) == [seq |-> r.seq, life |-> r.life, session |-> s]

Receive(s) ==
    /\ wire[s] # <<>>
    /\ wire' = [wire EXCEPT ![s] = Tail(@)]
    /\ LET r == Head(wire[s])
       IN  \/ /\ Passes(r, cLast)
              /\ cLast' = r.seq
              /\ cAccepted' = cAccepted \cup {Tagged(r, s)}
              /\ UNCHANGED cRejected
           \/ /\ ~Passes(r, cLast)
              /\ cRejected' = cRejected \cup {Tagged(r, s)}
              /\ UNCHANGED <<cLast, cAccepted>>
    /\ UNCHANGED <<device, chan, ended, gateway, session, faults>>

(* The cloud process starts again: connections, guard and store are gone.  *)
CloudRestart ==
    /\ Fault
    /\ session < MaxSessions
    /\ session' = session + 1
    /\ wire' = [s \in Sessions |-> <<>>]
    /\ cLast' = 0
    /\ cAccepted' = {}
    /\ cRejected' = {}
    /\ UNCHANGED <<device, chan, ended, gateway>>

Next ==
    \/ Start \/ Load \/ Connect \/ Send \/ Truncate \/ Write \/ Die
    \/ \E l \in Lives : \/ AcceptReading(l)
                        \/ RejectReplay(l)
                        \/ Forward(l)
                        \/ ForwardIsLost(l)
                        \/ EndHandler(l)
    \/ GatewayRestart
    \/ NewSession
    \/ \E s \in Sessions : Receive(s)
    \/ CloudRestart

Spec == Init /\ [][Next]_vars

-----------------------------------------------------------------------------
(* Properties.                                                             *)

(* Every variable has its type.                                            *)
TypeOK ==
    /\ dpc \in {"down", "load", "connect", "send", "truncate", "write"}
    /\ sequence \in 0 .. MaxSeq
    /\ file \in 0 .. Empty
    /\ life \in 0 .. MaxLives
    /\ chan \in [Lives -> Seq(Reading)]
    /\ ended \in [Lives -> BOOLEAN]
    /\ hpc \in [Lives -> {"none", "serve", "forward"}]
    /\ holding \in [Lives -> Reading \cup {Nothing}]
    /\ gLast \in 0 .. MaxSeq
    /\ session \in Sessions
    /\ wire \in [Sessions -> Seq(Reading)]
    /\ cLast \in 0 .. MaxSeq
    /\ faults \in 0 .. MaxFaults
    /\ sent \in 0 .. MaxSeq
    /\ damaged \in BOOLEAN
    /\ gAccepted \subseteq Reading
    /\ gRejected \subseteq Reading
    /\ cAccepted \subseteq [seq : 1 .. MaxSeq, life : Lives,
                            session : Sessions]
    /\ cRejected \subseteq [seq : 1 .. MaxSeq, life : Lives,
                            session : Sessions]

(* Replay protection does not wedge the device: while the file is intact   *)
(* the next number the device sends is at least the highest one the        *)
(* gateway or the cloud have accepted, and from the second reading of a    *)
(* life on it is larger.  At most one reading per crash meets the guard.   *)
NoWedge ==
    ~damaged /\ dpc = "send" =>
        /\ gLast <= sequence + 1 /\ cLast <= sequence + 1
        /\ file = sequence
        /\ \A r \in gAccepted \cup gRejected :
              r.life = life => gLast <= sequence /\ cLast <= sequence

(* The gateway never rejects a reading because of an earlier one of the    *)
(* same life: a genuine reading fails the guard only when a reading of     *)
(* another life, with at least its number, was accepted.                   *)
RejectionExplained ==
    \A r \in gRejected : \E q \in gAccepted :
        q.life # r.life /\ q.seq >= r.seq

(* What the gateway accepted and forwarded, the cloud rejects only when a  *)
(* reading that came another way, from another life or over another        *)
(* session, overtook it.                                                   *)
CloudRejectionExplained ==
    \A r \in cRejected : \E q \in cAccepted :
        /\ q.seq >= r.seq
        /\ q.life # r.life \/ q.session # r.session

(* Between two restarts the cloud takes one reading per sequence number,   *)
(* although two lives of the device may have used the number for different *)
(* readings and a restarted gateway has forgotten which it has seen.       *)
OneReadingPerSequence ==
    \A q, r \in cAccepted : q.seq = r.seq => q = r

-----------------------------------------------------------------------------
(* The abstract specification that the path implements.                    *)

Untagged(r) == [seq |-> r.seq, life |-> r.life]

Log == INSTANCE ReadingLog WITH
    taken <- gAccepted,
    log   <- {Untagged(r) : r \in cAccepted}

(* Whatever restarts, crashes and overtakes, the cloud's log grows in the  *)
(* order of the sequence numbers and only by what the gateway accepted.    *)
ImplementsLog == Log!Spec
=============================================================================
