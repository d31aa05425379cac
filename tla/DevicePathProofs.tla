-------------------------- MODULE DevicePathProofs --------------------------
(***************************************************************************)
(* The properties of DevicePath hold for any number of lives, sequence     *)
(* numbers, sessions and faults.                                           *)
(*                                                                         *)
(* The argument follows a reading on its way.  A life's readings are sent, *)
(* read, accepted, forwarded and received in the order of their numbers,   *)
(* so a reading is always newer than those of its life that are ahead of   *)
(* it; and no number anywhere is larger than the largest one sent, which   *)
(* the counter file trails by one at most.                                 *)
(***************************************************************************)
EXTENDS DevicePath, TLAPS

Elements(s) == {s[i] : i \in 1 .. Len(s)}

(* The readings of each life stand in the order of their numbers.          *)
InOrder(s) ==
    \A i, j \in 1 .. Len(s) :
        i < j /\ s[i].life = s[j].life => s[i].seq < s[j].seq

(* TypeOK in three parts, for the steps that need only one.                *)
DeviceTypes ==
    /\ dpc \in {"down", "load", "connect", "send", "truncate", "write"}
    /\ sequence \in 0 .. MaxSeq
    /\ file \in 0 .. Empty
    /\ life \in 0 .. MaxLives
    /\ sent \in 0 .. MaxSeq
    /\ damaged \in BOOLEAN
    /\ dpc # "down" => life \in Lives

GatewayTypes ==
    /\ chan \in [Lives -> Seq(Reading)]
    /\ hpc \in [Lives -> {"none", "serve", "forward"}]
    /\ holding \in [Lives -> Reading \cup {Nothing}]
    /\ \A l \in Lives : hpc[l] = "forward" => holding[l] \in Reading
    /\ gLast \in 0 .. MaxSeq
    /\ session \in Sessions
    /\ gAccepted \subseteq Reading
    /\ gRejected \subseteq Reading

TaggedReading == [seq : 1 .. MaxSeq, life : Lives, session : Sessions]

CloudTypes ==
    /\ wire \in [Sessions -> Seq(Reading)]
    /\ cLast \in 0 .. MaxSeq
    /\ cAccepted \subseteq TaggedReading
    /\ cRejected \subseteq TaggedReading

OtherTypes ==
    /\ ended \in [Lives -> BOOLEAN]
    /\ faults \in 0 .. MaxFaults

Types == DeviceTypes /\ GatewayTypes /\ CloudTypes /\ OtherTypes

(* A reading that the gateway has read or is still to read.                *)
Exists(r) ==
    \/ r \in gAccepted \cup gRejected
    \/ \E l \in Lives : r \in Elements(chan[l])

(* How far the largest number sent may be ahead of the file and of the     *)
(* memory, at each point of the device's loop.                             *)
CounterInv ==
    ~damaged =>
        /\ dpc \in {"down", "load"} => file # Empty /\ sent <= file + 1
        /\ dpc \in {"connect", "send"} =>
              file = sequence /\ sent <= sequence + 1
        /\ dpc = "truncate" =>
              file # Empty /\ sequence = file + 1 /\ sent <= sequence
        /\ dpc = "write" => sent <= sequence

(* Where readings come from: the current life has sent none before its     *)
(* first Send and none that is newer than its counter, and its first one   *)
(* brings the counter level with everything ever sent.                     *)
OriginInv ==
    /\ \A l \in Lives : \A r \in Elements(chan[l]) : r.life = l
    /\ \A r \in Reading : Exists(r) =>
          /\ r.life <= life /\ r.seq <= sent
          /\ dpc \in {"load", "connect"} => r.life # life
          /\ dpc \in {"send", "truncate", "write"} /\ r.life = life =>
                r.seq <= sequence
          /\ ~damaged /\ dpc = "send" /\ r.life = life => sent <= sequence

(* What waits in a connection is newer than what has been read from it.    *)
ReadInv ==
    /\ \A l \in Lives : InOrder(chan[l])
    /\ \A q \in gAccepted \cup gRejected : \A l \in Lives :
          \A r \in Elements(chan[l]) : q.life = r.life => q.seq < r.seq

GuardInv ==
    /\ gLast # 0 => \E q \in gAccepted : q.seq = gLast
    /\ RejectionExplained

(* What a thread holds is newer than what it has forwarded.                *)
HoldInv ==
    \A l \in Lives : hpc[l] = "forward" =>
        /\ holding[l] \in gAccepted
        /\ holding[l].life = l
        /\ \A s \in Sessions : \A r \in Elements(wire[s]) :
              r.life = l => r.seq < holding[l].seq
        /\ \A q \in cAccepted : q.life = l => q.seq < holding[l].seq

(* What travels over a session is newer than what has arrived over it.     *)
WireInv ==
    /\ \A s \in Sessions :
          /\ Elements(wire[s]) \subseteq gAccepted
          /\ InOrder(wire[s])
          /\ \A q \in cAccepted : \A r \in Elements(wire[s]) :
                q.session = s /\ q.life = r.life => q.seq < r.seq
    /\ \A q \in cAccepted : [seq |-> q.seq, life |-> q.life] \in gAccepted

CloudInv ==
    /\ cLast # 0 => \E q \in cAccepted : q.seq = cLast
    /\ \A q \in cAccepted : q.seq <= cLast
    /\ OneReadingPerSequence
    /\ CloudRejectionExplained

IInv ==
    /\ Types
    /\ CounterInv
    /\ OriginInv
    /\ ReadInv
    /\ GuardInv
    /\ HoldInv
    /\ WireInv
    /\ CloudInv

-----------------------------------------------------------------------------
(* Sequences: what Append and Tail do to the elements and to their order.  *)

LEMMA AppendFacts ==
    ASSUME NEW S, NEW s \in Seq(S), NEW e \in S
    PROVE  /\ Append(s, e) \in Seq(S)
           /\ \A r : r \in Elements(Append(s, e)) <=>
                       r \in Elements(s) \/ r = e
<1> DEFINE t == Append(s, e)
<1>1. /\ t \in Seq(S)
      /\ Len(t) = Len(s) + 1
      /\ \A i \in 1 .. Len(s) : t[i] = s[i]
      /\ t[Len(s) + 1] = e
  OBVIOUS
<1>2. Len(s) \in Nat
  OBVIOUS
<1> HIDE DEF t
<1>3. ASSUME NEW r \in Elements(t) PROVE r \in Elements(s) \/ r = e
  BY <1>1, <1>2 DEF Elements
<1>4. ASSUME NEW r \in Elements(s) PROVE r \in Elements(t)
  BY <1>1, <1>2 DEF Elements
<1>5. e \in Elements(t)
  BY <1>1, <1>2 DEF Elements
<1>6. QED
  BY <1>1, <1>3, <1>4, <1>5 DEF t

LEMMA TailFacts ==
    ASSUME NEW S, NEW s \in Seq(S), s # <<>>
    PROVE  /\ Tail(s) \in Seq(S)
           /\ Head(s) \in S
           /\ Head(s) \in Elements(s)
           /\ Elements(Tail(s)) \subseteq Elements(s)
<1> DEFINE t == Tail(s)
<1>1. /\ t \in Seq(S)
      /\ Len(s) \in Nat \ {0}
      /\ Len(t) = Len(s) - 1
      /\ \A i \in 1 .. Len(t) : t[i] = s[i + 1]
      /\ Head(s) = s[1]
      /\ s[1] \in S
  OBVIOUS
<1> HIDE DEF t
<1>2. Head(s) \in Elements(s)
  BY <1>1 DEF Elements
<1>3. Elements(t) \subseteq Elements(s)
  BY <1>1 DEF Elements
<1>4. QED
  BY <1>1, <1>2, <1>3 DEF t

LEMMA ElementsTyped ==
    ASSUME NEW S, NEW s \in Seq(S)
    PROVE  Elements(s) \subseteq S
  BY DEF Elements

LEMMA EmptyFacts == Elements(<<>>) = {} /\ InOrder(<<>>)
  BY DEF Elements, InOrder

LEMMA AppendOrder ==
    ASSUME NEW S, NEW s \in Seq(S), NEW e \in S, InOrder(s),
           \A r \in Elements(s) : r.life = e.life => r.seq < e.seq
    PROVE  InOrder(Append(s, e))
<1> DEFINE t == Append(s, e)
<1>1. /\ Len(t) = Len(s) + 1
      /\ \A i \in 1 .. Len(s) : t[i] = s[i]
      /\ t[Len(s) + 1] = e
      /\ Len(s) \in Nat
  OBVIOUS
<1> HIDE DEF t
<1>2. ASSUME NEW i \in 1 .. Len(t), NEW j \in 1 .. Len(t),
             i < j, t[i].life = t[j].life
      PROVE  t[i].seq < t[j].seq
  <2>1. i \in 1 .. Len(s) /\ t[i] = s[i] /\ s[i] \in Elements(s)
    BY <1>1, <1>2 DEF Elements
  <2>2. CASE j = Len(s) + 1
    BY <1>1, <1>2, <2>1, <2>2
  <2>3. CASE j \in 1 .. Len(s)
    BY <1>1, <1>2, <2>1, <2>3 DEF InOrder
  <2>4. QED
    BY <1>1, <2>2, <2>3
<1>3. QED
  BY <1>2 DEF InOrder, t

LEMMA TailOrder ==
    ASSUME NEW S, NEW s \in Seq(S), s # <<>>, InOrder(s)
    PROVE  /\ InOrder(Tail(s))
           /\ \A r \in Elements(Tail(s)) :
                 r.life = Head(s).life => Head(s).seq < r.seq
<1> DEFINE t == Tail(s)
<1>1. /\ Len(s) \in Nat \ {0}
      /\ Len(t) = Len(s) - 1
      /\ \A i \in 1 .. Len(t) : t[i] = s[i + 1]
      /\ Head(s) = s[1]
  OBVIOUS
<1> HIDE DEF t
<1>2. ASSUME NEW i \in 1 .. Len(t), NEW j \in 1 .. Len(t),
             i < j, t[i].life = t[j].life
      PROVE  t[i].seq < t[j].seq
  <2>1. i + 1 \in 1 .. Len(s) /\ j + 1 \in 1 .. Len(s) /\ i + 1 < j + 1
    BY <1>1, <1>2
  <2>2. t[i] = s[i + 1] /\ t[j] = s[j + 1]
    BY <1>1
  <2>3. QED
    BY <1>2, <2>1, <2>2 DEF InOrder
<1>3. ASSUME NEW i \in 1 .. Len(t), t[i].life = s[1].life
      PROVE  s[1].seq < t[i].seq
  BY <1>1, <1>3, SMTT(30) DEF InOrder
<1>4. QED
  BY <1>1, <1>2, <1>3 DEF Elements, InOrder, t

-----------------------------------------------------------------------------
(* A step that is not the device's leaves the device alone.                *)
LEMMA DeviceOrNot ==
    ASSUME [Next]_vars
    PROVE  \/ Start \/ Load \/ Connect \/ Send \/ Truncate \/ Write \/ Die
           \/ UNCHANGED device
<1>1. ASSUME NEW l \in Lives,
             AcceptReading(l) \/ RejectReplay(l) \/ Forward(l)
               \/ ForwardIsLost(l) \/ EndHandler(l)
      PROVE  UNCHANGED device
  BY <1>1 DEF AcceptReading, RejectReplay, Forward, ForwardIsLost, EndHandler
<1>2. ASSUME NEW s \in Sessions, Receive(s) PROVE UNCHANGED device
  BY <1>2 DEF Receive
<1>3. ASSUME GatewayRestart \/ NewSession \/ CloudRestart
      PROVE  UNCHANGED device
  BY <1>3 DEF GatewayRestart, NewSession, CloudRestart
<1>4. ASSUME UNCHANGED vars PROVE UNCHANGED device
  BY <1>4 DEF vars
<1>5. QED
  BY <1>1, <1>2, <1>3, <1>4 DEF Next

(* A step in which no reading is sent and the gateway reads none.          *)
GatewayQuiet ==
    /\ \A l \in Lives : chan'[l] \in {chan[l], <<>>}
    /\ \A l \in Lives : hpc'[l] = "forward" =>
          hpc[l] = "forward" /\ holding'[l] = holding[l]
    /\ gLast' \in {gLast, 0}
    /\ UNCHANGED <<gAccepted, gRejected>>

LEMMA GatewayOrNot ==
    ASSUME DeviceTypes, GatewayTypes, [Next]_vars
    PROVE  \/ Send
           \/ \E l \in Lives : AcceptReading(l) \/ RejectReplay(l)
           \/ GatewayQuiet
<1> USE DEF GatewayQuiet, GatewayTypes
<1>1. ASSUME UNCHANGED <<chan, gateway>> PROVE GatewayQuiet
  BY <1>1 DEF gateway
<1>2. ASSUME Start \/ Load \/ Truncate \/ Write \/ Die PROVE GatewayQuiet
  BY <1>1, <1>2 DEF Start, Load, Truncate, Write, Die
<1>3. ASSUME Connect PROVE GatewayQuiet
  BY <1>3 DEF Connect, DGoto, DeviceTypes
<1>4. ASSUME NEW l \in Lives, Forward(l) \/ ForwardIsLost(l)
      PROVE  GatewayQuiet
  BY <1>4 DEF Forward, ForwardIsLost
<1>5. ASSUME NEW l \in Lives, EndHandler(l) PROVE GatewayQuiet
  BY <1>5 DEF EndHandler
<1>6. ASSUME GatewayRestart PROVE GatewayQuiet
  BY <1>6 DEF GatewayRestart
<1>7. ASSUME NewSession \/ CloudRestart PROVE GatewayQuiet
  BY <1>1, <1>7 DEF NewSession, CloudRestart
<1>8. ASSUME NEW s \in Sessions, Receive(s) PROVE GatewayQuiet
  BY <1>1, <1>8 DEF Receive
<1>9. ASSUME UNCHANGED vars PROVE GatewayQuiet
  BY <1>1, <1>9 DEF vars
<1>10. QED
  BY <1>2, <1>3, <1>4, <1>5, <1>6, <1>7, <1>8, <1>9 DEF Next

(* The cloud's part changes when a reading is forwarded or received and    *)
(* when the cloud restarts.                                                *)
LEMMA CloudOrNot ==
    ASSUME [Next]_vars
    PROVE  \/ \E l \in Lives : Forward(l)
           \/ \E s \in Sessions : Receive(s)
           \/ CloudRestart
           \/ UNCHANGED cloud
<1>1. ASSUME Start \/ Load \/ Connect \/ Send \/ Truncate \/ Write \/ Die
      PROVE  UNCHANGED cloud
  BY <1>1 DEF Start, Load, Connect, Send, Truncate, Write, Die
<1>2. ASSUME NEW l \in Lives,
             AcceptReading(l) \/ RejectReplay(l)
               \/ ForwardIsLost(l) \/ EndHandler(l)
      PROVE  UNCHANGED cloud
  BY <1>2 DEF AcceptReading, RejectReplay, ForwardIsLost, EndHandler
<1>3. ASSUME GatewayRestart \/ NewSession PROVE UNCHANGED cloud
  BY <1>3 DEF GatewayRestart, NewSession
<1>4. ASSUME UNCHANGED vars PROVE UNCHANGED cloud
  BY <1>4 DEF vars
<1>5. QED
  BY <1>1, <1>2, <1>3, <1>4 DEF Next

-----------------------------------------------------------------------------
(* Types.                                                                  *)

LEMMA DeviceTypeStep ==
    ASSUME DeviceTypes, [Next]_vars
    PROVE  DeviceTypes'
<1> USE PathAssumption DEF DeviceTypes, Lives, Empty
<1>1. CASE UNCHANGED device
  BY <1>1 DEF device
<1>2. CASE Start \/ Load \/ Connect
  BY <1>2 DEF Start, Load, Connect, DGoto
<1>3. CASE Send
  BY <1>3 DEF Send, DGoto, Larger
<1>4. CASE Truncate \/ Write
  BY <1>4 DEF Truncate, Write, DGoto
<1>5. CASE Die
  <2>1. damaged' \in BOOLEAN
    BY <1>5, Zenon DEF Die
  <2>2. QED
    BY <1>5, <2>1 DEF Die
<1>6. QED
  BY <1>1, <1>2, <1>3, <1>4, <1>5, DeviceOrNot

LEMMA GatewayTypeStep ==
    ASSUME DeviceTypes, GatewayTypes, [Next]_vars
    PROVE  GatewayTypes'
<1> USE DEF GatewayTypes
<1>1. CASE UNCHANGED <<chan, gateway, session>>
  BY <1>1 DEF gateway
<1>2. CASE Connect
  BY <1>2 DEF Connect, gateway, DeviceTypes, DGoto
<1>3. CASE Send
  <2>1. UNCHANGED <<gateway, session>>
    BY <1>3 DEF Send
  <2>2. life \in Lives /\ sequence' \in 1 .. MaxSeq
    BY <1>3, PathAssumption DEF Send, DGoto, DeviceTypes
  <2> DEFINE r == [seq |-> sequence', life |-> life]
  <2>3. r \in Reading
    BY <2>2 DEF Reading
  <2>4. chan' = chan \/ chan' = [chan EXCEPT ![life] = Append(chan[life], r)]
    BY <1>3 DEF Send
  <2> HIDE DEF r
  <2>5. Append(chan[life], r) \in Seq(Reading)
    BY <2>2, <2>3, AppendFacts
  <2>6. chan' \in [Lives -> Seq(Reading)]
    BY <2>2, <2>4, <2>5
  <2>7. QED
    BY <2>1, <2>6 DEF gateway
<1>4. ASSUME NEW l \in Lives, AcceptReading(l) PROVE GatewayTypes'
  <2>1. /\ chan[l] \in Seq(Reading) /\ chan[l] # <<>>
        /\ chan' = [chan EXCEPT ![l] = Tail(chan[l])]
    BY <1>4 DEF AcceptReading, Read
  <2>2. NextMessage(l) \in Reading /\ Tail(chan[l]) \in Seq(Reading)
    BY <2>1, TailFacts DEF NextMessage
  <2>3. NextMessage(l).seq \in 0 .. MaxSeq
    BY <2>2 DEF Reading
  <2> HIDE DEF NextMessage
  <2>4. QED
    BY <1>4, <2>1, <2>2, <2>3 DEF AcceptReading
<1>5. ASSUME NEW l \in Lives, RejectReplay(l) PROVE GatewayTypes'
  <2>1. /\ chan[l] \in Seq(Reading) /\ chan[l] # <<>>
        /\ chan' = [chan EXCEPT ![l] = Tail(chan[l])]
    BY <1>5 DEF RejectReplay, Read
  <2>2. NextMessage(l) \in Reading /\ Tail(chan[l]) \in Seq(Reading)
    BY <2>1, TailFacts DEF NextMessage
  <2> HIDE DEF NextMessage
  <2>3. QED
    BY <1>5, <2>1, <2>2 DEF RejectReplay
<1>6. ASSUME NEW l \in Lives, Forward(l) \/ ForwardIsLost(l)
      PROVE  GatewayTypes'
  BY <1>6 DEF Forward, ForwardIsLost, device
<1>7. ASSUME NEW l \in Lives, EndHandler(l) PROVE GatewayTypes'
  BY <1>7 DEF EndHandler
<1>8. CASE GatewayRestart
  BY <1>8, PathAssumption DEF GatewayRestart, Sessions
<1>9. CASE NewSession \/ CloudRestart
  BY <1>9, PathAssumption DEF NewSession, CloudRestart, gateway, Sessions
<1>10. CASE Start \/ Load \/ Truncate \/ Write \/ Die
  BY <1>10, <1>1 DEF Start, Load, Truncate, Write, Die
<1>11. ASSUME NEW s \in Sessions, Receive(s) PROVE GatewayTypes'
  BY <1>11, <1>1 DEF Receive
<1>12. CASE UNCHANGED vars
  BY <1>12, <1>1 DEF vars
<1>13. QED
  BY <1>2, <1>3, <1>4, <1>5, <1>6, <1>7, <1>8, <1>9, <1>10, <1>11, <1>12
  DEF Next

LEMMA CloudTypeStep ==
    ASSUME GatewayTypes, CloudTypes, [Next]_vars
    PROVE  CloudTypes'
<1> USE DEF CloudTypes
<1>1. CASE UNCHANGED cloud
  BY <1>1 DEF cloud
<1>2. ASSUME NEW l \in Lives, Forward(l) PROVE CloudTypes'
  <2>1. session \in Sessions /\ holding[l] \in Reading
    BY <1>2 DEF Forward, GatewayTypes
  <2>2. Append(wire[session], holding[l]) \in Seq(Reading)
    BY <2>1, AppendFacts
  <2>3. QED
    BY <1>2, <2>1, <2>2 DEF Forward
<1>3. ASSUME NEW s \in Sessions, Receive(s) PROVE CloudTypes'
  <2> DEFINE r == Head(wire[s])
  <2>1. /\ wire[s] \in Seq(Reading) /\ wire[s] # <<>>
        /\ wire' = [wire EXCEPT ![s] = Tail(wire[s])]
    BY <1>3 DEF Receive
  <2>2. r \in Reading /\ Tail(wire[s]) \in Seq(Reading)
    BY <2>1, TailFacts
  <2>3. /\ cLast' \in {cLast, r.seq}
        /\ cAccepted' \subseteq cAccepted \cup {Tagged(r, s)}
        /\ cRejected' \subseteq cRejected \cup {Tagged(r, s)}
    BY <1>3 DEF Receive
  <2> HIDE DEF r
  <2>4. r.seq \in 0 .. MaxSeq /\ Tagged(r, s) \in TaggedReading
    BY <2>2 DEF Reading, Tagged, TaggedReading
  <2>5. QED
    BY <2>1, <2>2, <2>3, <2>4
<1>4. CASE CloudRestart
  BY <1>4, PathAssumption DEF CloudRestart
<1>5. QED
  BY <1>1, <1>2, <1>3, <1>4, CloudOrNot

LEMMA OtherTypeStep ==
    ASSUME DeviceTypes, OtherTypes, [Next]_vars
    PROVE  OtherTypes'
<1> USE PathAssumption DEF OtherTypes, Fault
<1>1. CASE UNCHANGED <<ended, faults>>
  BY <1>1
<1>2. CASE Start \/ Load \/ Connect \/ Send \/ Truncate \/ Write
  BY <1>2 DEF Start, Load, Connect, Send, Truncate, Write
<1>3. CASE Die
  BY <1>3 DEF Die, DeviceTypes
<1>4. ASSUME NEW l \in Lives,
             AcceptReading(l) \/ RejectReplay(l) \/ Forward(l)
      PROVE  OtherTypes'
  BY <1>4 DEF AcceptReading, RejectReplay, Forward
<1>5. ASSUME NEW l \in Lives, ForwardIsLost(l) \/ EndHandler(l)
      PROVE  OtherTypes'
  BY <1>5 DEF ForwardIsLost, EndHandler
<1>6. CASE GatewayRestart \/ NewSession \/ CloudRestart
  BY <1>6 DEF GatewayRestart, NewSession, CloudRestart
<1>7. ASSUME NEW s \in Sessions, Receive(s) PROVE OtherTypes'
  BY <1>7 DEF Receive
<1>8. CASE UNCHANGED vars
  BY <1>8 DEF vars
<1>9. QED
  BY <1>2, <1>3, <1>4, <1>5, <1>6, <1>7, <1>8 DEF Next

LEMMA TypeStep ==
    ASSUME Types, [Next]_vars
    PROVE  Types'
  BY DeviceTypeStep, GatewayTypeStep, CloudTypeStep, OtherTypeStep DEF Types

-----------------------------------------------------------------------------
(* What the two kinds of steps that move readings on the device's side do. *)

LEMMA ReadFacts ==
    ASSUME GatewayTypes, NEW l \in Lives, AcceptReading(l) \/ RejectReplay(l)
    PROVE  /\ chan[l] \in Seq(Reading) /\ chan[l] # <<>>
           /\ chan' = [chan EXCEPT ![l] = Tail(chan[l])]
           /\ NextMessage(l) \in Reading
           /\ NextMessage(l) \in Elements(chan[l])
           /\ Elements(chan'[l]) \subseteq Elements(chan[l])
           /\ \A k \in Lives \ {l} : chan'[k] = chan[k]
           /\ gAccepted' \cup gRejected' =
                 gAccepted \cup gRejected \cup {NextMessage(l)}
           /\ UNCHANGED <<device, cloud>>
<1>1. /\ chan[l] \in Seq(Reading) /\ chan[l] # <<>>
      /\ chan' = [chan EXCEPT ![l] = Tail(chan[l])]
  BY DEF AcceptReading, RejectReplay, Read, GatewayTypes
<1>2. chan'[l] = Tail(chan[l]) /\ \A k \in Lives \ {l} : chan'[k] = chan[k]
  BY <1>1 DEF GatewayTypes
<1>3. /\ NextMessage(l) \in Reading
      /\ NextMessage(l) \in Elements(chan[l])
      /\ Elements(chan'[l]) \subseteq Elements(chan[l])
  BY <1>1, <1>2, TailFacts DEF NextMessage
<1> HIDE DEF NextMessage
<1>4. /\ gAccepted' \cup gRejected' =
            gAccepted \cup gRejected \cup {NextMessage(l)}
      /\ UNCHANGED <<device, cloud>>
  BY DEF AcceptReading, RejectReplay
<1>5. QED
  BY <1>1, <1>2, <1>3, <1>4

NewReading == [seq |-> sequence + 1, life |-> life]

LEMMA SendFacts ==
    ASSUME DeviceTypes, GatewayTypes, Send
    PROVE  /\ life \in Lives
           /\ NewReading \in Reading
           /\ \A l \in Lives :
                 \/ chan'[l] = chan[l]
                 \/ /\ l = life
                    /\ chan'[l] = Append(chan[l], NewReading)
                    /\ \A r : r \in Elements(chan'[l]) <=>
                                 r \in Elements(chan[l]) \/ r = NewReading
           /\ UNCHANGED <<gateway, cloud>>
<1>1. /\ life \in Lives /\ sequence + 1 \in 1 .. MaxSeq
      /\ sequence' = sequence + 1
  BY PathAssumption DEF Send, DGoto, DeviceTypes
<1>2. NewReading \in Reading
  BY <1>1 DEF NewReading, Reading
<1>3. chan' = chan \/ chan' = [chan EXCEPT ![life] =
                                  Append(chan[life], NewReading)]
  BY <1>1 DEF Send, NewReading
<1>4. UNCHANGED <<gateway, cloud>>
  BY DEF Send
<1>5. chan[life] \in Seq(Reading)
  BY <1>1 DEF GatewayTypes
<1> HIDE DEF NewReading
<1>6. \A r : r \in Elements(Append(chan[life], NewReading)) <=>
                r \in Elements(chan[life]) \/ r = NewReading
  BY <1>2, <1>5, AppendFacts
<1>7. ASSUME NEW l \in Lives
      PROVE  \/ chan'[l] = chan[l]
             \/ l = life /\ chan'[l] = Append(chan[l], NewReading)
  BY <1>3 DEF GatewayTypes
<1>8. QED
  BY <1>1, <1>2, <1>4, <1>6, <1>7

(* No step invents a reading, but for the one that is sent.                *)
LEMMA NothingInvented ==
    ASSUME DeviceTypes, GatewayTypes, [Next]_vars, NEW r, Exists(r)'
    PROVE  Exists(r) \/ (Send /\ r = NewReading)
<1> USE DEF Exists
<1>1. CASE Send
  BY <1>1, SendFacts DEF gateway
<1>2. ASSUME NEW l \in Lives, AcceptReading(l) \/ RejectReplay(l)
      PROVE  Exists(r)
  BY <1>2, ReadFacts
<1>3. CASE GatewayQuiet
  BY <1>3, EmptyFacts DEF GatewayQuiet
<1>4. QED
  BY <1>1, <1>2, <1>3, GatewayOrNot

-----------------------------------------------------------------------------
(* The parts of the invariant.                                             *)

LEMMA CounterStep ==
    ASSUME DeviceTypes, CounterInv, [Next]_vars
    PROVE  CounterInv'
<1> USE PathAssumption DEF DeviceTypes, CounterInv, Empty, DGoto
<1>1. CASE UNCHANGED device
  BY <1>1 DEF device
<1>2. CASE Start \/ Load \/ Connect
  BY <1>2 DEF Start, Load, Connect
<1>3. CASE Send
  BY <1>3 DEF Send, Larger
<1>4. CASE Truncate \/ Write
  BY <1>4 DEF Truncate, Write
<1>5. CASE Die
  <2>1. ~damaged' => ~damaged /\ dpc # "write"
    BY <1>5, Zenon DEF Die
  <2>2. dpc' = "down" /\ UNCHANGED <<file, sequence, sent>>
    BY <1>5 DEF Die
  <2>3. QED
    BY <2>1, <2>2
<1>6. QED
  BY <1>1, <1>2, <1>3, <1>4, <1>5, DeviceOrNot

(* The bounds OriginInv puts on a reading of the current life.             *)
Dated(r) ==
    /\ r.life <= life /\ r.seq <= sent
    /\ dpc \in {"load", "connect"} => r.life # life
    /\ dpc \in {"send", "truncate", "write"} /\ r.life = life =>
          r.seq <= sequence
    /\ ~damaged /\ dpc = "send" /\ r.life = life => sent <= sequence

LEMMA DatedStep ==
    ASSUME DeviceTypes, CounterInv, [Next]_vars, NEW r \in Reading, Dated(r)
    PROVE  Dated(r)'
<1> USE PathAssumption DEF DeviceTypes, Dated, DGoto, Reading, Lives
<1>1. CASE UNCHANGED device
  BY <1>1 DEF device
<1>2. CASE Start \/ Load \/ Connect
  BY <1>2 DEF Start, Load, Connect
<1>3. CASE Send
  BY <1>3 DEF Send, Larger
<1>4. CASE Truncate \/ Write
  BY <1>4 DEF Truncate, Write, CounterInv
<1>5. CASE Die
  BY <1>5 DEF Die
<1>6. QED
  BY <1>1, <1>2, <1>3, <1>4, <1>5, DeviceOrNot

LEMMA OriginStep ==
    ASSUME DeviceTypes, GatewayTypes, CounterInv, OriginInv, [Next]_vars
    PROVE  OriginInv'
<1>1. ASSUME NEW l \in Lives, NEW r \in Elements(chan'[l])
      PROVE  r.life = l
  <2>1. CASE Send
    BY <1>1, <2>1, SendFacts DEF OriginInv, NewReading
  <2>2. ASSUME NEW k \in Lives, AcceptReading(k) \/ RejectReplay(k)
        PROVE  r.life = l
    BY <1>1, <2>2, ReadFacts DEF OriginInv
  <2>3. CASE GatewayQuiet
    BY <1>1, <2>3, EmptyFacts DEF OriginInv, GatewayQuiet
  <2>4. QED
    BY <2>1, <2>2, <2>3, GatewayOrNot
<1>2. ASSUME NEW r \in Reading, Exists(r)' PROVE Dated(r)'
  <2>1. CASE Exists(r)
    BY <1>2, <2>1, DatedStep DEF OriginInv, Dated
  <2>2. CASE Send /\ r = NewReading
    BY <2>2, PathAssumption
    DEF Send, DGoto, NewReading, Dated, DeviceTypes, Larger
  <2>3. QED
    BY <1>2, <2>1, <2>2, NothingInvented
<1>3. QED
  BY <1>1, <1>2 DEF OriginInv, Dated

LEMMA ReadStep ==
    ASSUME DeviceTypes, GatewayTypes, OriginInv, ReadInv, [Next]_vars
    PROVE  ReadInv'
<1>1. CASE Send
  <2>1. /\ life \in Lives /\ NewReading \in Reading
        /\ UNCHANGED <<gAccepted, gRejected>> /\ dpc = "send"
    BY <1>1, SendFacts DEF gateway, Send, DGoto
  <2>2. ASSUME NEW r \in Reading, Exists(r), r.life = life
        PROVE  r.seq < NewReading.seq
    <3>1. r.seq <= sequence
      BY <2>1, <2>2 DEF OriginInv
    <3>2. QED
      BY <3>1 DEF Reading, NewReading, DeviceTypes
  <2>3. ASSUME NEW l \in Lives PROVE InOrder(chan'[l])
    <3>1. chan[l] \in Seq(Reading) /\ InOrder(chan[l])
      BY DEF GatewayTypes, ReadInv
    <3>2. \A r \in Elements(chan[l]) : r \in Reading /\ Exists(r)
      BY <3>1, ElementsTyped DEF Exists
    <3>3. NewReading.life = life
      BY DEF NewReading
    <3>4. InOrder(Append(chan[l], NewReading))
      BY <2>1, <2>2, <3>1, <3>2, <3>3, AppendOrder
    <3>5. QED
      BY <1>1, <3>1, <3>4, SendFacts
  <2>4. ASSUME NEW q \in gAccepted \cup gRejected, NEW l \in Lives,
               NEW r \in Elements(chan'[l]), q.life = r.life
        PROVE  q.seq < r.seq
    <3>1. q \in Reading /\ Exists(q)
      BY DEF GatewayTypes, Exists
    <3>2. r \in Elements(chan[l]) \/ r = NewReading
      BY <1>1, <2>4, SendFacts
    <3>3. NewReading.life = life
      BY DEF NewReading
    <3>4. QED
      BY <2>2, <2>4, <3>1, <3>2, <3>3 DEF ReadInv
  <2>5. QED
    BY <2>1, <2>3, <2>4 DEF ReadInv
<1>2. ASSUME NEW l \in Lives, AcceptReading(l) \/ RejectReplay(l)
      PROVE  ReadInv'
  <2> DEFINE m == NextMessage(l)
  <2>1. /\ InOrder(chan'[l])
        /\ \A r \in Elements(chan'[l]) : r.life = m.life => m.seq < r.seq
    <3>1. /\ chan[l] \in Seq(Reading) /\ chan[l] # <<>> /\ InOrder(chan[l])
          /\ chan'[l] = Tail(chan[l])
      BY <1>2, ReadFacts DEF ReadInv, GatewayTypes
    <3>2. QED
      BY <3>1, TailOrder DEF NextMessage
  <2>2. m.life = l
    BY <1>2, ReadFacts DEF OriginInv
  <2>3. \A k \in Lives : Elements(chan'[k]) \subseteq Elements(chan[k])
    BY <1>2, ReadFacts
  <2>4. \A k \in Lives : InOrder(chan'[k])
    BY <1>2, <2>1, ReadFacts DEF ReadInv
  <2>5. \A k \in Lives : \A r \in Elements(chan[k]) : r.life = k
    BY DEF OriginInv
  <2>6. gAccepted' \cup gRejected' = gAccepted \cup gRejected \cup {m}
    BY <1>2, ReadFacts
  <2> HIDE DEF m
  <2>7. QED
    BY <2>1, <2>2, <2>3, <2>4, <2>5, <2>6 DEF ReadInv
<1>3. CASE GatewayQuiet
  BY <1>3, EmptyFacts DEF ReadInv, GatewayQuiet
<1>4. QED
  BY <1>1, <1>2, <1>3, GatewayOrNot

(* What the guard rejects is not newer than its last reading, which is     *)
(* none of the same life, for those are all older than what is still to    *)
(* be read.                                                                *)
LEMMA GuardStep ==
    ASSUME DeviceTypes, GatewayTypes, OriginInv, ReadInv, GuardInv,
           [Next]_vars
    PROVE  GuardInv'
<1> USE DEF GuardInv, RejectionExplained
<1>1. CASE Send
  BY <1>1 DEF Send, gateway
<1>2. ASSUME NEW l \in Lives, AcceptReading(l) PROVE GuardInv'
  BY <1>2 DEF AcceptReading
<1>3. ASSUME NEW l \in Lives, RejectReplay(l) PROVE GuardInv'
  <2> DEFINE m == NextMessage(l)
  <2>1. m \in Reading /\ m \in Elements(chan[l])
    BY <1>3, ReadFacts
  <2>2. m.seq \in Nat \ {0} /\ m.seq <= gLast
    BY <1>3, <2>1 DEF RejectReplay, Passes, Reading, GatewayTypes
  <2>3. gRejected' = gRejected \cup {m} /\ UNCHANGED <<gLast, gAccepted>>
    BY <1>3 DEF RejectReplay
  <2> HIDE DEF m
  <2>4. PICK q \in gAccepted : q.seq = gLast
    BY <2>2 DEF GatewayTypes
  <2>5. q.seq >= m.seq /\ q.life # m.life
    <3>1. q.life = m.life => q.seq < m.seq
      BY <2>1 DEF ReadInv
    <3>2. QED
      BY <2>2, <2>4, <3>1 DEF GatewayTypes
  <2>6. QED
    BY <2>3, <2>4, <2>5
<1>4. CASE GatewayQuiet
  BY <1>4 DEF GatewayQuiet
<1>5. QED
  BY <1>1, <1>2, <1>3, <1>4, GatewayOrNot

LEMMA ForwardFacts ==
    ASSUME GatewayTypes, CloudTypes, NEW l \in Lives, Forward(l)
    PROVE  /\ session \in Sessions /\ holding[l] \in Reading
           /\ hpc[l] = "forward" /\ hpc'[l] = "serve"
           /\ \A k \in Lives \ {l} :
                 hpc'[k] = hpc[k] /\ holding'[k] = holding[k]
           /\ wire'[session] = Append(wire[session], holding[l])
           /\ \A s \in Sessions \ {session} : wire'[s] = wire[s]
           /\ \A s \in Sessions : \A r \in Elements(wire'[s]) :
                 r \in Elements(wire[s]) \/ r = holding[l]
           /\ UNCHANGED <<gAccepted, cLast, cAccepted, cRejected>>
<1>1. /\ session \in Sessions /\ holding[l] \in Reading
      /\ hpc[l] = "forward" /\ hpc'[l] = "serve"
      /\ \A k \in Lives \ {l} :
            hpc'[k] = hpc[k] /\ holding'[k] = holding[k]
      /\ UNCHANGED <<gAccepted, cLast, cAccepted, cRejected>>
  BY DEF Forward, GatewayTypes
<1>2. /\ wire'[session] = Append(wire[session], holding[l])
      /\ \A s \in Sessions \ {session} : wire'[s] = wire[s]
      /\ wire[session] \in Seq(Reading)
  BY <1>1 DEF Forward, CloudTypes
<1>3. \A r : r \in Elements(wire'[session]) <=>
                r \in Elements(wire[session]) \/ r = holding[l]
  BY <1>1, <1>2, AppendFacts
<1>4. QED
  BY <1>1, <1>2, <1>3

(* What Receive does to the reading at the head of a session's wire.       *)
LEMMA ReceiveFacts ==
    ASSUME CloudTypes, NEW s \in Sessions, Receive(s), InOrder(wire[s])
    PROVE  /\ Head(wire[s]) \in Reading
           /\ Head(wire[s]) \in Elements(wire[s])
           /\ \A k \in Sessions \ {s} : wire'[k] = wire[k]
           /\ Elements(wire'[s]) \subseteq Elements(wire[s])
           /\ InOrder(wire'[s])
           /\ \A r \in Elements(wire'[s]) :
                 r.life = Head(wire[s]).life => Head(wire[s]).seq < r.seq
           /\ cAccepted' \subseteq cAccepted \cup {Tagged(Head(wire[s]), s)}
           /\ UNCHANGED <<hpc, holding, gAccepted>>
<1>1. wire[s] \in Seq(Reading) /\ wire[s] # <<>>
  BY DEF Receive, CloudTypes
<1>2. wire'[s] = Tail(wire[s]) /\ \A k \in Sessions \ {s} : wire'[k] = wire[k]
  BY DEF Receive, CloudTypes
<1>3. /\ Head(wire[s]) \in Reading
      /\ Head(wire[s]) \in Elements(wire[s])
      /\ Elements(wire'[s]) \subseteq Elements(wire[s])
  BY <1>1, <1>2, TailFacts
<1>4. /\ InOrder(wire'[s])
      /\ \A r \in Elements(wire'[s]) :
            r.life = Head(wire[s]).life => Head(wire[s]).seq < r.seq
  BY <1>1, <1>2, TailOrder
<1>5. /\ cAccepted' \subseteq cAccepted \cup {Tagged(Head(wire[s]), s)}
      /\ UNCHANGED <<hpc, holding, gAccepted>>
  BY DEF Receive, gateway
<1>6. QED
  BY <1>2, <1>3, <1>4, <1>5

(* A step that is neither forwarding nor reception.                        *)
LEMMA CloudQuiet ==
    ASSUME CloudTypes, CloudRestart \/ UNCHANGED cloud
    PROVE  /\ \A s \in Sessions : wire'[s] \in {wire[s], <<>>}
           /\ cAccepted' \subseteq cAccepted
<1>1. CASE CloudRestart
  BY <1>1 DEF CloudRestart
<1>2. CASE UNCHANGED cloud
  BY <1>2 DEF cloud
<1>3. QED
  BY <1>1, <1>2

(* gAccepted never shrinks.                                                *)
LEMMA AcceptedGrows ==
    ASSUME DeviceTypes, GatewayTypes, [Next]_vars
    PROVE  gAccepted \subseteq gAccepted'
<1>1. ASSUME NEW l \in Lives, AcceptReading(l) \/ RejectReplay(l)
      PROVE  gAccepted \subseteq gAccepted'
  BY <1>1 DEF AcceptReading, RejectReplay
<1>2. CASE Send
  BY <1>2 DEF Send, gateway
<1>3. CASE GatewayQuiet
  BY <1>3 DEF GatewayQuiet
<1>4. QED
  BY <1>1, <1>2, <1>3, GatewayOrNot

LEMMA WireStep ==
    ASSUME DeviceTypes, GatewayTypes, CloudTypes, HoldInv, WireInv,
           [Next]_vars
    PROVE  WireInv'
<1>1. ASSUME NEW l \in Lives, Forward(l) PROVE WireInv'
  <2>1. /\ holding[l] \in gAccepted
        /\ \A s \in Sessions : \A r \in Elements(wire[s]) :
              r.life = holding[l].life => r.seq < holding[l].seq
        /\ \A q \in cAccepted :
              q.life = holding[l].life => q.seq < holding[l].seq
    BY <1>1, ForwardFacts DEF HoldInv
  <2>2. \A s \in Sessions : InOrder(wire'[s])
    <3>1. wire[session] \in Seq(Reading) /\ InOrder(wire[session])
      BY <1>1, ForwardFacts DEF WireInv, CloudTypes
    <3>2. InOrder(Append(wire[session], holding[l]))
      BY <1>1, <2>1, <3>1, ForwardFacts, AppendOrder
    <3>3. QED
      BY <1>1, <3>2, ForwardFacts DEF WireInv
  <2>3. /\ \A s \in Sessions : \A r \in Elements(wire'[s]) :
              r \in Elements(wire[s]) \/ r = holding[l]
        /\ UNCHANGED <<gAccepted, cAccepted>>
    BY <1>1, ForwardFacts
  <2>4. QED
    BY <2>1, <2>2, <2>3 DEF WireInv
<1>2. ASSUME NEW s \in Sessions, Receive(s) PROVE WireInv'
  <2> DEFINE r == Head(wire[s])
  <2>1. InOrder(wire[s])
    BY DEF WireInv
  <2>2. r \in gAccepted /\ [seq |-> r.seq, life |-> r.life] \in gAccepted
    <3>1. r \in gAccepted /\ r \in Reading
      BY <1>2, <2>1, ReceiveFacts DEF WireInv
    <3>2. r = [seq |-> r.seq, life |-> r.life]
      BY <3>1 DEF Reading
    <3>3. QED
      BY <3>1, <3>2
  <2>3. /\ Tagged(r, s).seq = r.seq /\ Tagged(r, s).life = r.life
        /\ Tagged(r, s).session = s
    BY DEF Tagged
  <2>4. \A k \in Sessions : \A m \in Elements(wire'[k]) :
           m \in Elements(wire[k]) /\
           (k = s /\ r.life = m.life => r.seq < m.seq)
    BY <1>2, <2>1, ReceiveFacts
  <2>5. \A k \in Sessions : InOrder(wire'[k])
    BY <1>2, <2>1, ReceiveFacts DEF WireInv
  <2>6. cAccepted' \subseteq cAccepted \cup {Tagged(r, s)}
        /\ gAccepted' = gAccepted
    BY <1>2, <2>1, ReceiveFacts
  <2> HIDE DEF r
  <2>7. QED
    BY <2>2, <2>3, <2>4, <2>5, <2>6 DEF WireInv
<1>3. CASE CloudRestart \/ UNCHANGED cloud
  BY <1>3, CloudQuiet, AcceptedGrows, EmptyFacts DEF WireInv
<1>4. QED
  BY <1>1, <1>2, <1>3, CloudOrNot

(* A thread that already held its reading goes on being right about it.    *)
LEMMA StillHolding ==
    ASSUME HoldInv, NEW k \in Lives,
           hpc[k] = "forward", holding'[k] = holding[k],
           gAccepted \subseteq gAccepted',
           \A s \in Sessions : \A r \in Elements(wire'[s]) :
              r.life = k => r \in Elements(wire[s]),
           \A q \in cAccepted' : q.life = k =>
              \/ q \in cAccepted
              \/ \E s \in Sessions : \E r \in Elements(wire[s]) :
                    r.life = k /\ r.seq = q.seq
    PROVE  /\ holding'[k] \in gAccepted'
           /\ holding'[k].life = k
           /\ \A s \in Sessions : \A r \in Elements(wire'[s]) :
                 r.life = k => r.seq < holding'[k].seq
           /\ \A q \in cAccepted' : q.life = k => q.seq < holding'[k].seq
  BY DEF HoldInv

LEMMA HoldStep ==
    ASSUME DeviceTypes, GatewayTypes, CloudTypes, OriginInv, ReadInv,
           HoldInv, WireInv, [Next]_vars
    PROVE  HoldInv'
<1>0. gAccepted \subseteq gAccepted'
  BY AcceptedGrows
<1>1. ASSUME NEW l \in Lives, AcceptReading(l) PROVE HoldInv'
  <2> DEFINE m == NextMessage(l)
  <2>1. m \in Elements(chan[l]) /\ UNCHANGED cloud
    BY <1>1, ReadFacts
  <2>2. m.life = l
    BY <2>1 DEF OriginInv
  <2>3. /\ m \in gAccepted' /\ holding'[l] = m
        /\ \A k \in Lives \ {l} :
              hpc'[k] = hpc[k] /\ holding'[k] = holding[k]
    BY <1>1 DEF AcceptReading, GatewayTypes
  <2> HIDE DEF m
  <2>4. \A q \in gAccepted : q.life = l => q.seq < m.seq
    BY <2>1, <2>2 DEF ReadInv
  <2>5. \A s \in Sessions : \A r \in Elements(wire[s]) :
           r.life = l => r.seq < m.seq
    BY <2>4 DEF WireInv
  <2>6. ASSUME NEW q \in cAccepted, q.life = l PROVE q.seq < m.seq
    BY <2>4, <2>6 DEF WireInv
  <2>7. wire' = wire /\ cAccepted' = cAccepted
    BY <2>1 DEF cloud
  <2>8. ASSUME NEW k \in Lives \ {l}, hpc'[k] = "forward"
        PROVE  /\ holding'[k] \in gAccepted'
               /\ holding'[k].life = k
               /\ \A s \in Sessions : \A r \in Elements(wire'[s]) :
                     r.life = k => r.seq < holding'[k].seq
               /\ \A q \in cAccepted' : q.life = k => q.seq < holding'[k].seq
    BY <1>0, <2>3, <2>7, <2>8, StillHolding
  <2>9. QED
    BY <2>2, <2>3, <2>5, <2>6, <2>7, <2>8 DEF HoldInv
<1>2. ASSUME NEW l \in Lives, Forward(l) PROVE HoldInv'
  <2>1. /\ hpc'[l] = "serve" /\ cAccepted' = cAccepted
        /\ \A k \in Lives \ {l} :
              hpc'[k] = hpc[k] /\ holding'[k] = holding[k]
        /\ \A s \in Sessions : \A r \in Elements(wire'[s]) :
              r \in Elements(wire[s]) \/ r = holding[l]
        /\ hpc[l] = "forward"
    BY <1>2, ForwardFacts
  <2>2. holding[l].life = l
    BY <2>1 DEF HoldInv
  <2>3. QED
    BY <1>0, <2>1, <2>2, StillHolding DEF HoldInv
<1>3. ASSUME NEW s \in Sessions, Receive(s) PROVE HoldInv'
  <2> DEFINE m == Head(wire[s])
  <2>1. InOrder(wire[s])
    BY DEF WireInv
  <2>2. /\ m \in Elements(wire[s])
        /\ \A k \in Sessions : Elements(wire'[k]) \subseteq Elements(wire[k])
        /\ cAccepted' \subseteq cAccepted \cup {Tagged(m, s)}
        /\ UNCHANGED <<hpc, holding, gAccepted>>
    BY <1>3, <2>1, ReceiveFacts
  <2>3. Tagged(m, s).seq = m.seq /\ Tagged(m, s).life = m.life
    BY DEF Tagged
  <2> HIDE DEF m
  <2>4. QED
    BY <2>2, <2>3, StillHolding DEF HoldInv
<1>4. ASSUME CloudRestart \/ UNCHANGED cloud,
             \A k \in Lives : hpc'[k] = "forward" =>
                hpc[k] = "forward" /\ holding'[k] = holding[k]
      PROVE  HoldInv'
  <2>1. /\ \A s \in Sessions : Elements(wire'[s]) \subseteq Elements(wire[s])
        /\ cAccepted' \subseteq cAccepted
    BY <1>4, CloudQuiet, EmptyFacts
  <2>2. QED
    BY <1>0, <1>4, <2>1, StillHolding DEF HoldInv
<1>5. CASE Send
  BY <1>4, <1>5, SendFacts DEF gateway
<1>6. ASSUME NEW l \in Lives, RejectReplay(l) PROVE HoldInv'
  BY <1>4, <1>6 DEF RejectReplay
<1>7. CASE GatewayQuiet /\ (CloudRestart \/ UNCHANGED cloud)
  BY <1>4, <1>7 DEF GatewayQuiet
<1>8. QED
  BY <1>1, <1>2, <1>3, <1>5, <1>6, <1>7, GatewayOrNot, CloudOrNot

(* The same argument at the cloud: what its guard rejects is no newer than *)
(* its last reading, which came another way.                               *)
LEMMA CloudStep ==
    ASSUME GatewayTypes, CloudTypes, WireInv, CloudInv, [Next]_vars
    PROVE  CloudInv'
<1> USE DEF CloudInv, OneReadingPerSequence, CloudRejectionExplained
<1>1. ASSUME NEW l \in Lives, Forward(l) PROVE CloudInv'
  BY <1>1, ForwardFacts
<1>2. ASSUME NEW s \in Sessions, Receive(s) PROVE CloudInv'
  <2> DEFINE m == Head(wire[s])
             t == Tagged(m, s)
  <2>1. m \in Reading /\ m \in Elements(wire[s])
    BY <1>2, ReceiveFacts DEF WireInv
  <2>2. /\ t.seq = m.seq /\ t.life = m.life /\ t.session = s
        /\ m.seq \in Nat \ {0} /\ cLast \in Nat
        /\ \A q \in cAccepted : q.seq \in Nat
    BY <2>1 DEF Tagged, Reading, CloudTypes, TaggedReading
  <2>3. \/ /\ m.seq > cLast /\ cLast' = m.seq
           /\ cAccepted' = cAccepted \cup {t} /\ cRejected' = cRejected
        \/ /\ ~(m.seq > cLast) /\ cRejected' = cRejected \cup {t}
           /\ cLast' = cLast /\ cAccepted' = cAccepted
    BY <1>2 DEF Receive, Passes
  <2>4. \A q \in cAccepted : q.session = s /\ q.life = m.life => q.seq < m.seq
    BY <2>1 DEF WireInv
  <2> HIDE DEF m, t
  <2>5. CASE m.seq > cLast
    BY <2>2, <2>3, <2>5
  <2>6. CASE ~(m.seq > cLast)
    <3>1. PICK q \in cAccepted : q.seq = cLast
      BY <2>2, <2>6
    <3>2. q.seq >= t.seq /\ (q.life # t.life \/ q.session # t.session)
      BY <2>2, <2>4, <2>6, <3>1
    <3>3. QED
      BY <2>3, <2>6, <3>1, <3>2
  <2>7. QED
    BY <2>5, <2>6
<1>3. CASE CloudRestart
  BY <1>3 DEF CloudRestart
<1>4. CASE UNCHANGED cloud
  BY <1>4 DEF cloud
<1>5. QED
  BY <1>1, <1>2, <1>3, <1>4, CloudOrNot

-----------------------------------------------------------------------------
(* The invariant holds before the device is first started.                 *)
LEMMA InitIInv == Init => IInv
<1> SUFFICES ASSUME Init PROVE IInv
  OBVIOUS
<1> USE PathAssumption DEF Init
<1>1. /\ \A l \in Lives : Elements(chan[l]) = {} /\ InOrder(chan[l])
      /\ \A s \in Sessions : Elements(wire[s]) = {} /\ InOrder(wire[s])
  BY EmptyFacts
<1>2. Types
  <2>1. DeviceTypes /\ OtherTypes
    <3>1. ended \in [Lives -> BOOLEAN]
      BY Zenon
    <3>2. faults \in 0 .. MaxFaults
      OBVIOUS
    <3>3. OtherTypes
      BY <3>1, <3>2, Zenon DEF OtherTypes
    <3>4. /\ dpc = "down" /\ sequence = 0 /\ file = 0 /\ life = 0 /\ sent = 0
          /\ damaged = FALSE
      OBVIOUS
    <3>5. /\ sequence \in 0 .. MaxSeq /\ sent \in 0 .. MaxSeq
          /\ file \in 0 .. Empty /\ life \in 0 .. MaxLives
      BY <3>4 DEF Empty
    <3>6. damaged \in BOOLEAN
      BY <3>4, Zenon
    <3>7. dpc \in {"down", "load", "connect", "send", "truncate", "write"}
      BY <3>4
    <3>8. DeviceTypes
      BY <3>4, <3>5, <3>6, <3>7, Zenon DEF DeviceTypes
    <3>9. QED
      BY <3>3, <3>8
  <2>2. <<>> \in Seq(Reading)
    OBVIOUS
  <2>3. GatewayTypes
    BY <2>2 DEF GatewayTypes, Sessions
  <2>4. CloudTypes
    BY <2>2 DEF CloudTypes
  <2>5. QED
    BY <2>1, <2>3, <2>4 DEF Types
<1>3. CounterInv
  BY DEF CounterInv, Empty
<1>4. OriginInv /\ ReadInv
  BY <1>1 DEF OriginInv, ReadInv, Exists
<1>5. GuardInv /\ CloudInv
  BY DEF GuardInv, CloudInv, RejectionExplained, CloudRejectionExplained,
         OneReadingPerSequence
<1>6. HoldInv /\ WireInv
  BY <1>1 DEF HoldInv, WireInv
<1>7. QED
  BY <1>2, <1>3, <1>4, <1>5, <1>6 DEF IInv

(* The invariant is inductive: the lemmas above, one per part.             *)
LEMMA NextIInv == IInv /\ [Next]_vars => IInv'
<1> SUFFICES ASSUME IInv, [Next]_vars PROVE IInv'
  OBVIOUS
<1>1. /\ DeviceTypes /\ GatewayTypes /\ CloudTypes /\ Types /\ CounterInv
      /\ OriginInv /\ ReadInv /\ GuardInv /\ HoldInv /\ WireInv /\ CloudInv
  BY DEF IInv, Types
<1>2. Types' /\ CounterInv'
  BY <1>1, TypeStep, CounterStep
<1>3. OriginInv' /\ ReadInv' /\ GuardInv'
  BY <1>1, OriginStep, ReadStep, GuardStep
<1>4. HoldInv' /\ WireInv' /\ CloudInv'
  BY <1>1, HoldStep, WireStep, CloudStep
<1>5. QED
  BY <1>2, <1>3, <1>4 DEF IInv

(* Hence it holds in every state of every execution.                       *)
LEMMA Inductive == Spec => []IInv
  BY InitIInv, NextIInv, PTL DEF Spec

-----------------------------------------------------------------------------
(* Every variable of the path keeps its type, for any bounds.              *)
THEOREM TypeCorrect == Spec => []TypeOK
<1>1. IInv => TypeOK
  BY DEF IInv, Types, DeviceTypes, GatewayTypes, CloudTypes, OtherTypes,
         TaggedReading, TypeOK
<1>2. QED
  BY <1>1, Inductive, PTL

(* A device with an intact counter file loses at most its first reading    *)
(* after a restart to the replay guards (device.py:66-72, replay.py:23-29):*)
(* both guards only know numbers that were sent, and the file trails those *)
(* by one at most.                                                         *)
THEOREM NeverWedged == Spec => []NoWedge
<1>1. ASSUME IInv, ~damaged, dpc = "send" PROVE NoWedge
  <2>1. /\ file = sequence /\ sent <= sequence + 1
        /\ sequence \in Nat /\ sent \in Nat /\ gLast \in Nat /\ cLast \in Nat
        /\ gAccepted \subseteq Reading /\ gRejected \subseteq Reading
    BY <1>1 DEF IInv, Types, DeviceTypes, GatewayTypes, CloudTypes, CounterInv
  <2>2. \A r \in Reading : Exists(r) =>
           r.seq <= sent /\ (r.life = life => sent <= sequence)
    BY <1>1 DEF IInv, OriginInv
  <2>3. gLast <= sent
    <3>1. CASE gLast = 0
      BY <2>1, <3>1
    <3>2. CASE gLast # 0
      <4>1. PICK q \in gAccepted : q.seq = gLast
        BY <1>1, <3>2 DEF IInv, GuardInv
      <4>2. q \in Reading /\ Exists(q)
        BY <2>1 DEF Exists
      <4>3. QED
        BY <2>2, <4>1, <4>2
    <3>3. QED
      BY <3>1, <3>2
  <2>4. cLast <= sent
    <3>1. CASE cLast = 0
      BY <2>1, <3>1
    <3>2. CASE cLast # 0
      <4>1. PICK q \in cAccepted : q.seq = cLast
        BY <1>1, <3>2 DEF IInv, CloudInv
      <4> DEFINE r == [seq |-> q.seq, life |-> q.life]
      <4>2. r \in gAccepted /\ r.seq = cLast
        BY <1>1, <4>1 DEF IInv, WireInv
      <4>3. r \in Reading /\ Exists(r)
        BY <2>1, <4>2 DEF Exists
      <4> HIDE DEF r
      <4>4. QED
        BY <2>2, <4>2, <4>3
    <3>3. QED
      BY <3>1, <3>2
  <2>5. ASSUME NEW r \in gAccepted \cup gRejected, r.life = life
        PROVE  sent <= sequence
    BY <2>1, <2>2, <2>5 DEF Exists
  <2>6. QED
    BY <2>1, <2>3, <2>4, <2>5 DEF NoWedge
<1>2. IInv => NoWedge
  BY <1>1 DEF NoWedge
<1>3. QED
  BY <1>2, Inductive, PTL

(* The gateway rejects a genuine reading only when another life of the     *)
(* device has overtaken it (gateway.py:138), however many lives there are. *)
THEOREM OnlyOvertakenRejected == Spec => []RejectionExplained
<1>1. IInv => RejectionExplained
  BY DEF IInv, GuardInv
<1>2. QED
  BY <1>1, Inductive, PTL

(* The cloud rejects a forwarded reading only when one of another life or  *)
(* over another session has overtaken it (cloud.py:190).                   *)
THEOREM OnlyOvertakenRejectedAtCloud == Spec => []CloudRejectionExplained
<1>1. IInv => CloudRejectionExplained
  BY DEF IInv, CloudInv
<1>2. QED
  BY <1>1, Inductive, PTL

(* While the cloud runs it takes one reading per sequence number, even if  *)
(* device and gateway have restarted and reused numbers.                   *)
THEOREM OnePerSequence == Spec => []OneReadingPerSequence
<1>1. IInv => OneReadingPerSequence
  BY DEF IInv, CloudInv
<1>2. QED
  BY <1>1, Inductive, PTL

-----------------------------------------------------------------------------
(* The path implements ReadingLog.                                         *)

(* AcceptReading takes, Receive records what it accepts, CloudRestart      *)
(* starts the log again; no other step is seen by the abstract log.        *)
LEMMA LogStep ==
    ASSUME IInv, [Next]_vars
    PROVE  [Log!Next]_(Log!vars)
<1> DEFINE L == {Untagged(r) : r \in cAccepted}
           Quiet == UNCHANGED <<gAccepted, cAccepted>>
<1> USE DEF Log!vars
<1>1. /\ DeviceTypes /\ GatewayTypes /\ CloudTypes
      /\ WireInv /\ CloudInv
  BY DEF IInv, Types
<1>2. ASSUME NEW l \in Lives, AcceptReading(l) PROVE Log!Next
  <2>1. NextMessage(l) \in Reading
    BY <1>1, <1>2, ReadFacts
  <2>2. gAccepted' = gAccepted \cup {NextMessage(l)} /\ cAccepted' = cAccepted
    BY <1>2 DEF AcceptReading, cloud
  <2>3. QED
    BY <2>1, <2>2 DEF Log!Next, Log!Take
<1>3. ASSUME NEW s \in Sessions, Receive(s) PROVE Log!Next \/ Quiet
  <2> DEFINE m == Head(wire[s])
             t == Tagged(m, s)
  <2>1. m \in Reading /\ m \in gAccepted
    BY <1>1, <1>3, ReceiveFacts DEF WireInv
  <2>2. gAccepted' = gAccepted
    BY <1>1, <1>3, ReceiveFacts DEF WireInv
  <2>3. \/ /\ m.seq > cLast
           /\ cAccepted' = cAccepted \cup {t}
        \/ cAccepted' = cAccepted
    BY <1>3 DEF Receive, Passes
  <2>4. Untagged(t) = m
    BY <2>1 DEF Untagged, Tagged, Reading
  <2>5. \A q \in L : q.seq \in Nat /\ q.seq <= cLast
    BY <1>1 DEF CloudInv, Untagged, CloudTypes, TaggedReading
  <2>6. m.seq \in Nat /\ cLast \in Nat
    BY <1>1, <2>1 DEF Reading, CloudTypes
  <2> HIDE DEF m, t
  <2>7. ASSUME m.seq > cLast, cAccepted' = cAccepted \cup {t}
        PROVE  Log!Next
    <3>1. L' = L \cup {m}
      BY <2>4, <2>7
    <3>2. \A q \in L : q.seq < m.seq
      BY <2>5, <2>6, <2>7
    <3>3. QED
      BY <2>1, <2>2, <3>1, <3>2 DEF Log!Next, Log!Record
  <2>8. QED
    BY <2>2, <2>3, <2>7
<1>4. CASE CloudRestart
  <2>1. gAccepted' = gAccepted /\ cAccepted' = {}
    BY <1>4 DEF CloudRestart, gateway
  <2>2. QED
    BY <2>1 DEF Log!Next, Log!Restart
<1>5. ASSUME Start \/ Load \/ Connect \/ Send \/ Truncate \/ Write \/ Die
      PROVE  Quiet
  BY <1>5 DEF Start, Load, Connect, Send, Truncate, Write, Die, gateway, cloud
<1>6. ASSUME NEW l \in Lives,
             RejectReplay(l) \/ Forward(l) \/ ForwardIsLost(l) \/
             EndHandler(l)
      PROVE  Quiet
  BY <1>6 DEF RejectReplay, Forward, ForwardIsLost, EndHandler, cloud
<1>7. ASSUME GatewayRestart \/ NewSession PROVE Quiet
  BY <1>7 DEF GatewayRestart, NewSession, gateway, cloud
<1>8. ASSUME UNCHANGED vars PROVE Quiet
  BY <1>8 DEF vars, gateway, cloud
<1>9. QED
  BY <1>2, <1>3, <1>4, <1>5, <1>6, <1>7, <1>8 DEF Next

(* For any bounds, the cloud's log grows in order and only by readings the *)
(* gateway accepted, whatever restarts, crashes and overtakes.             *)
THEOREM PathImplementsLog == Spec => ImplementsLog
<1>1. Init => Log!Init
  BY DEF Init, Log!Init
<1>2. IInv /\ [Next]_vars => [Log!Next]_(Log!vars)
  BY LogStep
<1>3. QED
  BY <1>1, <1>2, Inductive, PTL DEF Spec, ImplementsLog, Log!Spec
=============================================================================
