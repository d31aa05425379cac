---------------------------- MODULE CommonProofs ----------------------------
(***************************************************************************)
(* Proofs about src/common, on which every connection of the system rests: *)
(* the framing of messages (Framing) and the registries of keys            *)
(* (Credentials), for any values of their constants.                       *)
(*                                                                         *)
(* Framing.  Where the reader stands and where the writer stands are places*)
(* in the sequence of all bytes of all messages; the bytes on the wire lead*)
(* from the one to the other without a gap.                                *)
(*                                                                         *)
(* Credentials, from KeyInv on.  The history of a connection holds every   *)
(* registry in force between its hello and the verdict; a lookup that finds*)
(* a complete document finds one of these.                                 *)
(***************************************************************************)
EXTENDS Framing, Credentials, Integers, SequenceTheorems, TLAPS

Place(b) == <<b.of, b.at>>
After(b) == IF b.newline THEN <<b.of + 1, 1>> ELSE <<b.of, b.at + 1>>

(* The byte is one of a message that was encoded.                          *)
Encoded(b) ==
    /\ b.of \in 1 .. Len(sent)
    /\ b.at \in 1 .. sent[b.of].size
    /\ b.newline <=> b.at = sent[b.of].size

(* Where the reader stands, and where the writer stands.                   *)
ReadPlace  == IF line = <<>> THEN <<Len(got) + 1, 1>>
                             ELSE After(line[Len(line)])
WritePlace == IF rest = <<>> THEN <<Len(sent) + 1, 1>> ELSE Place(rest[1])

(* The line is the beginning of the next message.                          *)
LineInv ==
    line # <<>> =>
        /\ Len(got) < Len(sent)
        /\ Len(line) <= NextSent.size
        /\ \A k \in 1 .. Len(line) :
              line[k] = LineOf(Len(got) + 1, NextSent)[k]

(* What is still to be written is the end of the last message.             *)
RestInv ==
    rest # <<>> =>
        /\ Len(sent) > 0
        /\ Len(rest) <= sent[Len(sent)].size
        /\ \A k \in 1 .. Len(rest) :
              rest[k] = [of      |-> Len(sent),
                         at      |-> sent[Len(sent)].size - Len(rest) + k,
                         newline |-> k = Len(rest)]

(* The bytes on the wire lead from the reader to the writer.               *)
WireInv ==
    /\ \A k \in 1 .. Len(wire) : Encoded(wire[k])
    /\ \A k \in 1 .. Len(wire) - 1 : Place(wire[k + 1]) = After(wire[k])
    /\ wire = <<>> => ReadPlace = WritePlace
    /\ wire # <<>> =>
          /\ Place(wire[1]) = ReadPlace
          /\ After(wire[Len(wire)]) = WritePlace

(* How the reader ended says what it had.                                  *)
OutcomeInv ==
    /\ outcome = "closed" => line = <<>> /\ AtEnd
    /\ outcome = "oversized" => line # <<>> /\ Oversized
    /\ outcome = "truncated" => line # <<>> /\ ~Newline(line) /\ AtEnd
    /\ outcome = "invalid" =>
          line # <<>> /\ ~Oversized /\ Newline(line) /\ ~Parses

IInv ==
    /\ TypeOK
    /\ Faithful
    /\ LineInv
    /\ RestInv
    /\ WireInv
    /\ OutcomeInv

-----------------------------------------------------------------------------
(* Sequences of bytes, as the actions build them.                          *)
LEMMA Nonempty ==
    ASSUME NEW S, NEW s \in Seq(S)
    PROVE  /\ Len(s) \in Nat
           /\ s # <<>> <=> Len(s) > 0
           /\ \A i \in 1 .. Len(s) : s[i] \in S
OBVIOUS

LEMMA Rest ==
    ASSUME NEW S, NEW s \in Seq(S), s # <<>>
    PROVE  /\ Head(s) = s[1] /\ s[1] \in S
           /\ Tail(s) \in Seq(S)
           /\ Len(Tail(s)) = Len(s) - 1
           /\ \A i \in 1 .. Len(s) - 1 : Tail(s)[i] = s[i + 1]
BY HeadTailProperties

(* A sequence cut in two.                                                  *)
LEMMA Cut ==
    ASSUME NEW S, NEW s \in Seq(S), NEW n \in 1 .. Len(s)
    PROVE  /\ SubSeq(s, 1, n) \in Seq(S)
           /\ Len(SubSeq(s, 1, n)) = n
           /\ \A i \in 1 .. n : SubSeq(s, 1, n)[i] = s[i]
           /\ SubSeq(s, n + 1, Len(s)) \in Seq(S)
           /\ Len(SubSeq(s, n + 1, Len(s))) = Len(s) - n
           /\ \A i \in 1 .. Len(s) - n :
                 SubSeq(s, n + 1, Len(s))[i] = s[n + i]
<1>1. \A i \in 1 .. Len(s) : s[i] \in S
  BY Nonempty
<1>2. Len(s) \in Nat /\ n \in Int /\ n <= Len(s) /\ 1 <= n
  OBVIOUS
<1>3. /\ SubSeq(s, 1, n) \in Seq(S)
      /\ Len(SubSeq(s, 1, n)) = n
      /\ \A i \in 1 .. n : SubSeq(s, 1, n)[i] = s[i]
  <2>1. \A i \in 1 .. n : s[i] \in S
    BY <1>1, <1>2
  <2>2. QED
    BY <1>2, <2>1, SubSeqProperties
<1>4. /\ SubSeq(s, n + 1, Len(s)) \in Seq(S)
      /\ Len(SubSeq(s, n + 1, Len(s))) = Len(s) - n
      /\ \A i \in 1 .. Len(s) - n :
            SubSeq(s, n + 1, Len(s))[i] = s[n + i]
  <2>1. \A i \in n + 1 .. Len(s) : s[i] \in S
    BY <1>1, <1>2
  <2>2. n + 1 \in Int /\ Len(s) \in Int
    BY <1>2
  <2>3. /\ SubSeq(s, n + 1, Len(s)) \in Seq(S)
        /\ Len(SubSeq(s, n + 1, Len(s))) =
              IF n + 1 <= Len(s) THEN Len(s) - (n + 1) + 1 ELSE 0
        /\ \A i \in 1 .. Len(s) - (n + 1) + 1 :
              SubSeq(s, n + 1, Len(s))[i] = s[n + 1 + i - 1]
    BY <2>1, <2>2, SubSeqProperties
  <2>4. QED
    BY <1>2, <2>3
<1>5. QED
  BY <1>3, <1>4

(* The first part of a sequence moved to the end of another one.           *)
LEMMA Moved ==
    ASSUME NEW S, NEW s \in Seq(S), NEW t \in Seq(S), NEW n \in 1 .. Len(t)
    PROVE  /\ s \o SubSeq(t, 1, n) \in Seq(S)
           /\ Len(s \o SubSeq(t, 1, n)) = Len(s) + n
           /\ \A i \in 1 .. Len(s) : (s \o SubSeq(t, 1, n))[i] = s[i]
           /\ \A i \in 1 .. n : (s \o SubSeq(t, 1, n))[Len(s) + i] = t[i]
<1> DEFINE p == SubSeq(t, 1, n)
<1>1. p \in Seq(S) /\ Len(p) = n /\ \A i \in 1 .. n : p[i] = t[i]
  BY Cut
<1> HIDE DEF p
<1>2. p \in Seq(S)
  BY <1>1
<1>3. /\ s \o p \in Seq(S)
      /\ Len(s \o p) = Len(s) + Len(p)
      /\ \A i \in 1 .. Len(s) : (s \o p)[i] = s[i]
      /\ \A i \in 1 .. Len(p) : (s \o p)[Len(s) + i] = p[i]
  BY <1>2, ConcatProperties
<1>4. /\ Len(s \o p) = Len(s) + n
      /\ \A i \in 1 .. n : (s \o p)[Len(s) + i] = t[i]
  BY <1>1, <1>3
<1>5. QED
  BY <1>3, <1>4 DEF p

(* The line of a message.                                                  *)
LEMMA LineFacts ==
    ASSUME NEW i \in 1 .. MaxMessages, NEW m \in Message
    PROVE  /\ m.size \in 1 .. MaxSize
           /\ LineOf(i, m) \in Seq(Byte)
           /\ Len(LineOf(i, m)) = m.size
           /\ LineOf(i, m) # <<>>
           /\ Place(LineOf(i, m)[1]) = <<i, 1>>
           /\ \A k \in 1 .. m.size :
                 LineOf(i, m)[k] = [of |-> i, at |-> k, newline |-> k = m.size]
<1>1. m.size \in 1 .. MaxSize /\ m.size \in Nat
  BY FramingAssumption DEF Message
<1>2. LineOf(i, m) \in [1 .. m.size -> Byte]
  BY <1>1, FramingAssumption DEF LineOf, Byte
<1>3. LineOf(i, m)[1] = [of |-> i, at |-> 1, newline |-> 1 = m.size]
  BY <1>1 DEF LineOf
<1>4. Place(LineOf(i, m)[1]) = <<i, 1>>
  <2> DEFINE b == [of |-> i, at |-> 1, newline |-> 1 = m.size]
  <2>1. b.of = i /\ b.at = 1
    OBVIOUS
  <2> HIDE DEF b
  <2>2. LineOf(i, m)[1] = b
    BY <1>3 DEF b
  <2>3. QED
    BY <2>1, <2>2 DEF Place
<1>5. QED
  BY <1>1, <1>2, <1>4 DEF LineOf

-----------------------------------------------------------------------------
(* What the invariant says of a line that is not empty.                    *)
LEMMA ReaderFacts ==
    ASSUME TypeOK, LineInv, line # <<>>
    PROVE  /\ Len(got) + 1 \in 1 .. Len(sent)
           /\ Len(got) + 1 \in 1 .. MaxMessages
           /\ NextSent \in Message
           /\ NextSent.size \in 1 .. MaxSize
           /\ Len(line) \in 1 .. NextSent.size
           /\ \A k \in 1 .. Len(line) :
                 line[k] = [of      |-> Len(got) + 1,
                            at      |-> k,
                            newline |-> k = NextSent.size]
           /\ Newline(line) <=> Len(line) = NextSent.size
           /\ line[1].of = Len(got) + 1
           /\ ReadPlace = IF Newline(line) THEN <<Len(got) + 2, 1>>
                          ELSE <<Len(got) + 1, Len(line) + 1>>
<1>1. Len(got) \in Nat /\ Len(sent) \in Nat /\ Len(line) \in Nat \ {0}
  BY DEF TypeOK
<1>2. /\ Len(got) + 1 \in 1 .. Len(sent)
      /\ Len(got) + 1 \in 1 .. MaxMessages
  BY <1>1, FramingAssumption DEF LineInv, TypeOK
<1>3. NextSent \in Message
  BY <1>2, ElementOfSeq DEF NextSent, TypeOK
<1>4. NextSent.size \in 1 .. MaxSize /\ NextSent.size \in Nat
  BY <1>2, <1>3, LineFacts
<1>5. Len(line) \in 1 .. NextSent.size
  BY <1>1, <1>4 DEF LineInv
<1>6. \A k \in 1 .. Len(line) :
         line[k] = [of      |-> Len(got) + 1,
                    at      |-> k,
                    newline |-> k = NextSent.size]
  BY <1>2, <1>3, <1>4, <1>5, LineFacts DEF LineInv
<1>7. \A k \in 1 .. Len(line) :
         /\ line[k].of = Len(got) + 1
         /\ line[k].at = k
         /\ line[k].newline <=> k = NextSent.size
  <2>1. ASSUME NEW k \in 1 .. Len(line)
        PROVE  /\ line[k].of = Len(got) + 1
               /\ line[k].at = k
               /\ line[k].newline = (k = NextSent.size)
    <3> DEFINE b == [of      |-> Len(got) + 1,
                     at      |-> k,
                     newline |-> k = NextSent.size]
    <3>1. /\ b.of = Len(got) + 1
          /\ b.at = k
          /\ b.newline = (k = NextSent.size)
      OBVIOUS
    <3>2. line[k] = b
      BY <1>6
    <3> HIDE DEF b
    <3>3. QED
      BY <3>1, <3>2
  <2>2. QED
    BY <2>1
<1>8. 1 \in 1 .. Len(line) /\ Len(line) \in 1 .. Len(line)
  BY <1>1
<1>9. Newline(line) <=> Len(line) = NextSent.size
  BY <1>7, <1>8 DEF Newline
<1>10. ReadPlace = IF Newline(line) THEN <<Len(got) + 2, 1>>
                   ELSE <<Len(got) + 1, Len(line) + 1>>
  <2>1. After(line[Len(line)]) =
           IF Newline(line)
           THEN <<Len(got) + 1 + 1, 1>> ELSE <<Len(got) + 1, Len(line) + 1>>
    BY <1>7, <1>8, <1>9 DEF After
  <2>2. QED
    BY <1>1, <2>1 DEF ReadPlace
<1>11. QED
  BY <1>2, <1>3, <1>4, <1>5, <1>6, <1>7, <1>8, <1>9, <1>10

(* Encoding another message leaves the earlier ones as they are.           *)
LEMMA EncodeFacts ==
    ASSUME TypeOK, Encode
    PROVE  \E m \in Message :
              /\ sent' = Append(sent, m)
              /\ rest' = LineOf(Len(sent) + 1, m)
              /\ Len(sent) + 1 \in 1 .. MaxMessages
              /\ Len(sent') = Len(sent) + 1
              /\ sent' \in Seq(Message)
              /\ sent'[Len(sent) + 1] = m
              /\ \A i \in 1 .. Len(sent) : sent'[i] = sent[i]
<1>1. PICK m \in Message : /\ sent' = Append(sent, m)
                           /\ rest' = LineOf(Len(sent) + 1, m)
  BY DEF Encode
<1>2. Len(sent) + 1 \in 1 .. MaxMessages
  BY FramingAssumption DEF Encode, TypeOK
<1>3. QED
  BY <1>1, <1>2, AppendProperties DEF TypeOK

LEMMA TypeStep ==
    ASSUME TypeOK, [Next]_vars
    PROVE  TypeOK'
<1> USE FramingAssumption
<1>1. CASE Encode
  <2>1. PICK m \in Message : /\ rest' = LineOf(Len(sent) + 1, m)
                             /\ Len(sent) + 1 \in 1 .. MaxMessages
                             /\ Len(sent') = Len(sent) + 1
                             /\ sent' \in Seq(Message)
    BY <1>1, EncodeFacts
  <2>2. rest' \in Seq(Byte)
    BY <2>1, LineFacts
  <2>3. QED
    BY <1>1, <2>1, <2>2 DEF Encode, TypeOK
<1>2. CASE Deliver
  <2>1. PICK n \in 1 .. Len(rest) :
           /\ wire' = wire \o SubSeq(rest, 1, n)
           /\ rest' = SubSeq(rest, n + 1, Len(rest))
    BY <1>2 DEF Deliver
  <2>2. rest' \in Seq(Byte) /\ wire' \in Seq(Byte)
    BY <2>1, Cut, Moved DEF TypeOK
  <2>3. QED
    BY <1>2, <2>2 DEF Deliver, TypeOK
<1>3. CASE Leave
  BY <1>3 DEF Leave, TypeOK
<1>4. CASE Readline
  <2>1. Head(wire) \in Byte /\ wire' \in Seq(Byte)
    BY <1>4, Rest DEF Readline, TypeOK
  <2>2. line' \in Seq(Byte) /\ Len(line') = Len(line) + 1
    BY <1>4, <2>1, AppendProperties DEF Readline, TypeOK
  <2>3. Len(line) \in Nat /\ Len(line) # MAX_MESSAGE_BYTES + 1
    BY <1>4 DEF Readline, LineRead, TypeOK
  <2>4. QED
    BY <1>4, <2>1, <2>2, <2>3 DEF Readline, TypeOK
<1>5. CASE ReturnMessage
  <2>1. got' \in Seq(Seq(Byte))
    BY <1>5, AppendProperties DEF ReturnMessage, TypeOK
  <2>2. line' \in Seq(Byte) /\ Len(line') = 0
    BY <1>5 DEF ReturnMessage
  <2>3. QED
    BY <1>5, <2>1, <2>2 DEF ReturnMessage, TypeOK
<1>6. CASE RaiseClosed \/ RaiseOversized \/ RaiseTruncated \/ RaiseInvalid
           \/ SocketFails
  BY <1>6 DEF RaiseClosed, RaiseOversized, RaiseTruncated, RaiseInvalid,
     SocketFails, Raise, TypeOK, Outcomes
<1>7. CASE UNCHANGED vars
  BY <1>7 DEF vars, TypeOK
<1>8. QED
  BY <1>1, <1>2, <1>3, <1>4, <1>5, <1>6, <1>7 DEF Next, Reader

-----------------------------------------------------------------------------
(* What is still to be written, byte by byte.                              *)
LEMMA RestFacts ==
    ASSUME TypeOK, RestInv, NEW n \in 1 .. Len(rest)
    PROVE  /\ Len(sent) \in 1 .. Len(sent)
           /\ sent[Len(sent)].size \in 1 .. MaxSize
           /\ rest[n] \in Byte
           /\ rest[n].of = Len(sent)
           /\ rest[n].at = sent[Len(sent)].size - Len(rest) + n
           /\ Encoded(rest[n])
           /\ After(rest[n]) = IF n = Len(rest) THEN <<Len(sent) + 1, 1>>
                               ELSE Place(rest[n + 1])
<1> USE FramingAssumption
<1> DEFINE last == sent[Len(sent)]
<1>1. rest # <<>> /\ Len(rest) \in Nat /\ Len(sent) \in Nat
  BY DEF TypeOK
<1>2. Len(sent) \in 1 .. Len(sent) /\ Len(sent) \in 1 .. MaxMessages
  BY <1>1 DEF RestInv, TypeOK
<1>3. last.size \in 1 .. MaxSize /\ last.size \in Nat
  <2>1. last \in Message
    BY <1>2, ElementOfSeq DEF TypeOK
  <2>2. QED
    BY <1>2, <2>1, LineFacts
<1>4. ASSUME NEW k \in 1 .. Len(rest)
      PROVE  /\ rest[k].of = Len(sent)
             /\ rest[k].at = last.size - Len(rest) + k
             /\ rest[k].newline = (k = Len(rest))
  <2> DEFINE b == [of      |-> Len(sent),
                   at      |-> last.size - Len(rest) + k,
                   newline |-> k = Len(rest)]
  <2>1. /\ b.of = Len(sent)
        /\ b.at = last.size - Len(rest) + k
        /\ b.newline = (k = Len(rest))
    OBVIOUS
  <2>2. rest[k] = b
    BY <1>1 DEF RestInv
  <2> HIDE DEF b
  <2>3. QED
    BY <2>1, <2>2
<1>5. rest[n] \in Byte
  BY ElementOfSeq DEF TypeOK
<1>6. Len(rest) <= last.size
  BY <1>1 DEF RestInv
<1> HIDE DEF last
<1>7. rest[n].newline <=> n = Len(rest)
  BY <1>4
<1>8. /\ rest[n].at \in 1 .. last.size
      /\ n = Len(rest) <=> rest[n].at = last.size
  BY <1>1, <1>3, <1>4, <1>6
<1>9. Encoded(rest[n])
  <2>1. rest[n].newline <=> rest[n].at = last.size
    BY <1>7, <1>8
  <2>2. QED
    BY <1>2, <1>4, <1>8, <2>1 DEF Encoded, last
<1>10. After(rest[n]) = IF n = Len(rest) THEN <<Len(sent) + 1, 1>>
                        ELSE Place(rest[n + 1])
  <2>1. CASE n = Len(rest)
    BY <1>4, <1>7, <2>1 DEF After
  <2>2. CASE n # Len(rest)
    <3>1. n + 1 \in 1 .. Len(rest)
      BY <1>1, <2>2
    <3>2. rest[n + 1].of = rest[n].of /\ rest[n + 1].at = rest[n].at + 1
      <4>1. /\ rest[n].of = Len(sent)
            /\ rest[n].at = last.size - Len(rest) + n
        BY <1>4
      <4>2. /\ rest[n + 1].of = Len(sent)
            /\ rest[n + 1].at = last.size - Len(rest) + (n + 1)
        BY <1>4, <3>1
      <4>3. last.size - Len(rest) + (n + 1) = (last.size - Len(rest) + n) + 1
        BY <1>1, <1>3, SMTT(30)
      <4>4. QED
        BY <4>1, <4>2, <4>3
    <3>3. QED
      BY <1>7, <2>2, <3>2 DEF After, Place
  <2>3. QED
    BY <2>1, <2>2
<1>11. QED
  BY <1>2, <1>3, <1>4, <1>5, <1>9, <1>10 DEF last

(* A line that ends in a newline is the whole line of the next message.    *)
LEMMA WholeLine ==
    ASSUME TypeOK, LineInv, line # <<>>, Newline(line)
    PROVE  line = LineOf(Len(got) + 1, NextSent)
<1>1. /\ Len(got) + 1 \in 1 .. MaxMessages
      /\ NextSent \in Message
      /\ Len(line) = NextSent.size
      /\ \A k \in 1 .. Len(line) : line[k] = LineOf(Len(got) + 1, NextSent)[k]
  BY ReaderFacts DEF LineInv
<1>2. /\ LineOf(Len(got) + 1, NextSent) \in Seq(Byte)
      /\ Len(LineOf(Len(got) + 1, NextSent)) = Len(line)
  BY <1>1, LineFacts
<1>3. QED
  BY <1>1, <1>2, SeqEqual DEF TypeOK

LEMMA FaithfulStep ==
    ASSUME TypeOK, Faithful, LineInv, [Next]_vars
    PROVE  Faithful'
<1>1. Len(got) \in Nat /\ Len(sent) \in Nat
  BY DEF TypeOK
<1>2. CASE Encode
  <2>1. /\ Len(sent') = Len(sent) + 1
        /\ \A i \in 1 .. Len(sent) : sent'[i] = sent[i]
    BY <1>2, EncodeFacts
  <2>2. got' = got
    BY <1>2 DEF Encode
  <2>3. QED
    BY <1>1, <2>1, <2>2 DEF Faithful, LineOf
<1>3. CASE ReturnMessage
  <2>1. /\ line # <<>> /\ Newline(line)
        /\ got' = Append(got, line) /\ sent' = sent
    BY <1>3 DEF ReturnMessage, Examine
  <2>2. line = LineOf(Len(got) + 1, sent[Len(got) + 1])
    BY <2>1, WholeLine DEF NextSent
  <2>3. /\ Len(got') = Len(got) + 1
        /\ \A i \in 1 .. Len(got) : got'[i] = got[i]
        /\ got'[Len(got) + 1] = line
    BY <2>1, AppendProperties DEF TypeOK
  <2>4. Len(got) < Len(sent)
    BY <2>1 DEF LineInv
  <2>5. ASSUME NEW i \in 1 .. Len(got')
        PROVE  got'[i] = LineOf(i, sent'[i])
    <3>1. i \in 1 .. Len(got) \/ i = Len(got) + 1
      BY <1>1, <2>3
    <3>2. QED
      BY <2>1, <2>2, <2>3, <3>1 DEF Faithful
  <2>6. Len(got') <= Len(sent')
    BY <1>1, <2>1, <2>3, <2>4
  <2>7. QED
    BY <2>5, <2>6 DEF Faithful, LineOf
<1>4. CASE UNCHANGED <<sent, got>>
  BY <1>4 DEF Faithful, LineOf
<1>5. QED
  BY <1>2, <1>3, <1>4 DEF Next, Reader, Deliver, Leave, Readline,
     RaiseClosed, RaiseOversized, RaiseTruncated, RaiseInvalid, SocketFails,
     Raise, vars

(* A byte stays one of an encoded message when another one is encoded.     *)
LEMMA EncodedStable ==
    ASSUME TypeOK, Encode, NEW b, Encoded(b)
    PROVE  Encoded(b)'
<1>1. /\ Len(sent') = Len(sent) + 1
      /\ \A i \in 1 .. Len(sent) : sent'[i] = sent[i]
  BY EncodeFacts
<1>2. Len(sent) \in Nat
  BY DEF TypeOK
<1>3. b.of \in 1 .. Len(sent')
  BY <1>1, <1>2 DEF Encoded
<1>4. QED
  BY <1>1, <1>3 DEF Encoded

LEMMA LineStep ==
    ASSUME TypeOK, Faithful, LineInv, WireInv, [Next]_vars
    PROVE  LineInv'
<1>1. Len(got) \in Nat /\ Len(sent) \in Nat /\ Len(line) \in Nat
  BY DEF TypeOK
<1>2. CASE Encode
  <2>1. /\ Len(sent') = Len(sent) + 1
        /\ \A i \in 1 .. Len(sent) : sent'[i] = sent[i]
    BY <1>2, EncodeFacts
  <2>2. line' = line /\ got' = got
    BY <1>2 DEF Encode
  <2>3. SUFFICES ASSUME line # <<>>
                 PROVE  LineInv'
    BY <2>2 DEF LineInv
  <2>4. Len(got) < Len(sent') /\ sent'[Len(got) + 1] = sent[Len(got) + 1]
    BY <1>1, <2>1, <2>3 DEF LineInv
  <2>5. QED
    BY <2>2, <2>3, <2>4 DEF LineInv, NextSent, LineOf
<1>3. CASE Readline
  <2> DEFINE b == wire[1]
  <2>1. /\ wire # <<>> /\ ~LineRead
        /\ line' = Append(line, b)
        /\ UNCHANGED <<sent, got>>
    BY <1>3, Rest DEF Readline, TypeOK
  <2>2. 1 \in 1 .. Len(wire) /\ b \in Byte
    BY <2>1, Nonempty DEF TypeOK
  <2>3. Encoded(b) /\ Place(b) = ReadPlace
    BY <2>1, <2>2 DEF WireInv
  <2>4. /\ line' # <<>>
        /\ Len(line') = Len(line) + 1
        /\ \A k \in 1 .. Len(line) : line'[k] = line[k]
        /\ line'[Len(line) + 1] = b
    BY <2>1, <2>2, AppendProperties DEF TypeOK
  <2>5. b.of = Len(got) + 1 /\ b.at = Len(line) + 1
    <3>1. CASE line = <<>>
      BY <2>3, <3>1 DEF Place, ReadPlace
    <3>2. CASE line # <<>>
      <4>1. ReadPlace = <<Len(got) + 1, Len(line) + 1>>
        BY <2>1, <3>2, ReaderFacts DEF LineRead
      <4>2. QED
        BY <2>3, <4>1 DEF Place
    <3>3. QED
      BY <3>1, <3>2
  <2>6. /\ Len(got) + 1 \in 1 .. Len(sent)
        /\ Len(line) + 1 \in 1 .. NextSent.size
        /\ b.newline = (Len(line) + 1 = NextSent.size)
    BY <2>2, <2>3, <2>5 DEF Encoded, NextSent, Byte
  <2>7. Len(got) + 1 \in 1 .. MaxMessages /\ NextSent \in Message
    BY <1>1, <2>6, ElementOfSeq, FramingAssumption DEF TypeOK, NextSent
  <2>8. b = LineOf(Len(got) + 1, NextSent)[Len(line) + 1]
    <3>1. LineOf(Len(got) + 1, NextSent)[Len(line) + 1] =
             [of      |-> Len(got) + 1,
              at      |-> Len(line) + 1,
              newline |-> Len(line) + 1 = NextSent.size]
      BY <2>6, <2>7, LineFacts
    <3>2. b = [of |-> b.of, at |-> b.at, newline |-> b.newline]
      BY <2>2 DEF Byte
    <3> HIDE DEF b
    <3>3. QED
      BY <2>5, <2>6, <3>1, <3>2
  <2> HIDE DEF b
  <2>9. ASSUME NEW k \in 1 .. Len(line')
        PROVE  line'[k] = LineOf(Len(got) + 1, NextSent)[k]
    <3>1. k = Len(line) + 1 \/ (k \in 1 .. Len(line) /\ line # <<>>)
      BY <1>1, <2>4
    <3>2. QED
      BY <2>4, <2>8, <3>1 DEF LineInv
  <2>10. Len(got) < Len(sent) /\ Len(line') <= NextSent.size
    BY <1>1, <2>4, <2>6
  <2>11. QED
    BY <2>1, <2>9, <2>10, SMTT(30) DEF LineInv, NextSent, LineOf
<1>4. CASE ReturnMessage
  BY <1>4 DEF ReturnMessage, LineInv
<1>5. CASE UNCHANGED <<sent, got, line>>
  BY <1>5 DEF LineInv, NextSent, LineOf
<1>6. QED
  BY <1>2, <1>3, <1>4, <1>5 DEF Next, Reader, Deliver, Leave,
     RaiseClosed, RaiseOversized, RaiseTruncated, RaiseInvalid, SocketFails,
     Raise, vars

LEMMA RestStep ==
    ASSUME TypeOK, RestInv, [Next]_vars
    PROVE  RestInv'
<1>1. Len(sent) \in Nat /\ Len(rest) \in Nat
  BY DEF TypeOK
<1>2. CASE Encode
  <2>1. PICK m \in Message : /\ rest' = LineOf(Len(sent) + 1, m)
                             /\ Len(sent) + 1 \in 1 .. MaxMessages
                             /\ Len(sent') = Len(sent) + 1
                             /\ sent'[Len(sent) + 1] = m
    BY <1>2, EncodeFacts
  <2>2. /\ m.size \in 1 .. MaxSize
        /\ Len(rest') = m.size
        /\ \A k \in 1 .. m.size :
              rest'[k] = [of      |-> Len(sent) + 1,
                          at      |-> k,
                          newline |-> k = m.size]
    BY <2>1, LineFacts
  <2>3. m.size \in Nat
    BY <2>2, FramingAssumption
  <2>4. ASSUME NEW k \in 1 .. Len(rest')
        PROVE  rest'[k] = [of      |-> Len(sent'),
                           at      |-> m.size - Len(rest') + k,
                           newline |-> k = Len(rest')]
    <3>1. m.size - Len(rest') + k = k
      BY <2>2, <2>3
    <3>2. QED
      BY <2>1, <2>2, <3>1
  <2>5. /\ Len(sent') > 0
        /\ Len(rest') <= m.size
        /\ sent'[Len(sent')] = m
    BY <1>1, <2>1, <2>2, <2>3
  <2>6. QED
    BY <2>4, <2>5 DEF RestInv
<1>3. CASE Deliver
  <2>1. PICK n \in 1 .. Len(rest) : rest' = SubSeq(rest, n + 1, Len(rest))
    BY <1>3 DEF Deliver
  <2>2. sent' = sent
    BY <1>3 DEF Deliver
  <2>3. /\ Len(rest') = Len(rest) - n
        /\ \A i \in 1 .. Len(rest) - n : rest'[i] = rest[n + i]
    BY <2>1, Cut DEF TypeOK
  <2>4. /\ rest # <<>> /\ Len(sent) > 0
        /\ Len(rest) <= sent[Len(sent)].size
        /\ sent[Len(sent)].size \in Nat
    BY <1>1, <2>1, RestFacts, FramingAssumption DEF RestInv
  <2> DEFINE size == sent[Len(sent)].size
  <2>5. ASSUME NEW k \in 1 .. Len(rest')
        PROVE  rest'[k] = [of      |-> Len(sent),
                           at      |-> size - Len(rest') + k,
                           newline |-> k = Len(rest')]
    <3>1. /\ n + k \in 1 .. Len(rest)
          /\ size - Len(rest) + (n + k) = size - Len(rest') + k
          /\ n + k = Len(rest) <=> k = Len(rest')
      BY <1>1, <2>3, <2>4
    <3>2. rest'[k] = rest[n + k]
      BY <2>3
    <3>3. rest[n + k] = [of      |-> Len(sent),
                         at      |-> size - Len(rest) + (n + k),
                         newline |-> n + k = Len(rest)]
      BY <2>4, <3>1 DEF RestInv
    <3>4. (n + k = Len(rest)) = (k = Len(rest'))
      BY <3>1
    <3> HIDE DEF size
    <3>5. QED
      BY <3>1, <3>2, <3>3, <3>4
  <2>6. Len(rest') <= size
    BY <1>1, <2>3, <2>4
  <2>7. QED
    BY <2>2, <2>4, <2>5, <2>6 DEF RestInv
<1>4. CASE UNCHANGED <<sent, rest>>
  BY <1>4 DEF RestInv
<1>5. QED
  BY <1>2, <1>3, <1>4 DEF Next, Reader, Leave, Readline, ReturnMessage,
     RaiseClosed, RaiseOversized, RaiseTruncated, RaiseInvalid, SocketFails,
     Raise, vars

LEMMA WireStep ==
    ASSUME TypeOK, Faithful, LineInv, RestInv, WireInv, [Next]_vars
    PROVE  WireInv'
<1>1. /\ Len(got) \in Nat /\ Len(sent) \in Nat /\ Len(line) \in Nat
      /\ Len(wire) \in Nat /\ Len(rest) \in Nat
  BY DEF TypeOK
<1>2. CASE Encode
  <2>1. PICK m \in Message : /\ rest' = LineOf(Len(sent) + 1, m)
                             /\ Len(sent) + 1 \in 1 .. MaxMessages
    BY <1>2, EncodeFacts
  <2>2. rest = <<>> /\ UNCHANGED <<wire, line, got>>
    BY <1>2 DEF Encode
  <2>3. WritePlace' = WritePlace
    <3>1. rest' # <<>> /\ Place(rest'[1]) = <<Len(sent) + 1, 1>>
      BY <2>1, LineFacts
    <3>2. QED
      BY <2>2, <3>1 DEF WritePlace, Place
  <2>4. ReadPlace' = ReadPlace
    BY <2>2 DEF ReadPlace, After
  <2>5. \A k \in 1 .. Len(wire') : Encoded(wire[k])'
    <3>1. ASSUME NEW k \in 1 .. Len(wire)
          PROVE  Encoded(wire[k])'
      <4>1. Encoded(wire[k])
        BY DEF WireInv
      <4>2. PICK b : b = wire[k]
        OBVIOUS
      <4>3. Encoded(b)'
        BY <1>2, <4>1, <4>2, EncodedStable
      <4>4. QED
        BY <2>2, <4>2, <4>3 DEF Encoded
    <3>2. QED
      BY <2>2, <3>1
  <2>6. QED
    BY <2>2, <2>3, <2>4, <2>5 DEF WireInv, Place, After
<1>3. CASE Deliver
  <2>1. PICK n \in 1 .. Len(rest) :
           /\ wire' = wire \o SubSeq(rest, 1, n)
           /\ rest' = SubSeq(rest, n + 1, Len(rest))
    BY <1>3 DEF Deliver
  <2>2. UNCHANGED <<sent, line, got>>
    BY <1>3 DEF Deliver
  <2>3. wire \in Seq(Byte) /\ rest \in Seq(Byte)
    BY DEF TypeOK
  <2>4. /\ wire' \in Seq(Byte) /\ Len(wire') = Len(wire) + n
        /\ \A i \in 1 .. Len(wire) : wire'[i] = wire[i]
        /\ \A i \in 1 .. n : wire'[Len(wire) + i] = rest[i]
    BY <2>1, <2>3, Moved
  <2>5. /\ rest' \in Seq(Byte) /\ Len(rest') = Len(rest) - n
        /\ \A i \in 1 .. Len(rest) - n : rest'[i] = rest[n + i]
    BY <2>1, Cut DEF TypeOK
  <2>6. rest # <<>> /\ 1 \in 1 .. n /\ 1 \in 1 .. Len(rest) /\ n \in 1 .. n
    BY <1>1, <2>1
  <2>7. WritePlace = Place(rest[1])
    BY <2>6 DEF WritePlace
  <2>8. WritePlace' = After(rest[n])
    <3>1. CASE n = Len(rest)
      <4>1. rest' = <<>>
        BY <1>1, <2>5, <3>1
      <4>2. After(rest[n]) = <<Len(sent) + 1, 1>>
        BY <3>1, RestFacts
      <4>3. QED
        BY <2>2, <4>1, <4>2 DEF WritePlace
    <3>2. CASE n # Len(rest)
      <4>1. rest' # <<>> /\ rest'[1] = rest[n + 1]
        <5>1. Len(rest') > 0 /\ 1 \in 1 .. Len(rest) - n
          BY <1>1, <2>5, <3>2
        <5>2. QED
          BY <2>5, <5>1
      <4>2. After(rest[n]) = Place(rest[n + 1])
        BY <3>2, RestFacts
      <4>3. QED
        BY <4>1, <4>2 DEF WritePlace, Place
    <3>3. QED
      BY <3>1, <3>2
  <2>9. ReadPlace' = ReadPlace
    BY <2>2 DEF ReadPlace, After
  <2>10. ASSUME NEW k \in 1 .. Len(wire')
        PROVE  Encoded(wire[k])'
    <3>1. CASE k \in 1 .. Len(wire)
      <4>1. Encoded(wire[k])
        BY <3>1 DEF WireInv
      <4>2. QED
        BY <2>2, <2>4, <3>1, <4>1 DEF Encoded
    <3>2. CASE k \notin 1 .. Len(wire)
      <4>1. k - Len(wire) \in 1 .. n /\ k - Len(wire) \in 1 .. Len(rest)
        BY <1>1, <2>1, <2>4, <3>2
      <4>2. Encoded(rest[k - Len(wire)])
        BY <4>1, RestFacts
      <4>3. wire'[k] = rest[k - Len(wire)]
        BY <1>1, <2>4, <4>1
      <4>4. QED
        BY <2>2, <4>2, <4>3 DEF Encoded
    <3>3. QED
      BY <3>1, <3>2
  <2>11. ASSUME NEW k \in 1 .. Len(wire') - 1
         PROVE  Place(wire'[k + 1]) = After(wire'[k])
    <3>1. CASE k < Len(wire)
      <4>1. k \in 1 .. Len(wire) - 1 /\ k + 1 \in 1 .. Len(wire)
              /\ k \in 1 .. Len(wire)
        BY <1>1, <3>1
      <4>2. QED
        BY <2>4, <4>1 DEF WireInv
    <3>2. CASE k = Len(wire)
      <4>1. wire # <<>> /\ k \in 1 .. Len(wire)
        BY <3>2
      <4>2. wire'[k] = wire[k] /\ wire'[k + 1] = rest[1]
        BY <2>4, <2>6, <3>2, <4>1
      <4>3. QED
        BY <2>7, <3>2, <4>1, <4>2 DEF WireInv
    <3>3. CASE k > Len(wire)
      <4> DEFINE j == k - Len(wire)
      <4>1. /\ j \in 1 .. n /\ j + 1 \in 1 .. n
            /\ j \in 1 .. Len(rest) /\ j # Len(rest)
            /\ Len(wire) + j = k /\ Len(wire) + (j + 1) = k + 1
        BY <1>1, <2>1, <2>4, <3>3
      <4> HIDE DEF j
      <4>2. wire'[k] = rest[j] /\ wire'[k + 1] = rest[j + 1]
        BY <2>4, <4>1
      <4>3. After(rest[j]) = Place(rest[j + 1])
        BY <4>1, RestFacts
      <4>4. QED
        BY <4>2, <4>3
    <3>4. QED
      BY <1>1, <2>4, <3>1, <3>2, <3>3
  <2>12. wire' # <<>> /\ After(wire'[Len(wire')]) = WritePlace'
    <3>1. Len(wire') > 0 /\ wire'[Len(wire')] = rest[n]
      BY <1>1, <2>4, <2>6
    <3>2. QED
      BY <2>4, <2>8, <3>1
  <2>13. Place(wire'[1]) = ReadPlace'
    <3>1. CASE wire = <<>>
      <4>1. wire'[1] = rest[1]
        BY <2>4, <2>6, <3>1
      <4>2. QED
        BY <2>7, <2>9, <3>1, <4>1 DEF WireInv
    <3>2. CASE wire # <<>>
      <4>1. wire'[1] = wire[1]
        BY <1>1, <2>4, <3>2, Nonempty DEF TypeOK
      <4>2. QED
        BY <2>9, <3>2, <4>1 DEF WireInv
    <3>3. QED
      BY <3>1, <3>2
  <2>14. QED
    BY <2>10, <2>11, <2>12, <2>13 DEF WireInv, Place, After
<1>4. CASE Readline
  <2>1. /\ wire # <<>>
        /\ line' = Append(line, Head(wire))
        /\ wire' = Tail(wire)
        /\ UNCHANGED <<sent, rest, got>>
    BY <1>4 DEF Readline
  <2>2. /\ Head(wire) = wire[1] /\ wire[1] \in Byte
        /\ wire' \in Seq(Byte) /\ Len(wire') = Len(wire) - 1
        /\ \A i \in 1 .. Len(wire) - 1 : wire'[i] = wire[i + 1]
    BY <2>1, Rest DEF TypeOK
  <2>3. line' # <<>> /\ line'[Len(line')] = wire[1]
    BY <2>1, <2>2, AppendProperties DEF TypeOK
  <2>4. ReadPlace' = After(wire[1])
    BY <2>3 DEF ReadPlace, After
  <2>5. WritePlace' = WritePlace
    BY <2>1 DEF WritePlace, Place
  <2>6. Len(wire) > 0
    BY <2>1, Nonempty DEF TypeOK
  <2>7. ASSUME NEW k \in 1 .. Len(wire')
        PROVE  Encoded(wire[k])'
    <3>1. k + 1 \in 1 .. Len(wire) /\ wire'[k] = wire[k + 1]
      BY <1>1, <2>2
    <3>2. Encoded(wire[k + 1])
      BY <3>1 DEF WireInv
    <3>3. QED
      BY <2>1, <3>1, <3>2 DEF Encoded
  <2>8. ASSUME NEW k \in 1 .. Len(wire') - 1
        PROVE  Place(wire'[k + 1]) = After(wire'[k])
    <3>1. /\ k + 1 \in 1 .. Len(wire) - 1
          /\ wire'[k] = wire[k + 1]
          /\ wire'[k + 1] = wire[(k + 1) + 1]
      BY <1>1, <2>2
    <3>2. QED
      BY <3>1 DEF WireInv
  <2>9. wire' = <<>> => ReadPlace' = WritePlace'
    <3>1. wire' = <<>> => Len(wire) = 1
      BY <1>1, <2>2
    <3>2. QED
      BY <2>1, <2>4, <2>5, <3>1 DEF WireInv
  <2>10. ASSUME wire' # <<>>
         PROVE  /\ Place(wire'[1]) = ReadPlace'
                /\ After(wire'[Len(wire')]) = WritePlace'
    <3>1. /\ 1 \in 1 .. Len(wire) - 1
          /\ wire'[1] = wire[1 + 1]
          /\ wire'[Len(wire')] = wire[Len(wire)]
      BY <1>1, <2>2, <2>10, Nonempty
    <3>2. Place(wire[1 + 1]) = After(wire[1])
      BY <3>1 DEF WireInv
    <3>3. After(wire[Len(wire)]) = WritePlace
      BY <2>1 DEF WireInv
    <3>4. QED
      BY <2>4, <2>5, <3>1, <3>2, <3>3
  <2>11. QED
    BY <2>7, <2>8, <2>9, <2>10 DEF WireInv, Place, After
<1>5. CASE ReturnMessage
  <2>1. /\ line # <<>> /\ Newline(line) /\ line' = <<>>
        /\ got' = Append(got, line)
        /\ UNCHANGED <<sent, rest, wire>>
    BY <1>5 DEF ReturnMessage, Examine
  <2>2. ReadPlace = <<Len(got) + 2, 1>>
    BY <2>1, ReaderFacts
  <2>3. ReadPlace' = <<Len(got') + 1, 1>> /\ Len(got') = Len(got) + 1
    BY <2>1, AppendProperties DEF ReadPlace, TypeOK
  <2>4. ReadPlace' = ReadPlace
    BY <1>1, <2>2, <2>3
  <2>5. WritePlace' = WritePlace
    BY <2>1 DEF WritePlace, Place
  <2>6. QED
    BY <2>1, <2>4, <2>5 DEF WireInv, Encoded, Place, After
<1>6. CASE UNCHANGED <<sent, rest, wire, line, got>>
  BY <1>6 DEF WireInv, Encoded, Place, After, ReadPlace, WritePlace
<1>7. QED
  BY <1>2, <1>3, <1>4, <1>5, <1>6 DEF Next, Reader, Leave,
     RaiseClosed, RaiseOversized, RaiseTruncated, RaiseInvalid, SocketFails,
     Raise, vars

LEMMA OutcomeStep ==
    ASSUME TypeOK, LineInv, OutcomeInv, [Next]_vars
    PROVE  OutcomeInv'
<1> USE DEF OutcomeInv, AtEnd, Oversized
<1>1. CASE Encode
  <2>1. UNCHANGED <<open, wire, line, outcome>> /\ open
    BY <1>1 DEF Encode
  <2>2. ASSUME line # <<>>
        PROVE  Parses' = Parses
    <3>1. line[1].of \in 1 .. Len(sent)
      BY <2>2, ReaderFacts
    <3>2. sent'[line[1].of] = sent[line[1].of]
      BY <1>1, <3>1, EncodeFacts
    <3>3. QED
      BY <2>1, <3>2 DEF Parses
  <2>3. Newline(line)' = Newline(line)
    BY <2>1 DEF Newline
  <2>4. QED
    BY <2>1, <2>2, <2>3
<1>2. CASE Deliver \/ Leave
  <2>1. UNCHANGED <<sent, line, outcome>> /\ open
    BY <1>2 DEF Deliver, Leave
  <2>2. QED
    BY <2>1 DEF Newline, Parses
<1>3. CASE Readline \/ ReturnMessage \/ SocketFails
  BY <1>3 DEF Readline, ReturnMessage, SocketFails, Examine, Raise
<1>4. CASE RaiseClosed
  <2>1. line = <<>> /\ LineRead /\ outcome' = "closed"
          /\ UNCHANGED <<open, wire, line>>
    BY <1>4 DEF RaiseClosed, Examine, Raise
  <2>2. Len(line) = 0
    BY <2>1
  <2>3. AtEnd
    BY <2>1, <2>2, FramingAssumption DEF LineRead, Newline
  <2>4. QED
    BY <2>1, <2>3
<1>5. CASE RaiseOversized
  BY <1>5 DEF RaiseOversized, Examine, Raise
<1>6. CASE RaiseTruncated
  <2>1. /\ line # <<>> /\ ~Newline(line) /\ ~Oversized /\ LineRead
        /\ outcome' = "truncated" /\ UNCHANGED <<open, wire, line>>
    BY <1>6 DEF RaiseTruncated, Examine, Raise
  <2>2. AtEnd
    BY <2>1, FramingAssumption DEF LineRead
  <2>3. QED
    BY <2>1, <2>2 DEF Newline
<1>7. CASE RaiseInvalid
  BY <1>7 DEF RaiseInvalid, Examine, Raise, Newline, Parses
<1>8. CASE UNCHANGED vars
  BY <1>8 DEF vars, Newline, Parses
<1>9. QED
  BY <1>1, <1>2, <1>3, <1>4, <1>5, <1>6, <1>7, <1>8 DEF Next, Reader

LEMMA IInvInit ==
    ASSUME Init
    PROVE  IInv
<1> USE DEF Init
<1>1. TypeOK
  BY FramingAssumption DEF TypeOK
<1>2. Faithful
  BY DEF Faithful
<1>3. LineInv /\ RestInv /\ OutcomeInv
  BY DEF LineInv, RestInv, OutcomeInv
<1>4. WireInv
  BY DEF WireInv, ReadPlace, WritePlace
<1>5. QED
  BY <1>1, <1>2, <1>3, <1>4 DEF IInv

LEMMA IInvStep ==
    ASSUME IInv, [Next]_vars
    PROVE  IInv'
BY TypeStep, FaithfulStep, LineStep, RestStep, WireStep, OutcomeStep DEF IInv

(* What the reader ends with, from where the reader and the writer stand.  *)
LEMMA RightOutcomeHolds ==
    ASSUME IInv
    PROVE  RightOutcome
<1> USE DEF IInv
<1>1. Len(got) \in Nat /\ Len(sent) \in Nat /\ Len(line) \in Nat
  BY DEF TypeOK
<1>2. ASSUME rest # <<>>
      PROVE  WritePlace = <<Len(sent), rest[1].at>>
  <2>1. 1 \in 1 .. Len(rest)
    BY <1>2, Nonempty DEF TypeOK
  <2>2. QED
    BY <1>2, <2>1, RestFacts DEF WritePlace, Place
<1>3. outcome = "closed" => ~open /\ Len(got) = Begun
  <2>1. SUFFICES ASSUME outcome = "closed"
                 PROVE  ~open /\ Len(got) = Begun
    OBVIOUS
  <2>2. line = <<>> /\ wire = <<>> /\ ~open
    BY <2>1 DEF OutcomeInv, AtEnd
  <2>3. WritePlace = <<Len(got) + 1, 1>>
    BY <2>2 DEF WireInv, ReadPlace
  <2>4. CASE rest = <<>>
    BY <1>1, <2>2, <2>3, <2>4 DEF Begun, WritePlace
  <2>5. CASE rest # <<>>
    BY <1>1, <1>2, <2>2, <2>3, <2>5 DEF Begun
  <2>6. QED
    BY <2>4, <2>5
<1>4. outcome = "oversized" => NextSent.size > MAX_MESSAGE_BYTES
  <2>1. SUFFICES ASSUME outcome = "oversized"
                 PROVE  NextSent.size > MAX_MESSAGE_BYTES
    OBVIOUS
  <2>2. line # <<>> /\ Len(line) > MAX_MESSAGE_BYTES
    BY <2>1 DEF OutcomeInv, Oversized
  <2>3. Len(line) \in 1 .. NextSent.size /\ NextSent.size \in 1 .. MaxSize
    BY <2>2, ReaderFacts
  <2>4. QED
    BY <1>1, <2>2, <2>3, FramingAssumption
<1>5. outcome = "truncated" => ~open /\ rest # <<>> /\ rest[1].at # 1
  <2>1. SUFFICES ASSUME outcome = "truncated"
                 PROVE  ~open /\ rest # <<>> /\ rest[1].at # 1
    OBVIOUS
  <2>2. line # <<>> /\ wire = <<>> /\ ~open /\ ~Newline(line)
    BY <2>1 DEF OutcomeInv, AtEnd
  <2>3. WritePlace = <<Len(got) + 1, Len(line) + 1>> /\ Len(line) > 0
    BY <2>2, ReaderFacts, Nonempty DEF WireInv, TypeOK
  <2>4. Len(line) + 1 # 1
    BY <1>1, <2>3
  <2>5. rest # <<>>
    BY <2>3, <2>4 DEF WritePlace
  <2>6. QED
    BY <1>2, <2>2, <2>3, <2>4, <2>5
<1>6. outcome = "invalid" =>
         ~NextSent.object /\ NextSent.size <= MAX_MESSAGE_BYTES
  <2>1. SUFFICES ASSUME outcome = "invalid"
                 PROVE  ~NextSent.object /\ NextSent.size <= MAX_MESSAGE_BYTES
    OBVIOUS
  <2>2. line # <<>> /\ ~Oversized /\ Newline(line) /\ ~Parses
    BY <2>1 DEF OutcomeInv
  <2>3. Len(line) = NextSent.size /\ line[1].of = Len(got) + 1
    BY <2>2, ReaderFacts
  <2>4. QED
    BY <1>1, <2>2, <2>3, FramingAssumption DEF Oversized, Parses, NextSent
<1>7. QED
  BY <1>3, <1>4, <1>5, <1>6 DEF RightOutcome

-----------------------------------------------------------------------------
(* The inductive invariant is one of the specification.                    *)
LEMMA IInvHolds == Spec => []IInv
<1>1. Init => IInv
  BY IInvInit
<1>2. IInv /\ [Next]_vars => IInv'
  BY IInvStep
<1>3. QED
  BY <1>1, <1>2, PTL DEF Spec

(* readline never holds more than one byte over the limit, whatever a peer *)
(* writes.                                                                 *)
THEOREM FTypeCorrect == Spec => []TypeOK
<1>1. IInv => TypeOK
  BY DEF IInv
<1>2. QED
  BY <1>1, IInvHolds, PTL

(* read_message returns the messages that encode_message was given: whole, *)
(* none left out, none twice, in order, however sendall's bytes were cut.  *)
THEOREM ReadsWhatWasEncoded == Spec => []Faithful
<1>1. IInv => Faithful
  BY DEF IInv
<1>2. QED
  BY <1>1, IInvHolds, PTL

(* read_message tells an oversized message, one cut short by the end of the*)
(* connection, one that does not parse and a clean end from each other.    *)
THEOREM TellsOutcomesApart == Spec => []RightOutcome
<1>1. IInv => RightOutcome
  BY RightOutcomeHolds
<1>2. QED
  BY <1>1, IInvHolds, PTL

-----------------------------------------------------------------------------
(* The registries of keys.                                                 *)

(* What is in force is in the history of every connection whose hello has  *)
(* no verdict yet.                                                         *)
KeyInv ==
    \A h \in Handlers : pc[h] = "hello" => InForce \subseteq current[h]

(* The inductive invariant.                                                *)
CInv ==
    /\ CTypeOK
    /\ KeyInv
    /\ ServedUnderCurrentKey

(* The documents, and what a complete one holds.                           *)
LEMMA DocumentFacts ==
    /\ {Unset, Missing, Torn} \subseteq Document
    /\ Written \subseteq Document
    /\ Demo \in Registry
    /\ Unset \notin Written /\ Torn # Unset
    /\ \A x \in Document : x.form = "complete" =>
          \E keys \in Registry : x = Doc(keys)
    /\ \A keys \in Registry : Doc(keys).keys = keys
<1>1. Demo \in Registry
  BY CredentialsAssumption DEF Demo, Registry
<1>2. Unset \notin Written /\ Torn # Unset
  BY DEF Unset, Torn, Written, Malformed, Doc
<1>3. \A x \in Document : x.form = "complete" =>
         \E keys \in Registry : x = Doc(keys)
  BY DEF Document, Written, Unset, Missing, Torn, Malformed
<1>4. \A keys \in Registry : Doc(keys).keys = keys
  BY DEF Doc
<1>5. QED
  BY <1>1, <1>2, <1>3, <1>4 DEF Document

(* A document that counts and is complete is the registry in force: no     *)
(* demo key stands in for one that is missing or broken.                   *)
LEMMA CompleteInForce ==
    ASSUME CTypeOK, Resolved(inline, file).form = "complete"
    PROVE  Resolved(inline, file).keys \in InForce
<1>1. Doc(Demo) \in Document
  BY DocumentFacts DEF Document, Written
<1>2. Resolved(inline, file) \in Document
  BY <1>1 DEF Resolved, CTypeOK
<1>3. PICK keys \in Registry : Resolved(inline, file) = Doc(keys)
  BY <1>2, DocumentFacts
<1>4. keys \in InForce
  <2>1. CASE inline # Unset
    BY <1>3, <2>1 DEF Resolved, InForce
  <2>2. CASE inline = Unset /\ file # Unset
    BY <1>3, <2>2 DEF Resolved, InForce
  <2>3. CASE inline = Unset /\ file = Unset
    <3>1. Doc(keys).keys = Doc(Demo).keys
      BY <1>3, <2>3 DEF Resolved
    <3>2. keys = Demo
      BY <3>1, DocumentFacts
    <3>3. QED
      BY <2>3, <3>2 DEF InForce
  <2>4. QED
    BY <2>1, <2>2, <2>3
<1>5. QED
  BY <1>3, <1>4, DocumentFacts

(* The invariant holds at the start, and every step keeps it, part by      *)
(* part.                                                                   *)
LEMMA CInvInit ==
    ASSUME CInit
    PROVE  CInv
<1> USE DEF CInit
<1>1. (CHOOSE d \in Peers : TRUE) \in Peers
  BY CredentialsAssumption
<1>2. CTypeOK
  <2>1. inline \in Document /\ file \in Document /\ edit \in {Unset}
    BY DocumentFacts DEF Document
  <2>2. counters \in [{"messages_rejected", "errors"} -> Nat]
    OBVIOUS
  <2>3. QED
    BY <1>1, <2>1, <2>2, CredentialsAssumption DEF CTypeOK
<1>3. KeyInv /\ ServedUnderCurrentKey
  BY DEF KeyInv, ServedUnderCurrentKey
<1>4. QED
  BY <1>2, <1>3 DEF CInv

(* What Noted writes into the history of a connection.                     *)
LEMMA NotedFacts ==
    ASSUME CTypeOK, Noted,
           pc' \in [Handlers -> {"free", "hello", "serving"}]
    PROVE  /\ current' \in [Handlers -> SUBSET Registry]
           /\ \A h \in Handlers :
                 /\ pc'[h] = "hello" => InForce' \subseteq current'[h]
                 /\ pc'[h] = "serving" => current'[h] = current[h]
<1>1. InForce' \subseteq Registry
  BY DEF InForce, Registry
<1>2. QED
  BY <1>1 DEF Noted, CTypeOK

LEMMA CTypeStep ==
    ASSUME CTypeOK, [CNext]_cvars
    PROVE  CTypeOK'
<1> USE CredentialsAssumption DEF CTypeOK
<1>1. CASE Truncate
  BY <1>1, DocumentFacts, NotedFacts DEF Truncate, thread, tally
<1>2. CASE Write
  BY <1>2, DocumentFacts, NotedFacts DEF Write, thread, tally
<1>3. ASSUME NEW d \in Peers, StartPeer(d) \/ StopPeer(d)
      PROVE  CTypeOK'
  BY <1>3 DEF StartPeer, StopPeer, document, thread, tally
<1>4. ASSUME NEW h \in Handlers, NEW d \in Peers, Connect(h, d)
      PROVE  CTypeOK'
  <2>1. /\ pc' \in [Handlers -> {"free", "hello", "serving"}]
        /\ peer' \in [Handlers -> Peers]
        /\ sealed' \in [Handlers -> Keys \cup {NoKey}]
        /\ own[d] \in Keys
    BY <1>4 DEF Connect
  <2>2. \A g \in Handlers : /\ sealed'[g] \in Keys <=> pc'[g] # "free"
                            /\ device_key[g] \in Keys <=> pc'[g] = "serving"
    BY <1>4, <2>1 DEF Connect
  <2>3. current' \in [Handlers -> SUBSET Registry]
    BY <1>4, <2>1, NotedFacts DEF Connect
  <2>4. conns' \in 0 .. MaxConnections
    BY <1>4 DEF Connect
  <2>5. QED
    BY <1>4, <2>1, <2>2, <2>3, <2>4 DEF Connect, document
<1>5. ASSUME NEW h \in Handlers, Handler(h)
      PROVE  CTypeOK'
  <2>1. CASE End(h) /\ (UNCHANGED counters \/ CountOne("errors")
                          \/ CountOne("messages_rejected"))
    <3>1. /\ pc' \in [Handlers -> {"free", "hello", "serving"}]
          /\ sealed' \in [Handlers -> Keys \cup {NoKey}]
          /\ device_key' \in [Handlers -> Keys \cup {NoKey}]
      BY <2>1 DEF End
    <3>2. \A g \in Handlers :
             /\ sealed'[g] \in Keys <=> pc'[g] # "free"
             /\ device_key'[g] \in Keys <=> pc'[g] = "serving"
      BY <2>1 DEF End
    <3>3. current' \in [Handlers -> SUBSET Registry]
      BY <2>1, <3>1, NotedFacts DEF End
    <3>4. counters' \in [{"messages_rejected", "errors"} -> Nat]
      BY <2>1 DEF CountOne
    <3>5. QED
      BY <2>1, <3>1, <3>2, <3>3, <3>4 DEF End, document
  <2>2. CASE Admit(h)
    <3>1. Registered(h) = sealed[h] /\ sealed[h] \in Keys
      BY <2>2 DEF Admit, Lookup
    <3>2. /\ pc' \in [Handlers -> {"free", "hello", "serving"}]
          /\ device_key' \in [Handlers -> Keys \cup {NoKey}]
      BY <2>2, <3>1 DEF Admit
    <3>3. \A g \in Handlers :
             /\ sealed[g] \in Keys <=> pc'[g] # "free"
             /\ device_key'[g] \in Keys <=> pc'[g] = "serving"
      BY <2>2, <3>1 DEF Admit, Lookup
    <3>4. current' \in [Handlers -> SUBSET Registry]
      BY <2>2, <3>2, NotedFacts DEF Admit
    <3>5. QED
      BY <2>2, <3>2, <3>3, <3>4 DEF Admit, document, tally
  <2>3. QED
    BY <1>5, <2>1, <2>2 DEF Handler, LookupDies, LookupFails,
       RejectPeer, Depart
<1>6. CASE UNCHANGED cvars
  BY <1>6 DEF cvars, document, thread, tally
<1>7. QED
  BY <1>1, <1>2, <1>3, <1>4, <1>5, <1>6 DEF CNext

LEMMA CKeyStep ==
    ASSUME CInv, CTypeOK', [CNext]_cvars
    PROVE  KeyInv'
<1>1. CASE Noted
  BY <1>1, NotedFacts DEF KeyInv, CInv, CTypeOK
<1>2. CASE UNCHANGED <<document, thread, current>>
  BY <1>2 DEF KeyInv, CInv, InForce, document, thread
<1>3. QED
  BY <1>1, <1>2 DEF CNext, Truncate, Write, StartPeer, StopPeer,
     Connect, Handler, LookupDies, LookupFails, RejectPeer, Admit,
     Depart, End, cvars

LEMMA CServedStep ==
    ASSUME CInv, CTypeOK', [CNext]_cvars
    PROVE  ServedUnderCurrentKey'
<1> USE DEF CInv
<1>1. ASSUME NEW h \in Handlers, pc'[h] = "serving", pc[h] = "serving",
             Noted \/ UNCHANGED current,
             UNCHANGED <<peer[h], sealed[h], device_key[h]>>
      PROVE  /\ device_key'[h] = sealed'[h]
             /\ \E keys \in current'[h] : keys[peer'[h]] = device_key'[h]
  BY <1>1, NotedFacts DEF ServedUnderCurrentKey, CTypeOK
<1>2. CASE Truncate \/ Write
  BY <1>1, <1>2 DEF Truncate, Write, thread, ServedUnderCurrentKey
<1>3. CASE UNCHANGED <<thread, current>>
  BY <1>1, <1>3 DEF thread, ServedUnderCurrentKey
<1>4. ASSUME NEW g \in Handlers, NEW d \in Peers, Connect(g, d)
      PROVE  ServedUnderCurrentKey'
  BY <1>1, <1>4 DEF Connect, CTypeOK, ServedUnderCurrentKey
<1>5. ASSUME NEW g \in Handlers, Handler(g)
      PROVE  ServedUnderCurrentKey'
  <2>1. CASE End(g)
    BY <1>1, <2>1 DEF End, CTypeOK, ServedUnderCurrentKey
  <2>2. CASE Admit(g)
    <3>1. /\ Registered(g) = sealed[g]
          /\ pc[g] = "hello"
          /\ Resolved(inline, file).form = "complete"
      BY <2>2 DEF Admit, Lookup
    <3>2. Resolved(inline, file).keys \in current[g]
      BY <3>1, CompleteInForce DEF KeyInv
    <3>3. /\ device_key'[g] = sealed[g] /\ sealed' = sealed /\ peer' = peer
          /\ pc'[g] = "serving" /\ Noted
      BY <2>2, <3>1 DEF Admit, CTypeOK
    <3>4. /\ device_key'[g] = sealed'[g]
          /\ \E keys \in current'[g] : keys[peer'[g]] = device_key'[g]
      BY <3>1, <3>2, <3>3, NotedFacts DEF Registered, CTypeOK
    <3>5. \A h \in Handlers \ {g} : pc'[h] = pc[h]
                                      /\ device_key'[h] = device_key[h]
      BY <2>2 DEF Admit, CTypeOK
    <3>6. QED
      BY <1>1, <3>3, <3>4, <3>5 DEF ServedUnderCurrentKey
  <2>3. QED
    BY <1>5, <2>1, <2>2 DEF Handler, LookupDies, LookupFails,
       RejectPeer, Depart
<1>6. QED
  BY <1>2, <1>3, <1>4, <1>5 DEF CNext, StartPeer, StopPeer, cvars

(* The registry that rejects a peer is in the connection's history.        *)
LEMMA CRejectStep ==
    ASSUME CInv, [CNext]_cvars,
           NEW h \in Handlers, RejectedNow(h)
    PROVE  \E keys \in current[h] : keys[peer[h]] # sealed[h]
<1> USE DEF CInv
<1>1. counters'["messages_rejected"] # counters["messages_rejected"]
        /\ pc[h] = "hello" /\ pc'[h] = "free"
  BY DEF RejectedNow
<1>2. PICK g \in Handlers : RejectPeer(g)
  <2>1. counters' # counters
    BY <1>1
  <2>2. ~ CountOne("errors")
    BY <1>1 DEF CountOne, CTypeOK
  <2>3. QED
    BY <2>1, <2>2 DEF CNext, Truncate, Write, StartPeer, StopPeer,
       Connect, Handler, LookupDies, LookupFails, Admit, Depart,
       cvars, tally
<1>3. g = h
  BY <1>1, <1>2 DEF RejectPeer, End, CTypeOK
<1>4. /\ Resolved(inline, file).form = "complete"
      /\ Registered(h) # sealed[h]
  BY <1>2, <1>3 DEF RejectPeer, Lookup
<1>5. Resolved(inline, file).keys \in current[h]
  BY <1>1, <1>4, CompleteInForce DEF KeyInv
<1>6. QED
  BY <1>4, <1>5 DEF Registered

LEMMA CInvHolds == CSpec => []CInv
<1>1. CInit => CInv
  BY CInvInit
<1>2. CInv /\ [CNext]_cvars => CInv'
  BY CTypeStep, CKeyStep, CServedStep DEF CInv
<1>3. QED
  BY <1>1, <1>2, PTL DEF CSpec

(* The key of a connection is one exactly while its handler serves, and    *)
(* the hello's while there is a hello.                                     *)
THEOREM CTypeCorrect == CSpec => []CTypeOK
<1>1. CInv => CTypeOK
  BY DEF CInv
<1>2. QED
  BY <1>1, CInvHolds, PTL

(* device_key admits a peer only under the key that the operator's         *)
(* registry has had for it since it connected.                             *)
THEOREM ServesUnderCurrentKey == CSpec => []ServedUnderCurrentKey
<1>1. CInv => ServedUnderCurrentKey
  BY DEF CInv
<1>2. QED
  BY <1>1, CInvHolds, PTL

(* A peer is turned away as unknown or unverified only by a complete       *)
(* registry that disagrees with it, whenever the operator rewrites the     *)
(* file.                                                                   *)
THEOREM RejectsForCause == CSpec => RejectedForCause
<1>1. CInv /\ [CNext]_cvars =>
         [\A h \in Handlers : RejectedNow(h) =>
             \E keys \in current[h] : keys[peer[h]] # sealed[h]]_cvars
  BY CRejectStep
<1>2. QED
  BY <1>1, CInvHolds, PTL DEF CSpec, RejectedForCause
=============================================================================
