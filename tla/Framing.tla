------------------------------ MODULE Framing -------------------------------
(***************************************************************************)
(* The framing of messages on a connection: encode_message and read_message*)
(* (src/common/protocol.py), which every connection of the system uses.    *)
(*                                                                         *)
(* TCP carries bytes in order but not messages: a write may arrive in      *)
(* pieces, several may arrive together, and a writer that dies leaves the  *)
(* beginning of a message behind.  The reader cuts the bytes at newlines   *)
(* and at MAX_MESSAGE_BYTES.  A byte remembers here which message it is of *)
(* and where it stands in it, so that what the reader takes for a message  *)
(* can be compared with what was written.                                  *)
(***************************************************************************)
EXTENDS Naturals, Sequences

CONSTANTS
    MAX_MESSAGE_BYTES,  \* longest line the reader takes, newline included
    MaxSize,            \* bound: longest line a writer writes
    MaxMessages         \* bound: messages on the connection

ASSUME FramingAssumption ==
    /\ MAX_MESSAGE_BYTES \in Nat \ {0}
    /\ MaxSize \in Nat
    /\ MaxMessages \in Nat

VARIABLES
    sent,     \* the messages encoded so far
    rest,     \* the part of the last one that sendall has not written yet
    open,     \* the writer has not closed its end
    wire,     \* bytes written and not yet taken by the reader
    line,     \* what the current call of readline has so far
    got,      \* history: the messages returned by read_message
    outcome   \* how read_message ended the connection, or "reading"

vars == <<sent, rest, open, wire, line, got, outcome>>

(* A message by the length of its line and by whether the line parses as a *)
(* JSON object; a peer may write anything.                                 *)
Message == [size : 1 .. MaxSize, object : BOOLEAN]

Byte == [of : 1 .. MaxMessages, at : 1 .. MaxSize, newline : BOOLEAN]

Outcomes == {"closed", "oversized", "truncated", "invalid", "failed"}

Init ==
    /\ sent = <<>>
    /\ rest = <<>>
    /\ open = TRUE
    /\ wire = <<>>
    /\ line = <<>>
    /\ got = <<>>
    /\ outcome = "reading"

-----------------------------------------------------------------------------
(* The writer.                                                             *)

(* encode_message puts one newline, at the end, and knows no limit.        *)
LineOf(i, m) ==
    [k \in 1 .. m.size |-> [of |-> i, at |-> k, newline |-> k = m.size]]

Encode ==
    /\ open
    /\ rest = <<>>
    /\ Len(sent) < MaxMessages
    /\ \E m \in Message :
          /\ sent' = Append(sent, m)
          /\ rest' = LineOf(Len(sent) + 1, m)
    /\ UNCHANGED <<open, wire, line, got, outcome>>

(* The next bytes of a sendall reach the other end, however many.          *)
Deliver ==
    /\ open
    /\ \E n \in 1 .. Len(rest) :
          /\ wire' = wire \o SubSeq(rest, 1, n)
          /\ rest' = SubSeq(rest, n + 1, Len(rest))
    /\ UNCHANGED <<sent, open, line, got, outcome>>

(* The writer closes the connection or dies, in a sendall or between two.  *)
Leave ==
    /\ open
    /\ open' = FALSE
    /\ UNCHANGED <<sent, rest, wire, line, got, outcome>>

-----------------------------------------------------------------------------
(* The reader.                                                             *)

Newline(bytes) == bytes # <<>> /\ bytes[Len(bytes)].newline
AtEnd          == wire = <<>> /\ ~open

(* readline(MAX_MESSAGE_BYTES + 1) has what it returns.  Mutant: there is  *)
(* no limit.                                                               *)
LineReadUnlimited == Newline(line) \/ AtEnd
LineRead ==
    \/ Newline(line)
    \/ Len(line) = MAX_MESSAGE_BYTES + 1
    \/ AtEnd

Readline ==
    /\ outcome = "reading"
    /\ ~LineRead
    /\ wire # <<>>
    /\ line' = Append(line, Head(wire))
    /\ wire' = Tail(wire)
    /\ UNCHANGED <<sent, rest, open, got, outcome>>

(* The checks of read_message.  Mutant: the limit is one too small.        *)
OversizedTooSoon == Len(line) >= MAX_MESSAGE_BYTES
Oversized        == Len(line) > MAX_MESSAGE_BYTES

Parses == sent[line[1].of].object

Examine(holds) == outcome = "reading" /\ LineRead /\ holds

Raise(error) ==
    /\ outcome' = error
    /\ UNCHANGED <<sent, rest, open, wire, line, got>>

(* read_message returns a message; the caller asks for the next one.       *)
ReturnMessage ==
    /\ Examine(line # <<>> /\ ~Oversized /\ Newline(line) /\ Parses)
    /\ got' = Append(got, line)
    /\ line' = <<>>
    /\ UNCHANGED <<sent, rest, open, wire, outcome>>

RaiseClosed == Examine(line = <<>>) /\ Raise("closed")

(* Mutant: the message is dropped and the next line is read.               *)
SkipOversized ==
    /\ Examine(line # <<>> /\ Oversized)
    /\ line' = <<>>
    /\ UNCHANGED <<sent, rest, open, wire, got, outcome>>

RaiseOversized == Examine(line # <<>> /\ Oversized) /\ Raise("oversized")

RaiseTruncated ==
    Examine(line # <<>> /\ ~Oversized /\ ~Newline(line)) /\ Raise("truncated")

RaiseInvalid ==
    /\ Examine(line # <<>> /\ ~Oversized /\ Newline(line) /\ ~Parses)
    /\ Raise("invalid")

(* OSError: the connection is reset, or nothing comes for the socket's     *)
(* timeout.                                                                *)
SocketFails ==
    /\ outcome = "reading"
    /\ ~LineRead
    /\ Raise("failed")

Reader ==
    \/ Readline
    \/ ReturnMessage
    \/ RaiseClosed
    \/ RaiseOversized
    \/ RaiseTruncated
    \/ RaiseInvalid
    \/ SocketFails

Next == Encode \/ Deliver \/ Leave \/ Reader

Spec == Init /\ [][Next]_vars

-----------------------------------------------------------------------------
(* Properties.                                                             *)

(* Every variable has its type, and the reader holds at most one byte more *)
(* than the limit, whatever the peer writes.                               *)
TypeOK ==
    /\ sent \in Seq(Message) /\ Len(sent) <= MaxMessages
    /\ rest \in Seq(Byte)
    /\ open \in BOOLEAN
    /\ wire \in Seq(Byte)
    /\ line \in Seq(Byte) /\ Len(line) <= MAX_MESSAGE_BYTES + 1
    /\ got \in Seq(Seq(Byte))
    /\ outcome \in Outcomes \cup {"reading"}

(* However the bytes were cut up on the way and wherever the writer died,  *)
(* what read_message returned is what was encoded: whole messages, none    *)
(* left out, none twice, in order.                                         *)
Faithful ==
    /\ Len(got) <= Len(sent)
    /\ \A i \in 1 .. Len(got) : got[i] = LineOf(i, sent[i])

(* The messages of which something was written.                            *)
NextSent == sent[Len(got) + 1]
Begun == Len(sent) - (IF rest # <<>> /\ rest[1].at = 1 THEN 1 ELSE 0)

(* "distinguishes an oversized message from a message truncated at EOF"    *)
(* (protocol.py:96-97), at the byte: the connection is closed cleanly only *)
(* if everything written was returned; a message is called oversized only  *)
(* if its line, newline included, exceeds the limit, truncated only if the *)
(* writer left in the middle of it, invalid only if it came whole.         *)
RightOutcome ==
    /\ outcome = "closed" => ~open /\ Len(got) = Begun
    /\ outcome = "oversized" => NextSent.size > MAX_MESSAGE_BYTES
    /\ outcome = "truncated" => ~open /\ rest # <<>> /\ rest[1].at # 1
    /\ outcome = "invalid" =>
          ~NextSent.object /\ NextSent.size <= MAX_MESSAGE_BYTES
=============================================================================
