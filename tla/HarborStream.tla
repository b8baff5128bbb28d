---------------------------- MODULE HarborStream ----------------------------
(***************************************************************************)
(* push_socket_data of service_harbor.c: the stream of the other node cut  *)
(* into messages, whatever pieces it comes in.  A message is four bytes of *)
(* length, the first of which must be 0, and its content.  One turn of the *)
(* loop over the states is one action; buf is what it has left of a piece. *)
(***************************************************************************)
EXTENDS Integers, Sequences, SequencesExt

CONSTANTS Base,     \* the values of a byte: 256
          Contents  \* what the other node sends: sequences of bytes

VARIABLES
  wrong,    \* does the other node give an id that is not expected
  status,   \* slave.status
  rest,     \* bytes that have not arrived
  buf,      \* bytes of this piece not looked at yet
  size,     \* slave.size[0 .. read-1]
  content,  \* slave.recv_buffer[0 .. read-1]
  length,   \* slave.length
  messages  \* what forward_local_messsage was given

vars == <<wrong, status, rest, buf, size, content, length, messages>>

Header == 4

\* to_bigendian
Encoded(n) ==
  LET high == n \div Base
      higher == high \div Base
  IN <<higher \div Base, higher % Base, high % Base, n % Base>>

\* The length that is read from the last three bytes.
Decoded(s) == Base * (Base * s[2] + s[3]) + s[4]

Bytes(m) == Encoded(Len(Contents[m])) \o Contents[m]
Stream == FlattenSeq([m \in DOMAIN Contents |-> Bytes(m)])
OwnId == 9      \* the id both nodes know the other by
WrongId == 8

\* After "S" the first byte is the id; after "A" cslave has read it.
Init ==
  /\ wrong \in BOOLEAN
  /\ \/ status = "HANDSHAKE" /\ rest = <<IF wrong THEN WrongId ELSE OwnId>> \o Stream
     \/ status = "HEADER" /\ ~ wrong /\ rest = Stream
  /\ buf = <<>> /\ size = <<>> /\ content = <<>> /\ length = 0 /\ messages = <<>>

\* A piece of the stream arrives; an end that is down takes nothing.
Arrive ==
  /\ buf = <<>> /\ rest # <<>> /\ status # "DOWN"
  /\ \E n \in 1 .. Len(rest) :
       /\ buf' = SubSeq(rest, 1, n)
       /\ rest' = SubSeq(rest, n + 1, Len(rest))
  /\ UNCHANGED <<wrong, status, size, content, length, messages>>

\* close_harbor
Close == status' = "DOWN" /\ buf' = <<>>

\* A fault for mutation: what follows the id is dropped.
Handshake_drops ==
  /\ status = "HANDSHAKE" /\ buf # <<>>
  /\ IF Head(buf) = OwnId THEN status' = "HEADER" /\ buf' = <<>>
                          ELSE Close
  /\ UNCHANGED <<wrong, rest, size, content, length, messages>>

Handshake ==
  /\ status = "HANDSHAKE" /\ buf # <<>>
  /\ IF Head(buf) = OwnId THEN status' = "HEADER" /\ buf' = Tail(buf)
                          ELSE Close
  /\ UNCHANGED <<wrong, rest, size, content, length, messages>>

\* Fewer bytes than needed are kept for the next piece.
Part(have, need) ==
  /\ Len(buf) < need - Len(have)
  /\ buf' = <<>>
Whole(have, need) == Len(buf) >= need - Len(have)
After(have, need) == SubSeq(buf, need - Len(have) + 1, Len(buf))
With(have, need) == SubSeq(have \o buf, 1, need)

PartOfHeader ==
  /\ status = "HEADER" /\ buf # <<>>
  /\ Part(size, Header)
  /\ size' = size \o buf
  /\ UNCHANGED <<wrong, status, rest, content, length, messages>>

EndOfHeader ==
  /\ status = "HEADER" /\ buf # <<>> /\ Whole(size, Header)
  /\ LET s == With(size, Header) IN
       IF s[1] # 0
         THEN Close /\ UNCHANGED <<size, length>>
         ELSE /\ buf' = After(size, Header)
              /\ length' = Decoded(s)
              /\ size' = <<>>
              /\ status' = "CONTENT"
  /\ UNCHANGED <<wrong, rest, content, messages>>

PartOfContent ==
  /\ status = "CONTENT" /\ buf # <<>>
  /\ Part(content, length)
  /\ content' = content \o buf
  /\ UNCHANGED <<wrong, status, rest, size, length, messages>>

EndOfContent ==
  /\ status = "CONTENT" /\ buf # <<>>
  /\ Whole(content, length)
  /\ buf' = After(content, length)
  /\ messages' = Append(messages, With(content, length))
  /\ content' = <<>> /\ length' = 0
  /\ status' = "HEADER"
  /\ UNCHANGED <<wrong, rest, size>>

Next == Arrive \/ Handshake \/ PartOfHeader \/ EndOfHeader \/ PartOfContent \/ EndOfContent
Spec == Init /\ [][Next]_vars

(***************************************************************************)
(* Properties                                                              *)
(***************************************************************************)
TypeOK ==
  /\ status \in {"HANDSHAKE", "HEADER", "CONTENT", "DOWN"}
  /\ Len(size) < Header
  /\ status = "CONTENT" => length > 0 /\ Len(content) < length

TooLong(m) == Len(Contents[m]) >= Base * Base * Base
EndOf(m) == Len(FlattenSeq([i \in 1 .. m |-> Bytes(i)]))
Arrived == Len(Stream) - Len(rest)

\* Between two pieces the services have got exactly the messages whose last
\* byte has arrived, byte for byte, up to one that is too long; and nothing from
\* a node that gave a wrong id.
ForwardsWhole ==
  buf = <<>> =>
    LET whole == {m \in DOMAIN Contents :
                    ~ wrong /\ EndOf(m) <= Arrived /\ \A i \in 1 .. m : ~ TooLong(i)}
    IN messages = [m \in whole |-> Contents[m]]

\* The harbor is closed for a wrong id or a length that is too great, as soon as
\* it has been read, and never else.
ClosesForCause ==
  buf = <<>> => (status = "DOWN" <=>
     \/ wrong /\ Arrived >= 0
     \/ \E m \in DOMAIN Contents : TooLong(m) /\ Arrived >= EndOf(m - 1) + Header)
=============================================================================
