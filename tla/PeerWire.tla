------------------------------- MODULE PeerWire -------------------------------
(***************************************************************************)
(* What arrives from a peer: its handshake, then messages, each behind its *)
(* length.  TCP cuts the stream where it likes, and the peer may close it  *)
(* anywhere.  The reader takes the handshake with read_exact and then      *)
(* messages with the decoder of PeerCodec; the peer may be another Fissure *)
(* (whose messages the encoder writes) or any other client.                *)
(*                                                                         *)
(* Bytes arrive one at a time, but the reader may wait, so that it meets   *)
(* every way to cut the stream.  Integers stay below 2^31.                 *)
(***************************************************************************)
EXTENDS Integers, Sequences

CONSTANTS
  PstrLens,  \* lengths of the protocol string that a handshake may state
  Sendable,  \* what the peer may send: the octets and what they mean
  MaxSent    \* bound on the messages of a stream

VARIABLES
  pstrlen,   \* the first byte of the peer's handshake
  sent,      \* the messages of the peer
  arrived,   \* bytes of the stream that have arrived
  taken,     \* bytes of the stream that the reader has taken
  open,      \* whether the peer has not closed the stream
  place,     \* where the reader is
  decoded    \* the messages it has decoded

vars == <<pstrlen, sent, arrived, taken, open, place, decoded>>

----------------------------------------------------------------------------
(* The codec                                                               *)

\* put_u32 and from_be_bytes.
U32(n) == <<(n \div 16777216) % 256, (n \div 65536) % 256, (n \div 256) % 256, n % 256>>

FromU32(octets) == 16777216 * octets[1] + 65536 * octets[2] + 256 * octets[3] + octets[4]

Words(ints) == [i \in 1 .. 4 * Len(ints) |-> U32(ints[(i - 1) \div 4 + 1])[((i - 1) % 4) + 1]]

\* The messages by their id, with the number of integers of each; every
\* other id is Port.
Types == <<"Choke", "Unchoke", "Interested", "NotInterested", "Have", "Bitfield",
           "Request", "Piece", "Cancel">>

TypeOf(id) == IF id < Len(Types) THEN Types[id + 1] ELSE "Port"

IntsOf(type) ==
  CASE type = "Have" -> 1 [] type = "Piece" -> 2 [] type \in {"Request", "Cancel"} -> 3 [] OTHER -> 0

\* A bit vector (Msb0) and its octets; the spare bits of the last are 0.
Weights == <<128, 64, 32, 16, 8, 4, 2, 1>>

Bits(octets) ==
  [k \in 1 .. 8 * Len(octets) |->
     (octets[(k - 1) \div 8 + 1] \div Weights[((k - 1) % 8) + 1]) % 2]

Padded(bits) == bits \o [k \in 1 .. (8 - (Len(bits) % 8)) % 8 |-> 0]

Octet(b) == 128 * b[1] + 64 * b[2] + 32 * b[3] + 16 * b[4] + 8 * b[5] + 4 * b[6] + 2 * b[7] + b[8]

Octets(bits) ==
  [j \in 1 .. Len(Padded(bits)) \div 8 |-> Octet(SubSeq(Padded(bits), 8 * j - 7, 8 * j))]

\* The length counts the id.
IdOf(type) == (CHOOSE i \in DOMAIN Types : Types[i] = type) - 1

Frame(type, ints, octets) ==
  LET body == Words(ints) \o octets
  IN  U32(1 + Len(body)) \o <<IdOf(type)>> \o body

\* The encoder writes nothing for the messages it does not know.
Encode(message) ==
  CASE message.type = "KeepAlive" -> U32(0)
    [] message.type = "Bitfield" -> Frame("Bitfield", <<>>, Octets(message.rest))
    [] message.type \in {"Interested", "Request", "Have"} -> Frame(message.type, message.ints, <<>>)
    [] OTHER -> <<>>

\* A message without its length, of at least the integers of its type.
Integer(payload, i) == FromU32(SubSeq(payload, 4 * i - 2, 4 * i + 1))

Decode(payload) ==
  IF payload = <<>> THEN [type |-> "KeepAlive", ints |-> <<>>, rest |-> <<>>]
  ELSE LET type == TypeOf(payload[1])
       IN  [type |-> type,
            ints |-> [i \in 1 .. IntsOf(type) |-> Integer(payload, i)],
            rest |-> CASE type = "Bitfield" -> Bits(Tail(payload))
                       [] type = "Piece" -> SubSeq(payload, 10, Len(payload))
                       [] OTHER -> <<>>]

\* The slices of a shorter one panic.
TooShort(payload) == payload # <<>> /\ Len(payload) < 1 + 4 * IntsOf(TypeOf(payload[1]))

\* The message that no payload means: the decoder panics.
Nothing == [type |-> "nothing", ints |-> <<>>, rest |-> <<>>]

\* A message behind its length, and what it means when it arrives alone.
WellFramed(octets) ==
  octets \in Seq(0 .. 255) /\ Len(octets) >= 4 /\ FromU32(SubSeq(octets, 1, 4)) = Len(octets) - 4

Meaning(octets) ==
  LET payload == SubSeq(octets, 5, Len(octets))
  IN  IF TooShort(payload) THEN Nothing ELSE Decode(payload)

\* Every stream of octets is a series of framed messages, the last of which
\* may be broken off (Close).
ASSUME PeerWireAssumptions ==
  /\ PstrLens \subseteq 0 .. 255
  /\ MaxSent \in Nat
  /\ \A message \in Sendable :
       WellFramed(message.octets) /\ Meaning(message.octets) = message.means

----------------------------------------------------------------------------
(* The stream                                                              *)

\* Variant: the reserved bytes are forgotten.
NoReserved(n) == n + 20 + 20

\* The protocol string, eight reserved bytes, the info hash and the peer id.
\* None of them is looked at.
RestOfHandshake(n) == n + 8 + 20 + 20

HandshakeLen == 1 + pstrlen + 48

\* The octets of the first k messages.
Joined(messages) ==
  LET joined[k \in 0 .. Len(messages)] ==
        IF k = 0 THEN <<>> ELSE joined[k - 1] \o messages[k].octets
  IN  joined

Stream == <<pstrlen>> \o [i \in 1 .. pstrlen + 48 |-> 0] \o Joined(sent)[Len(sent)]

Buffer == SubSeq(Stream, taken + 1, arrived)

Init ==
  /\ pstrlen \in PstrLens
  /\ sent \in UNION {[1 .. n -> Sendable] : n \in 0 .. MaxSent}
  /\ arrived = 0 /\ taken = 0
  /\ open = TRUE
  /\ place = "length"
  /\ decoded = <<>>

\* External: the network and the peer.
Arrive ==
  /\ open /\ arrived < Len(Stream)
  /\ arrived' = arrived + 1
  /\ UNCHANGED <<pstrlen, sent, taken, open, place, decoded>>

Close ==
  /\ open
  /\ open' = FALSE
  /\ UNCHANGED <<pstrlen, sent, arrived, taken, place, decoded>>

----------------------------------------------------------------------------
(* The reader                                                              *)

\* The task of the handshake asks for one byte, then for the rest.
ReadLength ==
  /\ place = "length" /\ Buffer # <<>>
  /\ taken' = 1
  /\ place' = IF Head(Buffer) = 0 THEN "refused" ELSE "rest"
  /\ UNCHANGED <<pstrlen, sent, arrived, open, decoded>>

ReadRest ==
  /\ place = "rest" /\ Len(Buffer) >= RestOfHandshake(pstrlen)
  /\ taken' = taken + RestOfHandshake(pstrlen)
  /\ place' = "messages"
  /\ UNCHANGED <<pstrlen, sent, arrived, open, decoded>>

\* read_exact fails if the stream ends before.
HandshakeFails ==
  /\ ~open
  /\ \/ place = "length" /\ Buffer = <<>>
     \/ place = "rest" /\ Len(Buffer) < RestOfHandshake(pstrlen)
  /\ place' = "refused"
  /\ UNCHANGED <<pstrlen, sent, arrived, taken, open, decoded>>

MsgLen == FromU32(SubSeq(Buffer, 1, 4))

\* Variant: a message is complete only if another has begun.
BeginsAnother == Len(Buffer) > 4 /\ Len(Buffer) > 4 + MsgLen

Complete == Len(Buffer) >= 4 /\ Len(Buffer) >= 4 + MsgLen

DecodeMessage ==
  /\ place = "messages" /\ Complete
  /\ taken' = taken + 4 + MsgLen
  /\ LET payload == SubSeq(Buffer, 5, 4 + MsgLen) IN
       IF TooShort(payload) THEN place' = "panicked" /\ UNCHANGED decoded
       ELSE UNCHANGED place /\ decoded' = Append(decoded, Decode(payload))
  /\ UNCHANGED <<pstrlen, sent, arrived, open>>

\* The stream has ended, within a message or after one.
EndOfStream ==
  /\ place = "messages" /\ ~open /\ ~Complete
  /\ place' = "ended"
  /\ UNCHANGED <<pstrlen, sent, arrived, taken, open, decoded>>

Next ==
  \/ Arrive \/ Close
  \/ ReadLength \/ ReadRest \/ HandshakeFails
  \/ DecodeMessage \/ EndOfStream

Spec == Init /\ [][Next]_vars

\* The runtime polls the reader when bytes arrive; nothing is assumed of the
\* network and the peer.
FairSpec == Spec /\ WF_vars(ReadLength) /\ WF_vars(ReadRest) /\ WF_vars(DecodeMessage)

----------------------------------------------------------------------------
(* Properties                                                              *)

\* The place of the stream where the first k messages end.
EndOf(k) == HandshakeLen + Len(Joined(sent)[k])

\* However the stream is cut, the reader is in step with it: it has decoded
\* what the peer meant and nothing else, stands where the next message
\* begins, and ends early only at a message that means nothing or when the
\* stream broke off (peer_messages.rs, lines 95-109; peer_handshake.rs,
\* lines 83-105).
StreamExact ==
  /\ Len(decoded) <= Len(sent)
  /\ \A i \in DOMAIN decoded : decoded[i] = sent[i].means
  /\ place = "messages" => taken = EndOf(Len(decoded))
  /\ place = "refused" => decoded = <<>> /\ (pstrlen = 0 \/ (~open /\ arrived < HandshakeLen))
  /\ place = "panicked" => Len(decoded) < Len(sent) /\ sent[Len(decoded) + 1].means = Nothing
  /\ place = "ended" => ~open /\ (Len(decoded) < Len(sent) => arrived < EndOf(Len(decoded) + 1))

\* A message that has arrived is decoded, though the peer may never send
\* another byte (lines 96-107), unless one before it ended the reader.
EverythingRead ==
  \A k \in 1 .. MaxSent :
    (/\ k <= Len(sent) /\ arrived >= EndOf(k)
     /\ pstrlen # 0 /\ \A i \in 1 .. k : sent[i].means # Nothing) ~> Len(decoded) >= k
=============================================================================
