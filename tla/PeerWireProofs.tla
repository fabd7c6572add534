--------------------------- MODULE PeerWireProofs ---------------------------
(***************************************************************************)
(* However a stream of framed messages is cut, the reader is in step with  *)
(* it; and what the encoder writes is framed and means what was written.   *)
(***************************************************************************)
EXTENDS PeerWire, SequenceTheorems, WellFoundedInduction, TLAPS

Byte == 0 .. 255

----------------------------------------------------------------------------
(* Induction over the natural numbers, of a set instead of a predicate     *)

\* A set that holds 0 and the successor of every number it holds, holds every
\* natural number (for the messages of a stream).
LEMMA SetInduction ==
  ASSUME NEW T, 0 \in T, \A n \in Nat : n \in T => n + 1 \in T
  PROVE  Nat \subseteq T
<1>1. SUFFICES ASSUME Nat \ T # {} PROVE FALSE
  OBVIOUS
<1>2. PICK n \in Nat \ T : \A m \in Nat \ T : ~ <<m, n>> \in OpToRel(<, Nat)
  BY <1>1, NatLessThanWellFounded, WFMin
<1>3. n # 0 /\ n - 1 \in Nat /\ <<n - 1, n>> \in OpToRel(<, Nat)
  BY DEF OpToRel
<1>4. n - 1 \in T
  BY <1>2, <1>3
<1>5. (n - 1) + 1 = n
  OBVIOUS
<1> QED
  BY <1>3, <1>4, <1>5

----------------------------------------------------------------------------
(* The stream                                                              *)

\* The octets of the first messages exist and grow by one message at a time.
LEMMA JoinedDef ==
  ASSUME NEW messages, messages \in Seq(Sendable)
  PROVE  /\ Joined(messages) \in [0 .. Len(messages) -> Seq(Byte)]
         /\ Joined(messages)[0] = <<>>
         /\ \A n \in 1 .. Len(messages) :
              Joined(messages)[n] = Joined(messages)[n - 1] \o messages[n].octets
<1> DEFINE Def(g, n) == g = [m \in 0 .. n |-> IF m = 0 THEN <<>> ELSE g[m - 1] \o messages[m].octets]
           o == Joined(messages)
           E == {n \in Nat : \E g : Def(g, n)}
           T == {n \in Nat : n <= Len(messages) => o[n] \in Seq(Byte)}
<1>1. 0 \in E
  <2> DEFINE g == [m \in 0 .. 0 |-> <<>>]
  <2>1. Def(g, 0)
    OBVIOUS
  <2> QED
    BY <2>1
<1>2. ASSUME NEW n \in Nat, n \in E PROVE n + 1 \in E
  <2>1. PICK g : Def(g, n)
    BY <1>2
  <2> DEFINE added == g[n] \o messages[n + 1].octets
             h == [m \in 0 .. n + 1 |-> IF m = n + 1 THEN added ELSE g[m]]
  <2>2. ASSUME NEW m \in 0 .. n + 1
        PROVE  h[m] = IF m = 0 THEN <<>> ELSE h[m - 1] \o messages[m].octets
    <3>1. CASE m = n + 1
      <4>1. m - 1 = n /\ m - 1 \in 0 .. n + 1 /\ m - 1 # n + 1 /\ m # 0
        BY <3>1
      <4>2. added = g[n] \o messages[m].octets
        BY <3>1
      <4> HIDE DEF added
      <4>3. h[m] = added /\ h[m - 1] = g[n]
        BY <3>1, <4>1
      <4> HIDE DEF h
      <4> QED BY <4>1, <4>2, <4>3
    <3>2. CASE m # n + 1 /\ m # 0
      <4>1. m \in 0 .. n /\ m - 1 \in 0 .. n
        BY <3>2
      <4>2. h[m] = g[m] /\ h[m - 1] = g[m - 1]
        BY <3>2, <4>1
      <4>3. g[m] = g[m - 1] \o messages[m].octets
        BY <2>1, <3>2, <4>1
      <4> QED BY <3>2, <4>2, <4>3
    <3>3. CASE m = 0
      BY <2>1, <3>3
    <3> QED BY <3>1, <3>2, <3>3
  <2>3. Def(h, n + 1)
    BY <2>2
  <2>4. n + 1 \in Nat
    OBVIOUS
  <2> QED
    BY <2>3, <2>4
<1>3. Def(o, Len(messages))
  <2>1. Nat \subseteq E
    <3> HIDE DEF E
    <3> QED BY <1>1, <1>2, SetInduction
  <2>2. Len(messages) \in E
    <3>1. Len(messages) \in Nat
      OBVIOUS
    <3> HIDE DEF E
    <3> QED BY <2>1, <3>1
  <2>3. \E g : Def(g, Len(messages))
    BY <2>2
  <2> QED
    BY <2>3 DEF Joined
<1> HIDE DEF o
<1>4. /\ DOMAIN o = 0 .. Len(messages) /\ o = [n \in DOMAIN o |-> o[n]]
      /\ o[0] = <<>>
  BY <1>3
<1>5. ASSUME NEW n \in 1 .. Len(messages)
      PROVE  o[n] = o[n - 1] \o messages[n].octets /\ messages[n].octets \in Seq(Byte)
  <2>1. n \in 0 .. Len(messages) /\ n # 0 /\ messages[n] \in Sendable
    OBVIOUS
  <2>2. o[n] = o[n - 1] \o messages[n].octets
    BY <1>3, <2>1
  <2> QED
    BY <2>1, <2>2, PeerWireAssumptions DEF WellFramed, Byte
<1>6. \A n \in 0 .. Len(messages) : o[n] \in Seq(Byte)
  <2>1. 0 \in T
    BY <1>4
  <2>2. ASSUME NEW n \in Nat, n \in T PROVE n + 1 \in T
    <3>1. CASE n + 1 <= Len(messages)
      <4>1. n + 1 \in 1 .. Len(messages) /\ o[n] \in Seq(Byte) /\ n + 1 - 1 = n
        BY <2>2, <3>1
      <4>2. o[n + 1] = o[n] \o messages[n + 1].octets /\ messages[n + 1].octets \in Seq(Byte)
        <5> DEFINE m == n + 1
        <5>1. m \in 1 .. Len(messages) /\ m - 1 = n
          BY <4>1
        <5> HIDE DEF m
        <5>2. o[m] = o[m - 1] \o messages[m].octets /\ messages[m].octets \in Seq(Byte)
          BY <1>5, <5>1
        <5>3. o[m] = o[n] \o messages[m].octets
          BY <5>1, <5>2
        <5> QED BY <5>2, <5>3 DEF m
      <4>3. o[n + 1] \in Seq(Byte)
        BY <4>1, <4>2, ConcatProperties
      <4> QED BY <4>3
    <3> QED BY <3>1
  <2>3. Nat \subseteq T
    <3> HIDE DEF T
    <3> QED BY <2>1, <2>2, SetInduction
  <2> QED
    BY <2>3
<1> QED
  BY <1>4, <1>5, <1>6 DEF o

\* One more message adds its octets.
LEMMA JoinedStep ==
  ASSUME NEW messages, messages \in Seq(Sendable), NEW k \in 0 .. Len(messages) - 1
  PROVE  /\ messages[k + 1].octets \in Seq(Byte)
         /\ Joined(messages)[k] \in Seq(Byte)
         /\ Joined(messages)[k + 1] = Joined(messages)[k] \o messages[k + 1].octets
<1> DEFINE m == k + 1
<1>1. m \in 1 .. Len(messages) /\ k \in 0 .. Len(messages) /\ m - 1 = k
  OBVIOUS
<1> HIDE DEF m
<1>2. messages[m].octets \in Seq(Byte)
  BY <1>1, PeerWireAssumptions DEF WellFramed, Byte
<1>3. Joined(messages)[k] \in Seq(Byte)
  BY <1>1, JoinedDef
<1>4. Joined(messages)[m] = Joined(messages)[m - 1] \o messages[m].octets
  BY <1>1, JoinedDef
<1>5. Joined(messages)[m] = Joined(messages)[k] \o messages[m].octets
  BY <1>1, <1>4
<1> QED
  BY <1>2, <1>3, <1>5 DEF m

\* What a sequence of octets is behind another.
LEMMA Behind ==
  ASSUME NEW a \in Seq(Byte), NEW b \in Seq(Byte)
  PROVE  /\ a \o b \in Seq(Byte)
         /\ Len(a) \in Nat /\ Len(b) \in Nat /\ Len(a \o b) = Len(a) + Len(b)
         /\ \A i \in 1 .. Len(a) : (a \o b)[i] = a[i]
         /\ \A i \in 1 .. Len(b) : (a \o b)[Len(a) + i] = b[i]
<1>1. /\ a \o b \in Seq(Byte) /\ Len(a \o b) = Len(a) + Len(b)
      /\ \A i \in 1 .. Len(a) + Len(b) : (a \o b)[i] = IF i <= Len(a) THEN a[i] ELSE b[i - Len(a)]
  BY ConcatProperties
<1>2. Len(a) \in Nat /\ Len(b) \in Nat
  OBVIOUS
<1>3. ASSUME NEW i \in 1 .. Len(a) PROVE (a \o b)[i] = a[i]
  BY <1>1, <1>2
<1>4. ASSUME NEW i \in 1 .. Len(b) PROVE (a \o b)[Len(a) + i] = b[i]
  <2>1. Len(a) + i \in 1 .. Len(a) + Len(b) /\ ~ Len(a) + i <= Len(a) /\ Len(a) + i - Len(a) = i
    BY <1>2
  <2> QED BY <1>1, <2>1
<1> QED
  BY <1>1, <1>2, <1>3, <1>4

\* What later messages leave alone.
LEMMA JoinedPrefix ==
  ASSUME NEW messages, messages \in Seq(Sendable), NEW k \in 0 .. Len(messages)
  PROVE  /\ Joined(messages)[k] \in Seq(Byte)
         /\ Joined(messages)[Len(messages)] \in Seq(Byte)
         /\ Len(Joined(messages)[k]) <= Len(Joined(messages)[Len(messages)])
         /\ \A i \in 1 .. Len(Joined(messages)[k]) :
              Joined(messages)[Len(messages)][i] = Joined(messages)[k][i]
<1> DEFINE o == Joined(messages)
           L == Len(messages)
           Prefix(n) == /\ Len(o[k]) <= Len(o[n])
                        /\ \A i \in 1 .. Len(o[k]) : o[n][i] = o[k][i]
           T == {d \in Nat : k + d <= L => Prefix(k + d)}
<1>1. L \in Nat /\ k \in Nat /\ k <= L /\ \A n \in 0 .. L : o[n] \in Seq(Byte) /\ Len(o[n]) \in Nat
  <2>1. L \in Nat /\ k \in Nat /\ k <= L
    OBVIOUS
  <2>2. ASSUME NEW n \in 0 .. L PROVE o[n] \in Seq(Byte) /\ Len(o[n]) \in Nat
    <3>1. o[n] \in Seq(Byte)
      BY JoinedDef
    <3> QED BY <3>1
  <2> QED BY <2>1, <2>2
<1>2. ASSUME NEW n \in 0 .. L - 1
      PROVE  /\ Len(o[n]) <= Len(o[n + 1])
             /\ \A i \in 1 .. Len(o[n]) : o[n + 1][i] = o[n][i]
  <2> DEFINE a == Joined(messages)[n]
             b == messages[n + 1].octets
  <2>1. b \in Seq(Byte) /\ a \in Seq(Byte) /\ o[n + 1] = a \o b
    BY JoinedStep
  <2> HIDE DEF a, b
  <2>2. /\ Len(a) \in Nat /\ Len(b) \in Nat /\ Len(a \o b) = Len(a) + Len(b)
        /\ \A i \in 1 .. Len(a) : (a \o b)[i] = a[i]
    BY <2>1, Behind
  <2>3. Len(a) <= Len(a \o b)
    BY <2>2
  <2> QED BY <2>1, <2>2, <2>3 DEF a
<1> HIDE DEF o, L
<1>3. Prefix(k)
  BY <1>1
<1>4. ASSUME NEW d \in Nat, k + d + 1 <= L, Prefix(k + d) PROVE Prefix(k + d + 1)
  <2> DEFINE n == k + d
  <2>1. n \in 0 .. L - 1 /\ n \in 0 .. L /\ n + 1 \in 0 .. L
    BY <1>1, <1>4
  <2>2. Prefix(n)
    BY <1>4
  <2> HIDE DEF n
  <2>3. Len(o[k]) \in Nat /\ Len(o[n]) \in Nat /\ Len(o[n + 1]) \in Nat
    BY <1>1, <2>1
  <2>4. Prefix(n + 1)
    BY <1>2, <2>1, <2>2, <2>3
  <2> QED BY <2>4 DEF n
<1> HIDE DEF Prefix
<1>5. 0 \in T
  <2>1. k + 0 = k
    BY <1>1
  <2> QED BY <1>3, <2>1
<1>6. ASSUME NEW d \in Nat, d \in T PROVE d + 1 \in T
  <2>1. d + 1 \in Nat /\ k + (d + 1) = k + d + 1
    BY <1>1
  <2>2. k + d + 1 <= L => k + d <= L
    BY <1>1
  <2>3. k + (d + 1) <= L => Prefix(k + (d + 1))
    BY <1>4, <1>6, <2>1, <2>2
  <2> QED BY <2>1, <2>3
<1>7. Prefix(L)
  <2>1. Nat \subseteq T
    <3> HIDE DEF T
    <3> QED BY <1>5, <1>6, SetInduction
  <2>2. L - k \in Nat /\ k + (L - k) = L /\ L <= L
    BY <1>1
  <2>3. k + (L - k) <= L => Prefix(k + (L - k))
    BY <2>1, <2>2
  <2> QED BY <2>2, <2>3
<1>8. L \in 0 .. L /\ k \in 0 .. L
  BY <1>1
<1> QED
  BY <1>1, <1>7, <1>8 DEF Prefix, o, L

\* The stream is the handshake and what the messages add to it.
LEMMA StreamShape ==
  ASSUME pstrlen \in Byte, sent \in Seq(Sendable)
  PROVE  /\ HandshakeLen = pstrlen + 49 /\ HandshakeLen \in Nat
         /\ Stream \in Seq(Byte) /\ Len(Stream) \in Nat
         /\ Len(Stream) = HandshakeLen + Len(Joined(sent)[Len(sent)])
         /\ Stream[1] = pstrlen
         /\ \A i \in 1 .. Len(Joined(sent)[Len(sent)]) :
              Stream[HandshakeLen + i] = Joined(sent)[Len(sent)][i]
<1> DEFINE a == <<pstrlen>>
           b == [i \in 1 .. pstrlen + 48 |-> 0]
           c == Joined(sent)[Len(sent)]
<1>1. a \in Seq(Byte) /\ Len(a) = 1 /\ a[1] = pstrlen
  OBVIOUS
<1>2. b \in Seq(Byte) /\ Len(b) = pstrlen + 48
  <2>1. pstrlen + 48 \in Nat /\ 0 \in Byte
    BY DEF Byte
  <2> QED BY <2>1
<1>3. c \in Seq(Byte)
  <2>1. Len(sent) \in 0 .. Len(sent)
    OBVIOUS
  <2> QED BY <2>1, JoinedDef
<1>4. Stream = (a \o b) \o c
  BY DEF Stream
<1> HIDE DEF a, b, c
<1>5. a \o b \in Seq(Byte) /\ Len(a \o b) = Len(a) + Len(b) /\ (a \o b)[1] = a[1]
  <2>1. 1 \in 1 .. Len(a)
    BY <1>1
  <2> QED BY <1>1, <1>2, <2>1, Behind
<1>6. Len(a \o b) = pstrlen + 49
  BY <1>1, <1>2, <1>5 DEF Byte
<1>7. HandshakeLen = pstrlen + 49 /\ HandshakeLen \in Nat
  BY DEF HandshakeLen, Byte
<1> DEFINE h == a \o b
<1>8. h \in Seq(Byte) /\ Len(h) = HandshakeLen /\ h[1] = pstrlen /\ 1 \in 1 .. Len(h)
  BY <1>1, <1>5, <1>6, <1>7 DEF Byte
<1>9. Stream = h \o c
  BY <1>4
<1> HIDE DEF h
<1>10. /\ h \o c \in Seq(Byte) /\ Len(h \o c) = Len(h) + Len(c) /\ Len(h \o c) \in Nat
       /\ (h \o c)[1] = h[1]
       /\ \A i \in 1 .. Len(c) : (h \o c)[Len(h) + i] = c[i]
  BY <1>3, <1>8, Behind
<1> QED
  BY <1>7, <1>8, <1>9, <1>10 DEF c

\* The messages end one behind the other, the last one with the stream.
LEMMA Ends ==
  ASSUME pstrlen \in Byte, sent \in Seq(Sendable)
  PROVE  /\ Len(sent) \in Nat /\ EndOf(0) = HandshakeLen /\ EndOf(Len(sent)) = Len(Stream)
         /\ \A k \in 0 .. Len(sent) :
              EndOf(k) \in Nat /\ HandshakeLen <= EndOf(k) /\ EndOf(k) <= Len(Stream)
<1>1. Len(sent) \in Nat
  OBVIOUS
<1>2. Joined(sent)[0] = <<>>
  BY JoinedDef
<1>3. HandshakeLen \in Nat /\ Len(Stream) = HandshakeLen + Len(Joined(sent)[Len(sent)])
  BY StreamShape
<1>4. EndOf(0) = HandshakeLen
  BY <1>2, <1>3 DEF EndOf
<1>5. EndOf(Len(sent)) = Len(Stream)
  BY <1>3 DEF EndOf
<1>6. ASSUME NEW k \in 0 .. Len(sent)
      PROVE  EndOf(k) \in Nat /\ HandshakeLen <= EndOf(k) /\ EndOf(k) <= Len(Stream)
  <2>1. /\ Joined(sent)[k] \in Seq(Byte) /\ Joined(sent)[Len(sent)] \in Seq(Byte)
        /\ Len(Joined(sent)[k]) <= Len(Joined(sent)[Len(sent)])
    BY JoinedPrefix
  <2>2. Len(Joined(sent)[k]) \in Nat /\ Len(Joined(sent)[Len(sent)]) \in Nat
    BY <2>1
  <2> QED BY <1>3, <2>1, <2>2 DEF EndOf
<1> QED
  BY <1>1, <1>4, <1>5, <1>6

\* Behind the k-th message come the octets of the next.
LEMMA NextOctets ==
  ASSUME pstrlen \in Byte, sent \in Seq(Sendable), NEW k \in 0 .. Len(sent) - 1
  PROVE  /\ sent[k + 1].octets \in Seq(Byte) /\ Len(sent[k + 1].octets) \in Nat
         /\ EndOf(k) \in Nat
         /\ EndOf(k + 1) = EndOf(k) + Len(sent[k + 1].octets)
         /\ EndOf(k + 1) <= Len(Stream)
         /\ \A i \in 1 .. Len(sent[k + 1].octets) : Stream[EndOf(k) + i] = sent[k + 1].octets[i]
<1> DEFINE a == Joined(sent)[k]
           b == sent[k + 1].octets
           c == Joined(sent)[Len(sent)]
<1>1. b \in Seq(Byte) /\ a \in Seq(Byte) /\ Joined(sent)[k + 1] = a \o b
  BY JoinedStep
<1>2. k + 1 \in 0 .. Len(sent) /\ k \in 0 .. Len(sent)
  OBVIOUS
<1>3. \A i \in 1 .. Len(Joined(sent)[k + 1]) : c[i] = Joined(sent)[k + 1][i]
  BY <1>2, JoinedPrefix
<1>4. HandshakeLen \in Nat /\ \A i \in 1 .. Len(c) : Stream[HandshakeLen + i] = c[i]
  <2>1. HandshakeLen \in Nat
    BY StreamShape
  <2>2. \A i \in 1 .. Len(c) : Stream[HandshakeLen + i] = c[i]
    BY StreamShape, Zenon
  <2> QED BY <2>1, <2>2
<1>5. EndOf(k) = HandshakeLen + Len(a) /\ EndOf(k + 1) = HandshakeLen + Len(a \o b)
  BY <1>1 DEF EndOf
<1>6. EndOf(k + 1) <= Len(Stream)
  BY <1>2, Ends
<1>7. Len(a \o b) <= Len(c) /\ Len(c) \in Nat
  <2>1. Len(Joined(sent)[k + 1]) <= Len(c) /\ c \in Seq(Byte)
    BY <1>2, JoinedPrefix
  <2>2. Len(a \o b) <= Len(c)
    BY <1>1, <2>1, Zenon
  <2>3. Len(c) \in Nat
    <3> HIDE DEF c
    <3> QED BY <2>1
  <2> QED BY <2>2, <2>3
<1>8. \A i \in 1 .. Len(a \o b) : c[i] = (a \o b)[i]
  BY <1>1, <1>3
<1> HIDE DEF a, b, c
<1>9. /\ Len(a) \in Nat /\ Len(b) \in Nat /\ Len(a \o b) = Len(a) + Len(b)
      /\ \A i \in 1 .. Len(b) : (a \o b)[Len(a) + i] = b[i]
  BY <1>1, Behind
<1>10. ASSUME NEW i \in 1 .. Len(b) PROVE Stream[EndOf(k) + i] = b[i]
  <2> DEFINE j == Len(a) + i
  <2>1. j \in 1 .. Len(a \o b) /\ j \in 1 .. Len(c) /\ EndOf(k) + i = HandshakeLen + j
    BY <1>4, <1>5, <1>7, <1>9
  <2>2. (a \o b)[j] = b[i]
    BY <1>9
  <2> HIDE DEF j
  <2> QED BY <1>4, <1>8, <2>1, <2>2
<1>11. EndOf(k) \in Nat /\ EndOf(k + 1) = EndOf(k) + Len(b)
  BY <1>4, <1>5, <1>9
<1> QED
  BY <1>1, <1>6, <1>9, <1>10, <1>11 DEF b

----------------------------------------------------------------------------
(* The inductive invariant                                                 *)

Meanings == {message.means : message \in Sendable}

Shape ==
  /\ pstrlen \in Byte /\ sent \in Seq(Sendable)
  /\ arrived \in 0 .. Len(Stream) /\ taken \in 0 .. arrived
  /\ open \in BOOLEAN
  /\ place \in {"length", "rest", "messages", "refused", "panicked", "ended"}
  /\ decoded \in Seq(Meanings)

\* The handshake comes first, the length before the rest.
InHandshake ==
  /\ place = "length" => taken = 0 /\ decoded = <<>>
  /\ place = "rest" => taken = 1 /\ decoded = <<>> /\ pstrlen # 0

Inv == Shape /\ InHandshake /\ StreamExact

\* What is in the reader's buffer.
LEMMA BufferIs ==
  ASSUME Shape
  PROVE  /\ Buffer \in Seq(Byte) /\ Len(Buffer) = arrived - taken /\ Len(Buffer) \in Nat
         /\ \A i \in 1 .. Len(Buffer) : Buffer[i] = Stream[taken + i]
<1>1. /\ Len(Stream) \in Nat /\ Stream \in Seq(Byte)
      /\ arrived \in 0 .. Len(Stream) /\ taken \in 0 .. arrived
  BY StreamShape DEF Shape
<1> DEFINE s == Stream
<1>2. \A i \in taken + 1 .. arrived : s[i] \in Byte
  <2> HIDE DEF s
  <2> SUFFICES ASSUME NEW i \in taken + 1 .. arrived PROVE s[i] \in Byte
    OBVIOUS
  <2>1. i \in 1 .. Len(s)
    BY <1>1 DEF s
  <2> QED BY <1>1, <2>1 DEF s
<1>3. /\ SubSeq(s, taken + 1, arrived) \in Seq(Byte)
      /\ Len(SubSeq(s, taken + 1, arrived)) =
           IF taken + 1 <= arrived THEN arrived - (taken + 1) + 1 ELSE 0
      /\ \A i \in 1 .. arrived - (taken + 1) + 1 :
           SubSeq(s, taken + 1, arrived)[i] = s[taken + 1 + i - 1]
  <2>1. taken + 1 \in Int /\ arrived \in Int
    BY <1>1
  <2> HIDE DEF s
  <2> QED BY <1>2, <2>1, SubSeqProperties
<1>4. Buffer = SubSeq(s, taken + 1, arrived)
  BY DEF Buffer
<1> HIDE DEF s
<1>5. Len(Buffer) = arrived - taken /\ Len(Buffer) \in Nat
  BY <1>1, <1>3, <1>4
<1>6. ASSUME NEW i \in 1 .. Len(Buffer) PROVE Buffer[i] = s[taken + i]
  <2>1. i \in 1 .. arrived - (taken + 1) + 1 /\ taken + 1 + i - 1 = taken + i
    BY <1>1, <1>5
  <2> QED BY <1>3, <1>4, <2>1
<1> QED
  BY <1>3, <1>4, <1>5, <1>6 DEF s

\* When four octets of a message are there, they are its length, which is that
\* of a message the peer has sent (peer_messages.rs, lines 96-99).
LEMMA LengthIsThere ==
  ASSUME Shape, Len(decoded) <= Len(sent), taken = EndOf(Len(decoded)), Len(Buffer) >= 4
  PROVE  /\ Len(decoded) \in 0 .. Len(sent) - 1
         /\ MsgLen = Len(sent[Len(decoded) + 1].octets) - 4
<1> DEFINE k == Len(decoded)
<1>1. k \in Nat /\ Len(sent) \in Nat /\ k <= Len(sent) /\ pstrlen \in Byte /\ sent \in Seq(Sendable)
  BY DEF Shape
<1>2. /\ arrived \in Nat /\ taken \in Nat /\ arrived <= Len(Stream) /\ Len(Stream) \in Nat
      /\ arrived - taken >= 4
      /\ \A i \in 1 .. 4 : Buffer[i] = Stream[taken + i]
  <2>1. /\ Len(Buffer) = arrived - taken /\ Len(Buffer) \in Nat
        /\ \A i \in 1 .. Len(Buffer) : Buffer[i] = Stream[taken + i]
    BY BufferIs
  <2>2. Len(Stream) \in Nat
    BY <1>1, StreamShape
  <2> QED BY <2>1, <2>2 DEF Shape
<1>3. k # Len(sent)
  <2>1. EndOf(Len(sent)) = Len(Stream)
    BY <1>1, Ends
  <2> QED BY <1>2, <2>1
<1>4. k \in 0 .. Len(sent) - 1
  BY <1>1, <1>3
<1> DEFINE b == sent[k + 1].octets
<1>5. b \in Seq(Byte) /\ \A i \in 1 .. Len(b) : Stream[EndOf(k) + i] = b[i]
  BY <1>1, <1>4, NextOctets
<1>6. Len(b) >= 4 /\ FromU32(SubSeq(b, 1, 4)) = Len(b) - 4 /\ Len(b) \in Nat
  <2>1. sent[k + 1] \in Sendable
    BY <1>1, <1>4
  <2> QED BY <1>5, <2>1, PeerWireAssumptions DEF WellFramed
<1>7. taken = EndOf(k)
  OBVIOUS
<1> HIDE DEF k, b
<1>8. ASSUME NEW i \in 1 .. 4 PROVE Buffer[i] = b[i]
  <2>1. i \in 1 .. Len(b)
    BY <1>6
  <2>2. Stream[EndOf(k) + i] = b[i]
    BY <1>5, <2>1
  <2> QED BY <1>2, <1>7, <2>2
<1>9. \A i \in 1 .. 4 : SubSeq(Buffer, 1, 4)[i] = Buffer[i] /\ SubSeq(b, 1, 4)[i] = b[i]
  <2>1. Buffer \in Seq(Byte) /\ Len(Buffer) >= 4 /\ Len(Buffer) \in Nat
    BY BufferIs
  <2>2. \A i \in 1 .. 4 : Buffer[i] \in Byte /\ b[i] \in Byte
    BY <1>5, <1>6, <2>1
  <2>3. \A i \in 1 .. 4 - 1 + 1 : SubSeq(Buffer, 1, 4)[i] = Buffer[1 + i - 1]
    BY <2>2, SubSeqProperties
  <2>4. \A i \in 1 .. 4 - 1 + 1 : SubSeq(b, 1, 4)[i] = b[1 + i - 1]
    BY <2>2, SubSeqProperties
  <2> QED BY <2>3, <2>4
<1>10. FromU32(SubSeq(Buffer, 1, 4)) = FromU32(SubSeq(b, 1, 4))
  BY <1>8, <1>9 DEF FromU32
<1> QED
  BY <1>4, <1>6, <1>10 DEF MsgLen, k, b

\* A complete message is the next that the peer has sent, and nothing of the
\* one behind it (lines 101-108).
LEMMA MessageIsThere ==
  ASSUME Shape, Len(decoded) <= Len(sent), taken = EndOf(Len(decoded)), Complete
  PROVE  /\ Len(decoded) \in 0 .. Len(sent) - 1
         /\ taken + 4 + MsgLen = EndOf(Len(decoded) + 1)
         /\ taken + 4 + MsgLen <= arrived
         /\ LET octets == sent[Len(decoded) + 1].octets
            IN  SubSeq(Buffer, 5, 4 + MsgLen) = SubSeq(octets, 5, Len(octets))
<1> DEFINE k == Len(decoded)
           b == sent[k + 1].octets
           n == Len(b)
<1>1. Len(Buffer) >= 4 /\ Len(Buffer) >= 4 + MsgLen
  BY DEF Complete
<1>2. k \in 0 .. Len(sent) - 1 /\ MsgLen = n - 4
  BY <1>1, LengthIsThere
<1>3. pstrlen \in Byte /\ sent \in Seq(Sendable)
  BY DEF Shape
<1>4. /\ b \in Seq(Byte) /\ n \in Nat /\ EndOf(k) \in Nat /\ EndOf(k + 1) = EndOf(k) + n
      /\ \A i \in 1 .. n : Stream[EndOf(k) + i] = b[i]
  BY <1>2, <1>3, NextOctets
<1>5. /\ Buffer \in Seq(Byte) /\ Len(Buffer) = arrived - taken /\ Len(Buffer) \in Nat
      /\ \A i \in 1 .. Len(Buffer) : Buffer[i] = Stream[taken + i]
  BY BufferIs
<1>6. arrived \in Nat /\ taken \in Nat
  <2>1. Len(Stream) \in Nat
    BY <1>3, StreamShape
  <2> QED BY <2>1 DEF Shape
<1>7. taken = EndOf(k)
  OBVIOUS
<1>8. n >= 4
  <2>1. sent[k + 1] \in Sendable
    BY <1>2, <1>3
  <2> QED BY <2>1, PeerWireAssumptions DEF WellFramed
<1> HIDE DEF k, b, n
<1>9. taken + 4 + MsgLen = EndOf(k + 1) /\ taken + 4 + MsgLen <= arrived /\ n <= Len(Buffer)
      /\ 4 + MsgLen = n
  <2>1. 4 + MsgLen = n /\ taken + 4 + MsgLen = taken + n
    BY <1>2, <1>4, <1>6
  <2>2. n <= Len(Buffer)
    BY <1>1, <2>1
  <2>3. taken + n <= arrived
    BY <1>4, <1>5, <1>6, <2>2
  <2> QED BY <1>4, <1>7, <2>1, <2>2, <2>3
<1>10. ASSUME NEW i \in 5 .. n PROVE Buffer[i] = b[i] /\ Buffer[i] \in Byte
  <2>1. i \in 1 .. n /\ i \in 1 .. Len(Buffer)
    BY <1>4, <1>5, <1>9
  <2>2. Buffer[i] = b[i]
    BY <1>4, <1>5, <1>7, <2>1
  <2> QED BY <1>5, <2>1, <2>2
<1>11. SubSeq(Buffer, 5, n) = SubSeq(b, 5, n)
  <2>1. n \in Int /\ 5 \in Int
    BY <1>4
  <2>2. /\ SubSeq(Buffer, 5, n) \in Seq(Byte)
        /\ Len(SubSeq(Buffer, 5, n)) = IF 5 <= n THEN n - 5 + 1 ELSE 0
        /\ \A i \in 1 .. n - 5 + 1 : SubSeq(Buffer, 5, n)[i] = Buffer[5 + i - 1]
    BY <1>10, <2>1, SubSeqProperties
  <2>3. /\ SubSeq(b, 5, n) \in Seq(Byte)
        /\ Len(SubSeq(b, 5, n)) = IF 5 <= n THEN n - 5 + 1 ELSE 0
        /\ \A i \in 1 .. n - 5 + 1 : SubSeq(b, 5, n)[i] = b[5 + i - 1]
    <3>1. \A i \in 5 .. n : b[i] \in Byte
      BY <1>10
    <3> QED BY <2>1, <3>1, SubSeqProperties
  <2>4. ASSUME NEW i \in 1 .. Len(SubSeq(Buffer, 5, n))
        PROVE  SubSeq(Buffer, 5, n)[i] = SubSeq(b, 5, n)[i]
    <3>1. i \in 1 .. n - 5 + 1 /\ 5 + i - 1 \in 5 .. n
      BY <1>4, <2>2
    <3> QED BY <1>10, <2>2, <2>3, <3>1
  <2> QED BY <2>2, <2>3, <2>4, SeqEqual
<1> QED
  BY <1>2, <1>9, <1>11 DEF k, b, n

----------------------------------------------------------------------------
(* Every step keeps the invariant                                          *)

LEMMA Initially == Init => Inv
<1> SUFFICES ASSUME Init PROVE Inv
  OBVIOUS
<1>1. /\ pstrlen \in PstrLens /\ sent \in UNION {[1 .. n -> Sendable] : n \in 0 .. MaxSent}
      /\ arrived = 0 /\ taken = 0 /\ open = TRUE /\ place = "length" /\ decoded = <<>>
  BY DEF Init
<1>2. pstrlen \in Byte /\ sent \in Seq(Sendable)
  <2>1. PICK n \in 0 .. MaxSent : sent \in [1 .. n -> Sendable]
    BY <1>1
  <2>2. n \in Nat
    BY PeerWireAssumptions
  <2> QED BY <1>1, <2>1, <2>2, PeerWireAssumptions DEF Byte
<1>3. Len(Stream) \in Nat /\ Len(sent) \in Nat
  BY <1>2, StreamShape, Ends
<1>4. Shape
  BY <1>1, <1>2, <1>3 DEF Shape
<1> QED
  BY <1>1, <1>3, <1>4 DEF Inv, InHandshake, StreamExact

\* The peer's messages never change, nor where they end.
LEMMA Unmoved ==
  ASSUME [Next]_vars
  PROVE  /\ pstrlen' = pstrlen /\ sent' = sent
         /\ Stream' = Stream /\ HandshakeLen' = HandshakeLen
         /\ \A k : EndOf(k)' = EndOf(k)
<1>1. pstrlen' = pstrlen /\ sent' = sent
  BY DEF Next, Arrive, Close, ReadLength, ReadRest, HandshakeFails, DecodeMessage, EndOfStream, vars
<1> QED
  BY <1>1 DEF Stream, HandshakeLen, EndOf

LEMMA ReadingHandshake ==
  ASSUME Inv, ReadLength \/ ReadRest \/ HandshakeFails
  PROVE  Inv'
<1>1. /\ pstrlen' = pstrlen /\ sent' = sent
      /\ Stream' = Stream /\ HandshakeLen' = HandshakeLen
      /\ \A k : EndOf(k)' = EndOf(k)
  BY Unmoved DEF Next
<1>2. /\ arrived' = arrived /\ decoded' = decoded /\ open' = open
  BY DEF ReadLength, ReadRest, HandshakeFails
<1>3. /\ pstrlen \in Byte /\ sent \in Seq(Sendable) /\ arrived \in Nat /\ taken \in Nat
      /\ taken <= arrived /\ decoded \in Seq(Meanings)
      /\ HandshakeLen = pstrlen + 49 /\ EndOf(0) = HandshakeLen /\ Len(sent) \in Nat
      /\ Stream[1] = pstrlen
  <2>1. pstrlen \in Byte /\ sent \in Seq(Sendable)
    BY DEF Inv, Shape
  <2>2. Len(Stream) \in Nat /\ HandshakeLen = pstrlen + 49 /\ Stream[1] = pstrlen
    BY <2>1, StreamShape
  <2>3. EndOf(0) = HandshakeLen /\ Len(sent) \in Nat
    BY <2>1, Ends
  <2> QED BY <2>1, <2>2, <2>3 DEF Inv, Shape
<1>4. /\ Len(Buffer) = arrived - taken /\ Buffer \in Seq(Byte)
      /\ \A i \in 1 .. Len(Buffer) : Buffer[i] = Stream[taken + i]
  BY BufferIs DEF Inv
<1>5. CASE ReadLength
  <2>1. /\ place = "length" /\ Buffer # <<>> /\ taken' = 1
        /\ place' = IF Head(Buffer) = 0 THEN "refused" ELSE "rest"
    BY <1>5 DEF ReadLength
  <2>2. taken = 0 /\ decoded = <<>>
    BY <2>1 DEF Inv, InHandshake
  <2>3. Len(Buffer) >= 1 /\ Head(Buffer) = Buffer[1]
    BY <1>4, <2>1
  <2>4. Head(Buffer) = pstrlen /\ arrived >= 1
    BY <1>3, <1>4, <2>2, <2>3
  <2>5. Shape'
    BY <1>1, <1>2, <1>3, <2>1, <2>4 DEF Inv, Shape
  <2>6. InHandshake'
    BY <1>1, <1>2, <2>1, <2>2, <2>4 DEF InHandshake
  <2>7. StreamExact'
    BY <1>1, <1>2, <1>3, <2>1, <2>2, <2>4 DEF StreamExact
  <2> QED BY <2>5, <2>6, <2>7 DEF Inv
<1>6. CASE ReadRest
  <2>1. /\ place = "rest" /\ Len(Buffer) >= RestOfHandshake(pstrlen)
        /\ taken' = taken + RestOfHandshake(pstrlen) /\ place' = "messages"
    BY <1>6 DEF ReadRest
  <2>2. taken = 1 /\ decoded = <<>>
    BY <2>1 DEF Inv, InHandshake
  <2>3. RestOfHandshake(pstrlen) = pstrlen + 48 /\ pstrlen \in Nat
    BY <1>3 DEF RestOfHandshake, Byte
  <2>4. taken' = EndOf(0) /\ taken' \in 0 .. arrived
    BY <1>3, <1>4, <2>1, <2>2, <2>3
  <2>5. Shape'
    BY <1>1, <1>2, <2>1, <2>4 DEF Inv, Shape
  <2>6. StreamExact'
    BY <1>1, <1>2, <1>3, <2>1, <2>2, <2>4 DEF StreamExact
  <2> QED BY <2>1, <2>5, <2>6 DEF Inv, InHandshake
<1>7. CASE HandshakeFails
  <2>1. /\ ~open /\ place' = "refused" /\ taken' = taken
        /\ \/ place = "length" /\ Buffer = <<>>
           \/ place = "rest" /\ Len(Buffer) < RestOfHandshake(pstrlen)
    BY <1>7 DEF HandshakeFails
  <2>2. decoded = <<>> /\ (place = "length" => taken = 0) /\ (place = "rest" => taken = 1)
    BY <2>1 DEF Inv, InHandshake
  <2>3. arrived < HandshakeLen
    <3>1. RestOfHandshake(pstrlen) = pstrlen + 48 /\ pstrlen \in Nat
      BY <1>3 DEF RestOfHandshake, Byte
    <3>2. CASE place = "length" /\ Buffer = <<>>
      <4>1. Len(Buffer) = 0
        BY <3>2
      <4> QED BY <1>3, <1>4, <2>2, <3>1, <3>2, <4>1
    <3>3. CASE place = "rest" /\ Len(Buffer) < RestOfHandshake(pstrlen)
      BY <1>3, <1>4, <2>2, <3>1, <3>3
    <3> QED BY <2>1, <3>2, <3>3
  <2>4. Shape'
    BY <1>1, <1>2, <2>1 DEF Inv, Shape
  <2>5. StreamExact'
    BY <1>1, <1>2, <1>3, <2>1, <2>2, <2>3 DEF StreamExact
  <2> QED BY <2>1, <2>4, <2>5 DEF Inv, InHandshake
<1> QED
  BY <1>5, <1>6, <1>7

LEMMA ReadingMessages ==
  ASSUME Inv, DecodeMessage \/ EndOfStream
  PROVE  Inv'
<1>1. /\ pstrlen' = pstrlen /\ sent' = sent
      /\ Stream' = Stream /\ HandshakeLen' = HandshakeLen
      /\ \A k : EndOf(k)' = EndOf(k)
  BY Unmoved DEF Next
<1> DEFINE k == Len(decoded)
<1>2. /\ arrived' = arrived /\ open' = open /\ place = "messages"
  BY DEF DecodeMessage, EndOfStream
<1>3. /\ sent \in Seq(Sendable) /\ pstrlen \in Byte /\ Shape
      /\ decoded \in Seq(Meanings) /\ k <= Len(sent) /\ taken = EndOf(k)
      /\ \A i \in DOMAIN decoded : decoded[i] = sent[i].means
      /\ k \in Nat /\ Len(sent) \in Nat
  BY <1>2 DEF Inv, Shape, StreamExact
<1>4. arrived \in Nat /\ taken \in Nat
  <2>1. Len(Stream) \in Nat
    BY <1>3, StreamShape
  <2> QED BY <1>3, <2>1 DEF Shape
<1>5. CASE DecodeMessage
  <2> DEFINE octets == sent[k + 1].octets
             payload == SubSeq(Buffer, 5, 4 + MsgLen)
  <2>1. /\ Complete /\ taken' = taken + 4 + MsgLen
        /\ IF TooShort(payload) THEN place' = "panicked" /\ decoded' = decoded
           ELSE place' = place /\ decoded' = Append(decoded, Decode(payload))
    BY <1>5 DEF DecodeMessage
  <2>2. /\ k \in 0 .. Len(sent) - 1 /\ taken + 4 + MsgLen = EndOf(k + 1)
        /\ taken + 4 + MsgLen <= arrived
        /\ payload = SubSeq(octets, 5, Len(octets))
    BY <1>3, <2>1, MessageIsThere
  <2>3. sent[k + 1] \in Sendable
    BY <1>3, <2>2
  <2>4. sent[k + 1].means = IF TooShort(payload) THEN Nothing ELSE Decode(payload)
    BY <2>2, <2>3, PeerWireAssumptions DEF Meaning
  <2>5. taken' \in 0 .. arrived
    <3>1. k + 1 \in 0 .. Len(sent)
      BY <1>3, <2>2
    <3>2. EndOf(k + 1) \in Nat
      BY <1>3, <3>1, Ends
    <3> QED BY <1>4, <2>1, <2>2, <3>2
  <2> HIDE DEF payload, octets
  <2>6. CASE TooShort(payload)
    <3>1. place' = "panicked" /\ decoded' = decoded /\ sent[k + 1].means = Nothing /\ k < Len(sent)
      BY <1>3, <2>1, <2>2, <2>4, <2>6
    <3>2. Shape'
      BY <1>1, <1>2, <1>3, <2>5, <3>1 DEF Shape
    <3>3. StreamExact'
      BY <1>1, <1>2, <1>3, <3>1 DEF StreamExact
    <3> QED BY <3>1, <3>2, <3>3 DEF Inv, InHandshake
  <2>7. CASE ~TooShort(payload)
    <3>1. place' = "messages" /\ decoded' = Append(decoded, sent[k + 1].means)
      BY <1>2, <2>1, <2>4, <2>7
    <3>2. sent[k + 1].means \in Meanings
      BY <2>3 DEF Meanings
    <3>3. /\ decoded' \in Seq(Meanings) /\ Len(decoded') = k + 1
          /\ \A i \in 1 .. k : decoded'[i] = decoded[i]
          /\ decoded'[k + 1] = sent[k + 1].means
      BY <1>3, <3>1, <3>2, AppendProperties
    <3>4. Shape'
      BY <1>1, <1>2, <1>3, <2>5, <3>1, <3>3 DEF Shape
    <3>5. ASSUME NEW i \in DOMAIN decoded' PROVE decoded'[i] = sent'[i].means
      <4>1. i \in 1 .. k + 1
        BY <3>3
      <4>2. CASE i \in 1 .. k
        <5>1. i \in DOMAIN decoded
          BY <1>3, <4>2
        <5> QED BY <1>1, <1>3, <3>3, <4>2, <5>1
      <4>3. CASE i = k + 1
        BY <1>1, <3>3, <4>3
      <4> QED BY <1>3, <4>1, <4>2, <4>3
    <3>6. Len(decoded') <= Len(sent') /\ taken' = EndOf(Len(decoded))'
      <4>1. k + 1 <= Len(sent)
        BY <1>3, <2>2
      <4>2. EndOf(Len(decoded))' = EndOf(k + 1)
        BY <1>1, <3>3 DEF EndOf
      <4> QED BY <1>1, <2>1, <2>2, <3>3, <4>1, <4>2
    <3>7. StreamExact'
      BY <3>1, <3>5, <3>6 DEF StreamExact
    <3> QED BY <3>1, <3>4, <3>7 DEF Inv, InHandshake
  <2> QED BY <2>6, <2>7
<1>6. CASE EndOfStream
  <2>1. ~open /\ ~Complete /\ place' = "ended" /\ taken' = taken /\ decoded' = decoded
    BY <1>6 DEF EndOfStream
  <2>2. Shape'
    BY <1>1, <1>2, <1>3, <2>1 DEF Shape
  <2>3. ASSUME k < Len(sent) PROVE arrived < EndOf(k + 1)
    <3>1. SUFFICES ASSUME ~ arrived < EndOf(k + 1) PROVE FALSE
      OBVIOUS
    <3>2. k \in 0 .. Len(sent) - 1
      BY <1>3, <2>3
    <3> DEFINE n == Len(sent[k + 1].octets)
    <3>3. n \in Nat /\ EndOf(k) \in Nat /\ EndOf(k + 1) = EndOf(k) + n
      BY <1>3, <3>2, NextOctets
    <3>4. n >= 4
      <4>1. sent[k + 1] \in Sendable
        BY <1>3, <3>2
      <4> QED BY <4>1, PeerWireAssumptions DEF WellFramed
    <3>5. Len(Buffer) = arrived - taken
      BY <1>3, BufferIs
    <3>6. Len(Buffer) >= n
      BY <1>3, <1>4, <3>1, <3>3, <3>5
    <3>7. Len(Buffer) >= 4
      BY <1>4, <3>3, <3>4, <3>5, <3>6
    <3>8. MsgLen = n - 4
      BY <1>3, <3>7, LengthIsThere
    <3> QED BY <2>1, <3>3, <3>6, <3>7, <3>8 DEF Complete
  <2>4. StreamExact'
    BY <1>1, <1>2, <1>3, <2>1, <2>3 DEF StreamExact
  <2> QED BY <2>1, <2>2, <2>4 DEF Inv, InHandshake
<1> QED
  BY <1>5, <1>6

LEMMA InvStep ==
  ASSUME Inv, [Next]_vars
  PROVE  Inv'
<1>1. /\ pstrlen' = pstrlen /\ sent' = sent
      /\ Stream' = Stream /\ HandshakeLen' = HandshakeLen
      /\ \A k : EndOf(k)' = EndOf(k)
  BY Unmoved
<1>2. Len(Stream) \in Nat /\ Len(sent) \in Nat
  BY StreamShape, Ends DEF Inv, Shape
<1>3. CASE Arrive
  <2>1. /\ open /\ arrived < Len(Stream) /\ arrived' = arrived + 1
        /\ taken' = taken /\ open' = open /\ place' = place /\ decoded' = decoded
    BY <1>3 DEF Arrive
  <2>2. arrived' \in 0 .. Len(Stream) /\ taken \in 0 .. arrived'
    BY <1>2, <2>1 DEF Inv, Shape
  <2>3. Shape'
    BY <1>1, <2>1, <2>2 DEF Inv, Shape
  <2>4. InHandshake'
    BY <1>1, <2>1 DEF Inv, InHandshake
  <2>5. StreamExact'
    BY <1>1, <2>1 DEF Inv, StreamExact
  <2> QED BY <2>3, <2>4, <2>5 DEF Inv
<1>4. CASE Close \/ UNCHANGED vars
  <2>1. /\ arrived' = arrived /\ taken' = taken /\ place' = place /\ decoded' = decoded
        /\ open' = FALSE \/ open' = open
    BY <1>4 DEF Close, vars
  <2>2. Shape'
    BY <1>1, <2>1 DEF Inv, Shape
  <2>3. InHandshake'
    BY <1>1, <2>1 DEF Inv, InHandshake
  <2>4. StreamExact'
    BY <1>1, <2>1 DEF Inv, StreamExact
  <2> QED BY <2>2, <2>3, <2>4 DEF Inv
<1> QED
  BY <1>3, <1>4, ReadingHandshake, ReadingMessages DEF Next

\* However the stream is cut and wherever it breaks off, the reader decodes
\* what the peer meant, message by message, and ends early only at a message
\* that means nothing (peer_messages.rs, lines 95-109; peer_handshake.rs,
\* lines 83-105).
THEOREM ReaderInStep == Spec => []StreamExact
<1>1. Init => Inv
  BY Initially
<1>2. Inv /\ [Next]_vars => Inv'
  BY InvStep
<1>3. Inv => StreamExact
  BY DEF Inv
<1> QED
  BY <1>1, <1>2, <1>3, PTL DEF Spec

----------------------------------------------------------------------------
(* The codec                                                               *)

\* The integers of 32 bits.
Word == {n \in Nat : n \div 16777216 < 256}
Bit == {0, 1}

\* Four octets hold an integer of 32 bits (lines 99 and 118-147).
LEMMA FourOctets ==
  ASSUME NEW n \in Word
  PROVE  /\ U32(n) \in Seq(Byte) /\ Len(U32(n)) = 4
         /\ \A octets : (\A i \in 1 .. 4 : octets[i] = U32(n)[i]) => FromU32(octets) = n
<1> DEFINE a == (n \div 16777216) % 256
           b == (n \div 65536) % 256
           c == (n \div 256) % 256
           d == n % 256
<1>1. n \in Nat /\ n \div 16777216 < 256
  BY SMT DEF Word
<1>2. a \in Byte /\ b \in Byte /\ c \in Byte /\ d \in Byte
  BY <1>1, SMT DEF Byte
<1>3. n = 16777216 * a + 65536 * b + 256 * c + d
  BY <1>1, SMTT(30)
<1>4. U32(n) = <<a, b, c, d>>
  BY SMT DEF U32
<1> HIDE DEF a, b, c, d
<1>5. U32(n) \in Seq(Byte) /\ Len(U32(n)) = 4
  BY <1>2, <1>4
<1>6. U32(n)[1] = a /\ U32(n)[2] = b /\ U32(n)[3] = c /\ U32(n)[4] = d
  BY <1>4
<1>7. ASSUME NEW octets, \A i \in 1 .. 4 : octets[i] = U32(n)[i] PROVE FromU32(octets) = n
  <2>1. octets[1] = a /\ octets[2] = b /\ octets[3] = c /\ octets[4] = d
    BY <1>6, <1>7
  <2> QED BY <1>3, <2>1, SMT DEF FromU32
<1> QED
  BY <1>5, <1>7

\* The octets of integers, and where each of them is.
LEMMA WordsAre ==
  ASSUME NEW ints \in Seq(Word)
  PROVE  /\ Words(ints) \in Seq(Byte) /\ Len(Words(ints)) = 4 * Len(ints)
         /\ \A i \in 1 .. Len(ints) : \A j \in 1 .. 4 :
              /\ 4 * i - 4 + j \in 1 .. 4 * Len(ints)
              /\ Words(ints)[4 * i - 4 + j] = U32(ints[i])[j]
<1>1. Len(ints) \in Nat /\ 4 * Len(ints) \in Nat
  OBVIOUS
<1>2. ASSUME NEW p \in 1 .. 4 * Len(ints)
      PROVE  U32(ints[(p - 1) \div 4 + 1])[((p - 1) % 4) + 1] \in Byte
  <2>1. (p - 1) \div 4 + 1 \in 1 .. Len(ints) /\ ((p - 1) % 4) + 1 \in 1 .. 4
    BY <1>1
  <2>2. ints[(p - 1) \div 4 + 1] \in Word
    BY <2>1
  <2>3. U32(ints[(p - 1) \div 4 + 1]) \in Seq(Byte) /\ Len(U32(ints[(p - 1) \div 4 + 1])) = 4
    BY <2>2, FourOctets
  <2> QED BY <2>1, <2>3
<1>3. Words(ints) \in Seq(Byte) /\ Len(Words(ints)) = 4 * Len(ints)
  BY <1>1, <1>2 DEF Words
<1>4. ASSUME NEW i \in 1 .. Len(ints), NEW j \in 1 .. 4
      PROVE  /\ 4 * i - 4 + j \in 1 .. 4 * Len(ints)
             /\ Words(ints)[4 * i - 4 + j] = U32(ints[i])[j]
  <2> DEFINE p == 4 * i - 4 + j
  <2>1. p \in 1 .. 4 * Len(ints) /\ (p - 1) \div 4 + 1 = i /\ ((p - 1) % 4) + 1 = j
    BY <1>1
  <2> HIDE DEF p
  <2>2. Words(ints)[p] = U32(ints[(p - 1) \div 4 + 1])[((p - 1) % 4) + 1]
    BY <2>1 DEF Words
  <2>3. Words(ints)[p] = U32(ints[i])[j]
    BY <2>1, <2>2
  <2> QED BY <2>1, <2>3 DEF p
<1> QED
  BY <1>3, <1>4

\* The bits of a sum of the weights.
LEMMA Sums ==
  ASSUME NEW n, NEW b1 \in 0 .. 1, NEW b2 \in 0 .. 1, NEW b3 \in 0 .. 1, NEW b4 \in 0 .. 1,
         NEW b5 \in 0 .. 1, NEW b6 \in 0 .. 1, NEW b7 \in 0 .. 1, NEW b8 \in 0 .. 1,
         n = 128 * b1 + 64 * b2 + 32 * b3 + 16 * b4 + 8 * b5 + 4 * b6 + 2 * b7 + b8
  PROVE  /\ (n \div 128) % 2 = b1 /\ (n \div 64) % 2 = b2
         /\ (n \div 32) % 2 = b3 /\ (n \div 16) % 2 = b4
         /\ (n \div 8) % 2 = b5 /\ (n \div 4) % 2 = b6
         /\ (n \div 2) % 2 = b7 /\ (n \div 1) % 2 = b8
<1>1. n \div 128 = b1
  OBVIOUS
<1>2. n \div 64 = 2 * b1 + b2
  OBVIOUS
<1>3. n \div 32 = 4 * b1 + 2 * b2 + b3
  OBVIOUS
<1>4. n \div 16 = 8 * b1 + 4 * b2 + 2 * b3 + b4
  OBVIOUS
<1>5. n \div 8 = 16 * b1 + 8 * b2 + 4 * b3 + 2 * b4 + b5
  OBVIOUS
<1>6. n \div 4 = 32 * b1 + 16 * b2 + 8 * b3 + 4 * b4 + 2 * b5 + b6
  OBVIOUS
<1>7. n \div 2 = 64 * b1 + 32 * b2 + 16 * b3 + 8 * b4 + 4 * b5 + 2 * b6 + b7
  OBVIOUS
<1>8. n \div 1 = 128 * b1 + 64 * b2 + 32 * b3 + 16 * b4 + 8 * b5 + 4 * b6 + 2 * b7 + b8
  OBVIOUS
<1>9. \A q \in Nat : \A x \in 0 .. 1 : (2 * q + x) % 2 = x
  OBVIOUS
<1>10. (n \div 128) % 2 = b1
  BY <1>1, <1>9
<1>11. (n \div 64) % 2 = b2
  BY <1>2, <1>9
<1>12. (n \div 32) % 2 = b3
  BY <1>3, <1>9
<1>13. (n \div 16) % 2 = b4
  BY <1>4, <1>9
<1>14. (n \div 8) % 2 = b5
  BY <1>5, <1>9
<1>15. (n \div 4) % 2 = b6
  BY <1>6, <1>9
<1>16. (n \div 2) % 2 = b7
  BY <1>7, <1>9
<1>17. (n \div 1) % 2 = b8
  BY <1>8, <1>9
<1> QED
  BY <1>10, <1>11, <1>12, <1>13, <1>14, <1>15, <1>16, <1>17

\* An octet holds eight bits, the first one the highest (lines 49-50 and 138).
LEMMA EightBits ==
  ASSUME NEW b, \A i \in 1 .. 8 : b[i] \in Bit
  PROVE  /\ Octet(b) \in Byte
         /\ \A i \in 1 .. 8 : (Octet(b) \div Weights[i]) % 2 = b[i]
<1>1. PICK b1 \in 0 .. 1, b2 \in 0 .. 1, b3 \in 0 .. 1, b4 \in 0 .. 1,
           b5 \in 0 .. 1, b6 \in 0 .. 1, b7 \in 0 .. 1, b8 \in 0 .. 1 :
        /\ b1 = b[1] /\ b2 = b[2] /\ b3 = b[3] /\ b4 = b[4]
        /\ b5 = b[5] /\ b6 = b[6] /\ b7 = b[7] /\ b8 = b[8]
  <2>1. /\ b[1] \in 0 .. 1 /\ b[2] \in 0 .. 1 /\ b[3] \in 0 .. 1 /\ b[4] \in 0 .. 1
        /\ b[5] \in 0 .. 1 /\ b[6] \in 0 .. 1 /\ b[7] \in 0 .. 1 /\ b[8] \in 0 .. 1
    BY DEF Bit
  <2> QED BY <2>1, Zenon
<1> DEFINE n == Octet(b)
<1>2. n = 128 * b1 + 64 * b2 + 32 * b3 + 16 * b4 + 8 * b5 + 4 * b6 + 2 * b7 + b8
  BY <1>1 DEF Octet
<1> HIDE DEF n
<1>3. n \in Byte
  BY <1>2 DEF Byte
<1>4. /\ (n \div 128) % 2 = b1 /\ (n \div 64) % 2 = b2
      /\ (n \div 32) % 2 = b3 /\ (n \div 16) % 2 = b4
      /\ (n \div 8) % 2 = b5 /\ (n \div 4) % 2 = b6
      /\ (n \div 2) % 2 = b7 /\ (n \div 1) % 2 = b8
  BY <1>2, Sums
<1>5. /\ Weights[1] = 128 /\ Weights[2] = 64 /\ Weights[3] = 32 /\ Weights[4] = 16
      /\ Weights[5] = 8 /\ Weights[6] = 4 /\ Weights[7] = 2 /\ Weights[8] = 1
  BY DEF Weights
<1>6. \A i \in 1 .. 8 : (n \div Weights[i]) % 2 = b[i]
  BY <1>1, <1>4, <1>5
<1> QED
  BY <1>3, <1>6 DEF n

\* A bitfield is padded to whole octets.
LEMMA PaddedIs ==
  ASSUME NEW bits \in Seq(Bit)
  PROVE  /\ Padded(bits) \in Seq(Bit)
         /\ Len(Padded(bits)) \div 8 \in Nat
         /\ Len(Padded(bits)) = 8 * (Len(Padded(bits)) \div 8)
<1> DEFINE spare == (8 - (Len(bits) % 8)) % 8
           zeros == [k \in 1 .. spare |-> 0]
<1>1. Len(bits) \in Nat /\ spare \in 0 .. 7 /\ (Len(bits) + spare) % 8 = 0
  OBVIOUS
<1>2. zeros \in Seq(Bit) /\ Len(zeros) = spare
  BY <1>1 DEF Bit
<1> HIDE DEF spare, zeros
<1>3. Padded(bits) = bits \o zeros
  BY DEF Padded, zeros, spare
<1>4. Padded(bits) \in Seq(Bit) /\ Len(Padded(bits)) = Len(bits) + spare
  BY <1>2, <1>3
<1> QED
  BY <1>1, <1>4

\* The octets of a bitfield hold its bits (lines 48-51 and 135-139).
LEMMA BitsOfOctets ==
  ASSUME NEW bits \in Seq(Bit)
  PROVE  /\ Octets(bits) \in Seq(Byte)
         /\ Len(Octets(bits)) = Len(Padded(bits)) \div 8
         /\ Bits(Octets(bits)) = Padded(bits)
<1> DEFINE padded == Padded(bits)
           len == Len(padded) \div 8
           Block(j) == SubSeq(padded, 8 * j - 7, 8 * j)
<1>1. padded \in Seq(Bit) /\ len \in Nat /\ Len(padded) = 8 * len
  BY PaddedIs
<1>2. Octets(bits) = [j \in 1 .. len |-> Octet(Block(j))]
  BY DEF Octets
<1> HIDE DEF padded, len
<1>3. ASSUME NEW j \in 1 .. len, NEW m \in 1 .. 8
      PROVE  Block(j)[m] = padded[8 * (j - 1) + m] /\ Block(j)[m] \in Bit
  <2>1. 8 * j - 7 \in 1 .. Len(padded) /\ 8 * j \in 1 .. Len(padded)
    BY <1>1
  <2>2. Block(j)[m] = padded[8 * j - 7 + m - 1]
    BY <1>1, <2>1, SubSeqProperties
  <2>3. 8 * j - 7 + m - 1 = 8 * (j - 1) + m /\ 8 * (j - 1) + m \in 1 .. Len(padded)
    BY <1>1
  <2> QED BY <1>1, <2>2, <2>3
<1> HIDE DEF Block
<1>4. ASSUME NEW j \in 1 .. len
      PROVE  /\ Octet(Block(j)) \in Byte
             /\ \A m \in 1 .. 8 : (Octet(Block(j)) \div Weights[m]) % 2 = padded[8 * (j - 1) + m]
  BY <1>3, EightBits
<1>5. Octets(bits) \in Seq(Byte) /\ Len(Octets(bits)) = len
  BY <1>1, <1>2, <1>4
<1>6. ASSUME NEW k \in 1 .. 8 * len
      PROVE  (Octets(bits)[(k - 1) \div 8 + 1] \div Weights[((k - 1) % 8) + 1]) % 2 = padded[k]
  <2> DEFINE j == (k - 1) \div 8 + 1
             m == ((k - 1) % 8) + 1
  <2>1. j \in 1 .. len /\ m \in 1 .. 8 /\ k = 8 * (j - 1) + m
    BY <1>1
  <2> HIDE DEF j, m
  <2>2. (Octets(bits)[j] \div Weights[m]) % 2 = padded[k]
    BY <1>2, <1>4, <2>1
  <2> QED BY <2>2 DEF j, m
<1>7. Bits(Octets(bits)) = [k \in 1 .. 8 * len |-> padded[k]]
  BY <1>5, <1>6 DEF Bits
<1>8. padded = [k \in 1 .. 8 * len |-> padded[k]]
  BY <1>1
<1> QED
  BY <1>5, <1>7, <1>8 DEF padded, len

\* The id of a message names it (lines 28-79 and 118-147).
LEMMA IdsNameTypes ==
  ASSUME NEW type \in {Types[i] : i \in DOMAIN Types}
  PROVE  IdOf(type) \in Byte /\ TypeOf(IdOf(type)) = type
<1>1. DOMAIN Types = 1 .. 9 /\ Len(Types) = 9
  BY DEF Types
<1> DEFINE i == CHOOSE i \in DOMAIN Types : Types[i] = type
<1>2. i \in DOMAIN Types /\ Types[i] = type
  OBVIOUS
<1>3. IdOf(type) = i - 1
  BY DEF IdOf
<1> HIDE DEF i
<1>4. IdOf(type) \in Byte /\ IdOf(type) < 9 /\ IdOf(type) + 1 = i
  BY <1>1, <1>2, <1>3 DEF Byte
<1>5. TypeOf(IdOf(type)) = Types[IdOf(type) + 1]
  BY <1>1, <1>4 DEF TypeOf
<1> QED
  BY <1>2, <1>4, <1>5

\* Where the octets of two sequences are in their concatenation.
LEMMA Concatenated ==
  ASSUME NEW front \in Seq(Byte), NEW back \in Seq(Byte)
  PROVE  /\ front \o back \in Seq(Byte) /\ Len(front \o back) = Len(front) + Len(back)
         /\ \A i \in 1 .. Len(front) : (front \o back)[i] = front[i]
         /\ \A i \in 1 .. Len(back) : (front \o back)[Len(front) + i] = back[i]
<1>1. Len(front) \in Nat /\ Len(back) \in Nat
  OBVIOUS
<1>2. /\ front \o back \in Seq(Byte) /\ Len(front \o back) = Len(front) + Len(back)
      /\ \A i \in 1 .. Len(front) : (front \o back)[i] = front[i]
  BY <1>1
<1>3. ASSUME NEW i \in 1 .. Len(back) PROVE (front \o back)[Len(front) + i] = back[i]
  <2> DEFINE n == Len(front) + i
  <2>1. n \in 1 .. Len(front) + Len(back) /\ ~(n <= Len(front)) /\ n - Len(front) = i
    BY <1>1
  <2> HIDE DEF n
  <2>2. (front \o back)[n] = back[n - Len(front)]
    BY <1>1, <2>1
  <2> QED BY <2>1, <2>2 DEF n
<1> QED
  BY <1>2, <1>3

\* A message without its length.
Payload(frame) == SubSeq(frame, 5, Len(frame))

\* What a framed message holds: its id, its integers and what follows them.
Holds(payload, id, ints, octets) ==
  /\ payload \in Seq(Byte) /\ Len(payload) = 1 + 4 * Len(ints) + Len(octets)
  /\ payload[1] = id
  /\ \A i \in 1 .. Len(ints) : Integer(payload, i) = ints[i]
  /\ \A i \in 1 .. Len(octets) : payload[1 + 4 * Len(ints) + i] = octets[i]

\* A framed message has its length and holds what was put into it
\* (lines 114-147).
LEMMA FrameIs ==
  ASSUME NEW type \in {Types[i] : i \in DOMAIN Types},
         NEW ints \in Seq(Word), NEW octets \in Seq(Byte),
         1 + 4 * Len(ints) + Len(octets) \in Word
  PROVE  /\ WellFramed(Frame(type, ints, octets))
         /\ Holds(Payload(Frame(type, ints, octets)), IdOf(type), ints, octets)
<1> DEFINE frame == Frame(type, ints, octets)
           payload == Payload(frame)
           words == Words(ints)
           body == words \o octets
           len == 1 + Len(body)
           id == IdOf(type)
<1>1. Len(ints) \in Nat /\ Len(octets) \in Nat
  OBVIOUS
<1>2. words \in Seq(Byte) /\ Len(words) = 4 * Len(ints)
  BY WordsAre
<1>3. id \in Byte
  BY IdsNameTypes
<1>4. frame = U32(len) \o <<id>> \o body
  BY DEF Frame
<1> HIDE DEF frame, words, id
<1>5. body \in Seq(Byte) /\ Len(body) = 4 * Len(ints) + Len(octets)
  BY <1>1, <1>2
<1>6. len \in Word /\ len \in Nat
  BY <1>1, <1>5
<1>7. /\ \A i \in 1 .. Len(words) : body[i] = words[i]
      /\ \A i \in 1 .. Len(octets) : body[Len(words) + i] = octets[i]
  BY <1>2, Concatenated
<1> HIDE DEF body
<1>8. U32(len) \in Seq(Byte) /\ Len(U32(len)) = 4
  BY <1>6, FourOctets
<1>9. /\ frame \in Seq(Byte) /\ Len(frame) = 4 + len
      /\ \A i \in 1 .. 4 : frame[i] = U32(len)[i]
      /\ frame[5] = id
      /\ \A i \in 1 .. Len(body) : frame[5 + i] = body[i]
  <2>1. <<id>> \in Seq(Byte) /\ Len(<<id>>) = 1 /\ <<id>>[1] = id
    BY <1>3
  <2> DEFINE head == U32(len) \o <<id>>
  <2>2. /\ head \in Seq(Byte) /\ Len(head) = 5
        /\ \A i \in 1 .. 4 : head[i] = U32(len)[i]
        /\ head[5] = id
    <3> DEFINE front == U32(len)
               back == <<id>>
    <3>1. head = front \o back
      OBVIOUS
    <3> HIDE DEF head
    <3>2. front \in Seq(Byte) /\ Len(front) = 4 /\ back \in Seq(Byte) /\ Len(back) = 1 /\ back[1] = id
      BY <1>8, <2>1
    <3> HIDE DEF front, back
    <3>3. /\ front \o back \in Seq(Byte) /\ Len(front \o back) = Len(front) + Len(back)
          /\ \A i \in 1 .. Len(front) : (front \o back)[i] = front[i]
          /\ \A i \in 1 .. Len(back) : (front \o back)[Len(front) + i] = back[i]
      BY <3>2, Concatenated
    <3>4. head[Len(front) + 1] = back[1] /\ Len(front) + 1 = 5
      BY <3>1, <3>2, <3>3
    <3> QED BY <3>1, <3>2, <3>3, <3>4 DEF front
  <2>3. frame = head \o body
    BY <1>4
  <2> HIDE DEF head
  <2>4. /\ head \o body \in Seq(Byte) /\ Len(head \o body) = Len(head) + Len(body)
        /\ \A i \in 1 .. Len(head) : (head \o body)[i] = head[i]
        /\ \A i \in 1 .. Len(body) : (head \o body)[Len(head) + i] = body[i]
    BY <1>5, <2>2, Concatenated
  <2> QED BY <1>5, <2>2, <2>3, <2>4
<1>10. FromU32(SubSeq(frame, 1, 4)) = len
  <2>1. \A i \in 1 .. 4 : SubSeq(frame, 1, 4)[i] = U32(len)[i]
    BY <1>6, <1>9
  <2> QED BY <1>6, <2>1, FourOctets
<1>11. WellFramed(frame)
  BY <1>6, <1>9, <1>10 DEF WellFramed, Byte
<1>12. /\ payload \in Seq(Byte) /\ Len(payload) = len
       /\ \A i \in 1 .. len : payload[i] = frame[4 + i]
  BY <1>6, <1>9 DEF Payload
<1> HIDE DEF payload
<1>13. payload[1] = id
  BY <1>6, <1>9, <1>12
<1>14. ASSUME NEW i \in 1 .. Len(body) PROVE payload[1 + i] = body[i]
  <2>1. 1 + i \in 1 .. len /\ 4 + (1 + i) = 5 + i
    BY <1>5
  <2>2. payload[1 + i] = frame[4 + (1 + i)]
    BY <1>12, <2>1
  <2> QED BY <1>9, <2>1, <2>2
<1>15. ASSUME NEW i \in 1 .. Len(ints) PROVE Integer(payload, i) = ints[i]
  <2>1. ASSUME NEW j \in 1 .. 4
        PROVE  SubSeq(payload, 4 * i - 2, 4 * i + 1)[j] = U32(ints[i])[j]
    <3>1. /\ 4 * i - 4 + j \in 1 .. Len(words)
          /\ words[4 * i - 4 + j] = U32(ints[i])[j]
      BY <1>2, WordsAre DEF words
    <3>2. payload[1 + (4 * i - 4 + j)] = U32(ints[i])[j]
      <4> DEFINE n == 4 * i - 4 + j
      <4>1. n \in 1 .. Len(words) /\ n \in 1 .. Len(body) /\ words[n] = U32(ints[i])[j]
        BY <1>1, <1>2, <1>5, <3>1
      <4> HIDE DEF n
      <4>2. payload[1 + n] = body[n] /\ body[n] = words[n]
        BY <1>7, <1>14, <4>1
      <4> QED BY <4>1, <4>2 DEF n
    <3>3. 4 * i - 2 \in 1 .. Len(payload) /\ 4 * i + 1 \in 1 .. Len(payload)
      BY <1>1, <1>5, <1>12
    <3>4. SubSeq(payload, 4 * i - 2, 4 * i + 1)[j] = payload[4 * i - 2 + j - 1]
      BY <1>12, <3>3, SubSeqProperties
    <3>5. 4 * i - 2 + j - 1 = 1 + (4 * i - 4 + j)
      OBVIOUS
    <3> QED BY <3>2, <3>4, <3>5
  <2>2. ints[i] \in Word
    OBVIOUS
  <2> QED BY <2>1, <2>2, FourOctets DEF Integer
<1>16. ASSUME NEW i \in 1 .. Len(octets) PROVE payload[1 + 4 * Len(ints) + i] = octets[i]
  <2>1. payload[1 + (Len(words) + i)] = octets[i]
    <3> DEFINE n == Len(words) + i
    <3>1. n \in 1 .. Len(body)
      BY <1>1, <1>2, <1>5
    <3>2. body[n] = octets[i]
      BY <1>7
    <3> HIDE DEF n
    <3>3. payload[1 + n] = octets[i]
      BY <1>14, <3>1, <3>2
    <3> QED BY <3>3 DEF n
  <2>2. 1 + (Len(words) + i) = 1 + 4 * Len(ints) + i
    BY <1>1, <1>2
  <2> QED BY <2>1, <2>2
<1> QED
  BY <1>5, <1>11, <1>12, <1>13, <1>15, <1>16 DEF Holds, frame, payload, id

\* The messages that the encoder writes: integers of 32 bits, and bitfields
\* whose length has 32 bits.
Written ==
  {message \in [type : {"KeepAlive", "Interested", "Have", "Request", "Bitfield"},
                ints : Seq(Word), rest : Seq(Bit)] :
     CASE message.type = "Bitfield" ->
            message.ints = <<>> /\ 1 + Len(Padded(message.rest)) \div 8 \in Word
       [] OTHER -> message.rest = <<>> /\ Len(message.ints) = IntsOf(message.type)}

\* A message without a body.
LEMMA KeepAliveIs ==
  /\ WellFramed(U32(0))
  /\ Meaning(U32(0)) = [type |-> "KeepAlive", ints |-> <<>>, rest |-> <<>>]
<1>1. 0 \in Word
  BY SMT DEF Word
<1>2. U32(0) \in Seq(Byte) /\ Len(U32(0)) = 4
  BY <1>1, FourOctets
<1>3. FromU32(SubSeq(U32(0), 1, 4)) = 0
  <2>1. \A i \in 1 .. 4 : SubSeq(U32(0), 1, 4)[i] = U32(0)[i]
    BY <1>2
  <2> QED BY <1>1, <2>1, FourOctets
<1>4. WellFramed(U32(0))
  <2> DEFINE octets == U32(0)
  <2>1. octets \in Seq(0 .. 255) /\ Len(octets) = 4 /\ FromU32(SubSeq(octets, 1, 4)) = 0
    BY <1>2, <1>3 DEF Byte
  <2> HIDE DEF octets
  <2>2. WellFramed(octets)
    BY <2>1 DEF WellFramed
  <2> QED BY <2>2 DEF octets
<1> DEFINE payload == Payload(U32(0))
<1>5. payload = <<>>
  <2>1. payload = SubSeq(U32(0), 5, 4)
    BY <1>2 DEF Payload
  <2>2. SubSeq(U32(0), 5, 4) = <<>>
    BY SubSeqEmpty, 4 < 5, 5 \in Int, 4 \in Int
  <2> QED BY <2>1, <2>2
<1> HIDE DEF payload
<1>6. Meaning(U32(0)) = Decode(payload)
  BY <1>5 DEF Meaning, TooShort, Payload, payload
<1>7. Decode(payload) = [type |-> "KeepAlive", ints |-> <<>>, rest |-> <<>>]
  BY <1>5 DEF Decode
<1> QED
  BY <1>4, <1>6, <1>7

\* What the encoder writes, the decoder of the peer reads: it is framed, and
\* it means the message that was written, with the spare bits of the last
\* octet of a bitfield, whatever its integers and its bits are
\* (peer_messages.rs, lines 28-79, 95-109 and 114-147).
THEOREM EncodedIsUnderstood ==
  \A message \in Written :
    /\ WellFramed(Encode(message))
    /\ Meaning(Encode(message)) = [message EXCEPT !.rest = Padded(@)]
<1> SUFFICES ASSUME NEW message \in Written
             PROVE  /\ WellFramed(Encode(message))
                    /\ Meaning(Encode(message)) = [message EXCEPT !.rest = Padded(@)]
  OBVIOUS
<1>1. /\ message.type \in {"KeepAlive", "Interested", "Have", "Request", "Bitfield"}
      /\ message.ints \in Seq(Word) /\ message.rest \in Seq(Bit)
      /\ message = [type |-> message.type, ints |-> message.ints, rest |-> message.rest]
  BY DEF Written
<1>2. [message EXCEPT !.rest = Padded(@)]
        = [type |-> message.type, ints |-> message.ints, rest |-> Padded(message.rest)]
  BY <1>1
<1>3. message.type # "Bitfield" =>
        message.rest = <<>> /\ Len(message.ints) = IntsOf(message.type)
  BY DEF Written
<1>4. Padded(<<>>) = <<>>
  <2>1. Len(<<>>) = 0 /\ (8 - (0 % 8)) % 8 = 0
    OBVIOUS
  <2>2. [k \in 1 .. 0 |-> 0] = <<>>
    OBVIOUS
  <2> QED BY <2>1, <2>2 DEF Padded
<1> DEFINE frame == Encode(message)
           payload == Payload(frame)
<1>5. CASE message.type = "KeepAlive"
  <2>1. frame = U32(0)
    BY <1>5 DEF Encode
  <2>2. message.rest = <<>> /\ message.ints = <<>>
    BY <1>1, <1>3, <1>5 DEF IntsOf
  <2> HIDE DEF frame
  <2>3. /\ WellFramed(frame)
        /\ Meaning(frame) = [type |-> "KeepAlive", ints |-> <<>>, rest |-> <<>>]
    BY <2>1, KeepAliveIs
  <2> QED BY <1>2, <1>4, <1>5, <2>2, <2>3 DEF frame
<1>6. CASE message.type \in {"Interested", "Have", "Request"}
  <2> DEFINE type == message.type
             ints == message.ints
  <2>1. frame = Frame(type, ints, <<>>)
    BY <1>6 DEF Encode
  <2>2. type \in {Types[i] : i \in DOMAIN Types}
    BY <1>6 DEF Types
  <2>3. message.rest = <<>> /\ Len(ints) = IntsOf(type) /\ IntsOf(type) \in 0 .. 3
    BY <1>3, <1>6 DEF IntsOf
  <2>4. <<>> \in Seq(Byte) /\ Len(<<>>) = 0
    OBVIOUS
  <2>5. 1 + 4 * Len(ints) + Len(<<>>) \in Word
    BY <2>3, <2>4, SMT DEF Word
  <2> HIDE DEF frame
  <2>6. /\ WellFramed(frame)
        /\ payload \in Seq(Byte) /\ Len(payload) = 1 + 4 * Len(ints) + Len(<<>>)
        /\ payload[1] = IdOf(type)
        /\ \A i \in 1 .. Len(ints) : Integer(payload, i) = ints[i]
    <3>1. WellFramed(frame) /\ Holds(payload, IdOf(type), ints, <<>>)
      BY <1>1, <2>1, <2>2, <2>4, <2>5, FrameIs
    <3> HIDE DEF payload
    <3> QED BY <3>1 DEF Holds
  <2>7. TypeOf(payload[1]) = type
    BY <2>2, <2>6, IdsNameTypes
  <2> HIDE DEF payload
  <2>8. payload # <<>> /\ ~TooShort(payload)
    BY <2>3, <2>4, <2>6, <2>7 DEF TooShort
  <2>9. ints = [i \in 1 .. IntsOf(type) |-> Integer(payload, i)]
    BY <1>1, <2>3, <2>6
  <2>10. Decode(payload) = [type |-> type, ints |-> ints, rest |-> <<>>]
    BY <1>6, <2>7, <2>8, <2>9 DEF Decode
  <2>11. Meaning(frame) = Decode(payload)
    BY <2>8 DEF Meaning, payload, Payload
  <2> QED BY <1>2, <1>4, <2>3, <2>6, <2>10, <2>11 DEF frame
<1>7. CASE message.type = "Bitfield"
  <2> DEFINE bits == message.rest
             octets == Octets(bits)
  <2>1. frame = Frame("Bitfield", <<>>, octets)
    BY <1>7 DEF Encode
  <2>2. "Bitfield" \in {Types[i] : i \in DOMAIN Types}
    BY DEF Types
  <2>3. message.ints = <<>> /\ 1 + Len(Padded(bits)) \div 8 \in Word
    BY <1>7 DEF Written
  <2>4. octets \in Seq(Byte) /\ Len(octets) = Len(Padded(bits)) \div 8 /\ Bits(octets) = Padded(bits)
    BY <1>1, BitsOfOctets
  <2>5. <<>> \in Seq(Word) /\ Len(<<>>) = 0 /\ IntsOf("Bitfield") = 0
    BY DEF IntsOf
  <2> HIDE DEF frame, octets
  <2>6. 1 + 4 * Len(<<>>) + Len(octets) \in Word
    BY <2>3, <2>4, <2>5
  <2>7. /\ WellFramed(frame)
        /\ payload \in Seq(Byte) /\ Len(payload) = 1 + 4 * Len(<<>>) + Len(octets)
        /\ payload[1] = IdOf("Bitfield")
        /\ \A i \in 1 .. Len(octets) : payload[1 + 4 * Len(<<>>) + i] = octets[i]
    <3>1. WellFramed(frame) /\ Holds(payload, IdOf("Bitfield"), <<>>, octets)
      BY <2>1, <2>2, <2>4, <2>5, <2>6, FrameIs
    <3> HIDE DEF payload
    <3> QED BY <3>1 DEF Holds
  <2>8. TypeOf(payload[1]) = "Bitfield"
    BY <2>2, <2>7, IdsNameTypes
  <2> HIDE DEF payload
  <2>9. payload # <<>> /\ ~TooShort(payload)
    BY <2>4, <2>5, <2>7, <2>8 DEF TooShort
  <2>10. Tail(payload) = octets
    <3>1. /\ Tail(payload) \in Seq(Byte) /\ Len(Tail(payload)) = Len(octets)
          /\ \A i \in 1 .. Len(octets) : Tail(payload)[i] = payload[1 + i]
      BY <2>4, <2>5, <2>7, <2>9
    <3>2. \A i \in 1 .. Len(octets) : payload[1 + i] = octets[i]
      BY <2>5, <2>7
    <3> QED BY <2>4, <3>1, <3>2, SeqEqual
  <2>11. Decode(payload) = [type |-> "Bitfield", ints |-> <<>>, rest |-> Padded(bits)]
    <3>1. [i \in 1 .. IntsOf("Bitfield") |-> Integer(payload, i)] = <<>>
      BY <2>5
    <3>2. Bits(Tail(payload)) = Padded(bits)
      BY <2>4, <2>10
    <3> QED BY <2>8, <2>9, <3>1, <3>2 DEF Decode
  <2>12. Meaning(frame) = Decode(payload)
    BY <2>9 DEF Meaning, payload, Payload
  <2> QED BY <1>2, <1>7, <2>3, <2>7, <2>11, <2>12 DEF frame
<1> QED
  BY <1>1, <1>5, <1>6, <1>7
=============================================================================
