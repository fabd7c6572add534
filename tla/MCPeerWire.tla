------------------------------ MODULE MCPeerWire ------------------------------
EXTENDS PeerWire

Message(type, ints, rest) == [type |-> type, ints |-> ints, rest |-> rest]

\* What another Fissure sends; its peers see the spare bits of a bitfield.
Own(message) ==
  [octets |-> Encode(message), means |-> [message EXCEPT !.rest = Padded(@)]]

Fissure ==
  {Own(Message("Bitfield", <<>>, <<1, 0, 0, 0, 0, 0, 0, 0, 0, 1>>)),
   Own(Message("Interested", <<>>, <<>>)), Own(Message("KeepAlive", <<>>, <<>>)),
   Own(Message("Have", <<258>>, <<>>)), Own(Message("Request", <<1, 16384, 16384>>, <<>>))}

\* What other clients send: the octets as the protocol has them.  A Have
\* without its last octet, one with an octet too many, and an extension.
Others ==
  {[octets |-> <<0, 0, 0, 1, 1>>, means |-> Message("Unchoke", <<>>, <<>>)],
   [octets |-> <<0, 0, 0, 11, 7, 0, 0, 0, 2, 0, 0, 64, 0, 5, 0>>,
    means |-> Message("Piece", <<2, 16384>>, <<5, 0>>)],
   [octets |-> <<0, 0, 0, 4, 4, 0, 0, 1>>, means |-> Nothing],
   [octets |-> <<0, 0, 0, 6, 4, 0, 0, 0, 3, 9>>, means |-> Message("Have", <<3>>, <<>>)],
   [octets |-> <<0, 0, 0, 2, 20, 7>>, means |-> Message("Port", <<>>, <<>>)]}

Messages == Fissure \cup Others
=============================================================================
