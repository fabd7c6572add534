--------------------------- MODULE MCPeerDiscovery ---------------------------
EXTENDS PeerDiscovery, TLC

TwoAddresses == {<<1, 1>>, <<2, 1>>}

OneAddress == {<<1, 1>>}

CONSTANTS t1, t2

\* The first tier may overflow its back-off, the second may not.
Lengths == (t1 :> 3) @@ (t2 :> 1)

OneUdp == {<<t1, 2>>}
=============================================================================
