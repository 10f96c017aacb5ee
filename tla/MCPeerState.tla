---------------------------- MODULE MCPeerState -----------------------------
EXTENDS PeerState, TLC

CONSTANTS p1, p2

Symmetric == Permutations(Peer)
=============================================================================
