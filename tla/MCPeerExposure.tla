-------------------------- MODULE MCPeerExposure --------------------------
EXTENDS PeerExposure
=============================================================================
