CONSTANTS
  p = p
  q = q
  r = r
  s = s
  Nobody = Nobody
  Width = 2
  Bytes = 3
  PrefixBytes = 2
  MaxUnderlays = 2
  MaxDials = 4
  Rtts = {1, 2}
  EvtCap = 2
  CmdCap = 2
  Torn = Torn
  Peers <- MCPeers
  OverlayOf <- MCOverlayOf
  Reference <- MCReference
  Seeds <- MCSeeds
  Batches <- MCBatches
  Speaker <- MCSpeaker
  Chunks <- MCChunks
SPECIFICATION FairSpec
INVARIANTS DialedReliable DrainedMeansTried OncePerPeer ReportExact LoadedFaithful
PROPERTY Terminates
