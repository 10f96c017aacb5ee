---------------------------- MODULE MCChunkStore ----------------------------
EXTENDS ChunkStore, TLC

CONSTANTS a, b, c

MCSize == (a :> 1) @@ (b :> 2) @@ (c :> 1)
=============================================================================
