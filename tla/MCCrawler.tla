------------------------------ MODULE MCCrawler -----------------------------
EXTENDS Crawler

CONSTANTS p, q, r, s

MCPeers == {p, q, r, s}

\* p and q share their first two bits; r shares the whole prefix with this node.
MCOverlayOf == (p :> <<2, 1, 3>>) @@ (q :> <<2, 2, 0>>) @@ (r :> <<0, 3, 1>>) @@ (s :> <<1, 1, 0>>)

At(peer) == [id |-> peer, at |-> peer]

Bare(peer) == [id |-> Nobody, at |-> peer]

\* p twice, and an address that names nobody.
MCSeeds == <<At(p), Bare(q), At(p)>>

Entry(o, us) == [overlay |-> o, underlays |-> us]

\* p repeats itself and hides r behind an address of q; q claims p's overlay
\* for r, sends an entry without underlays and one with a short overlay; r
\* knows q under a wrong overlay and at its own address.
MCBatches ==
    << <<Entry(<<2, 1, 3>>, <<At(p)>>), Entry(<<2, 2, 0>>, <<At(q), Bare(r)>>),
         Entry(<<0, 3, 1>>, <<Bare(q), At(r)>>)>>,
       <<Entry(<<2, 1, 3>>, <<At(r)>>), Entry(<<1, 1, 0>>, <<>>),
         Entry(<<1>>, <<At(q)>>), Entry(<<1, 1, 0>>, <<At(s)>>)>>,
       <<Entry(<<3, 0, 0>>, <<[id |-> q, at |-> r]>>)>> >>

MCSpeaker == <<p, q, r>>

MCReference == <<0, 3, 0>>

MCChunks == Address
=============================================================================
