------------------------------ MODULE Crawler -------------------------------
(***************************************************************************)
(* The crawler of ds-net/src/crawl.rs: a breadth-first walk over gossiped  *)
(* peers.  Three parties run concurrently.  The crawl loop pops a hint,    *)
(* dials, handshakes and harvests; the drive task owns the swarm, takes    *)
(* commands and reports connection events through a channel that nobody    *)
(* reads outside dial_and_handshake; the hive sinks decode what connected  *)
(* peers send and feed the hints to whichever harvest window is open next. *)
(* The result is written as CSV (ds-cli crawl.rs) and read back by the     *)
(* direct fetch (ds-cli fetchdirect.rs).                                   *)
(*                                                                         *)
(* An address is [id, at]: the peer id in its /p2p suffix (Nobody when it  *)
(* has none) and the peer that really listens there.  There is no clock:   *)
(* deadlines and the wall cap expire at any moment.  What the channel of   *)
(* events cannot hold is in the drive task's hands, which does nothing     *)
(* else until it has got rid of it.                                        *)
(***************************************************************************)
EXTENDS Topology

CONSTANTS
    Peers, Nobody,
    OverlayOf,       \* the overlay each peer proves in its handshake
    Reference,       \* this node's overlay
    Seeds,           \* sequence of addresses
    Batches,         \* what peers gossip: sequence of raw hive messages
    Speaker,         \* who sends each batch
    MaxUnderlays,    \* MAX_UNDERLAYS_PER_PEER, 20 in the code
    MaxDials,        \* opts.max_dials
    Rtts,            \* measured round trips
    EvtCap, CmdCap,  \* capacities of the drive task's channels, 64 and 16
    Torn,            \* an address cut short by a crash, or none at all
    Chunks           \* the chunks coverage is asked for

Addr == [id : Peers \cup {Nobody}, at : Peers]

ASSUME CrawlerAssumption ==
    /\ Nobody \notin Peers
    /\ OverlayOf \in [Peers -> Address]
    /\ Reference \in Address
    /\ Seeds \in Seq(Addr)
    /\ Batches \in Seq(Seq([overlay : Seq(Nat), underlays : Seq(Addr)]))
    /\ Speaker \in [1..Len(Batches) -> Peers]
    /\ MaxDials \in Nat /\ MaxUnderlays \in Nat
    /\ Rtts \subseteq Nat \ {0}
    /\ EvtCap \in Nat \ {0} /\ CmdCap \in Nat \ {0}
    /\ Torn \notin Addr /\ Chunks \subseteq Address

VARIABLES
    pc,          \* pop, send, wait, shake, harvest, bye, done, saved, loaded
    frontier, queued,             \* the VecDeque and the HashSet
    hint, connected,              \* the hint being dialed
    attempted, ok, seen, stop,    \* CrawlStats
    cache,                        \* TopologyCache
    cmds, evts,                   \* the channels to and from the drive task
    dialing, up, unidentified,    \* the swarm
    streams,     \* per batch, the decoded hints its sink task still holds
    sent,        \* batches that were sent
    csv, died,   \* the file's rows; the process died writing them
    loaded       \* the cache load_topology rebuilds

VARIABLE tried   \* history: dial attempts per peer

crawlVars == <<pc, frontier, queued, hint, connected, attempted, ok, seen, stop, cache>>
netVars   == <<cmds, evts, dialing, up, unidentified, streams, sent>>
fileVars  == <<csv, died, loaded>>
vars      == <<crawlVars, netVars, fileVars, tried>>

-----------------------------------------------------------------------------
NoHint == [peer |-> Nobody, overlay |-> Reference, underlays |-> <<>>]

NamesPeer(a) == a.id # Nobody

\* The addresses of a list that name a peer, in order.
Named(addrs) == Picked(addrs, {i \in DOMAIN addrs : NamesPeer(addrs[i])})

\* find_map(extract_peer_id): the peer of the first address that names one.
PeerOf(underlays) == Named(underlays)[1].id

\* decode_peers: an entry with a short overlay (not an Address), with
\* underlays that do not decode (<<>>) or are too many, or with no peer id is
\* skipped, the rest of the message is kept.
Decodes(entry) ==
    /\ entry.overlay \in Address
    /\ Len(entry.underlays) \in 1..MaxUnderlays
    /\ \E i \in DOMAIN entry.underlays : NamesPeer(entry.underlays[i])

decode_peers(message) ==
    LET good == Picked(message, {i \in DOMAIN message : Decodes(message[i])})
    IN  [i \in DOMAIN good |-> [peer      |-> PeerOf(good[i].underlays),
                                overlay   |-> good[i].overlay,
                                underlays |-> good[i].underlays]]

\* Seeds without a peer id are skipped; the overlay is unknown until the
\* handshake.  A second seed of the same peer is queued again.
SeedHints ==
    LET named == Named(Seeds)
    IN  [i \in DOMAIN named |-> [peer |-> named[i].id, overlay |-> [b \in 1..Bytes |-> 0],
                                 underlays |-> <<named[i]>>]]

Init ==
    /\ pc = "pop"
    /\ frontier = SeedHints
    /\ queued = {h.peer : h \in ToSet(SeedHints)}
    /\ hint = NoHint /\ connected = FALSE
    /\ attempted = 0 /\ ok = 0 /\ seen = 0 /\ stop = ""
    /\ cache = <<>>
    /\ cmds = <<>> /\ evts = <<>>
    /\ dialing = {} /\ up = {} /\ unidentified = {}
    /\ streams = [b \in DOMAIN Batches |-> <<>>] /\ sent = {}
    /\ csv = {} /\ died = FALSE /\ loaded = <<>>
    /\ tried = [p \in Peers |-> 0]

-----------------------------------------------------------------------------
\* crawl returns: the swarm, both channels and the sinks' channel are dropped.
Dropped ==
    /\ cmds' = <<>> /\ evts' = <<>> /\ dialing' = {} /\ up' = {} /\ unidentified' = {}
    /\ streams' = [b \in DOMAIN Batches |-> <<>>] /\ UNCHANGED sent

\* The loop condition fails: nothing is left to dial.
Drained ==
    /\ pc = "pop" /\ frontier = <<>>
    /\ pc' = "done" /\ stop' = "frontier_drained"
    /\ hint' = NoHint /\ connected' = FALSE /\ Dropped
    /\ UNCHANGED <<frontier, queued, attempted, ok, seen, cache, fileVars, tried>>

\* The hint is popped before the caps are looked at, so a capped crawl drops it.
Capped ==
    /\ pc = "pop" /\ frontier # <<>>
    /\ stop' \in {"wall_cap"} \cup (IF attempted >= MaxDials THEN {"max_dials"} ELSE {})
    /\ pc' = "done" /\ frontier' = Tail(frontier)
    /\ hint' = NoHint /\ connected' = FALSE /\ Dropped
    /\ UNCHANGED <<queued, attempted, ok, seen, cache, fileVars, tried>>

\* Every hint has an address: seeds are made of one, and a gossiped hint
\* took its peer id from one.
Dial ==
    /\ pc = "pop" /\ frontier # <<>> /\ attempted < MaxDials
    /\ hint' = Head(frontier) /\ frontier' = Tail(frontier)
    /\ attempted' = attempted + 1
    /\ tried' = [tried EXCEPT ![hint'.peer] = @ + 1]
    /\ connected' = FALSE /\ pc' = "send"
    /\ UNCHANGED <<queued, ok, seen, stop, cache, netVars, fileVars>>

\* cmd_tx.send(..).await waits for room.
SendDial ==
    /\ pc = "send" /\ Len(cmds) < CmdCap
    /\ cmds' = Append(cmds, [do |-> "dial", addr |-> Head(hint.underlays)])
    /\ pc' = "wait"
    /\ UNCHANGED <<frontier, queued, hint, connected, attempted, ok, seen, stop, cache>>
    /\ UNCHANGED <<evts, dialing, up, unidentified, streams, sent, fileVars, tried>>

\* After a harvest as after a failure.
HangUp == Append(cmds, [do |-> "disconnect", addr |-> [id |-> hint.peer, at |-> hint.peer]])

SendDisconnect ==
    /\ pc = "bye" /\ Len(cmds) < CmdCap
    /\ cmds' = HangUp /\ pc' = "pop"
    /\ UNCHANGED <<frontier, queued, hint, connected, attempted, ok, seen, stop, cache>>
    /\ UNCHANGED <<evts, dialing, up, unidentified, streams, sent, fileVars, tried>>

\* dial_and_handshake: one event; those of other peers are swallowed.
AwaitEvent ==
    /\ pc = "wait" /\ evts # <<>>
    /\ evts' = Tail(evts)
    /\ LET e == Head(evts)
           mine(what) == e = [what |-> what, peer |-> hint.peer]
       IN  /\ connected' = (connected \/ mine("connected"))
           /\ pc' = IF mine("identified") THEN "shake"
                    ELSE IF mine("failed") THEN "bye" ELSE "wait"
    /\ UNCHANGED <<frontier, queued, hint, attempted, ok, seen, stop, cache>>
    /\ UNCHANGED <<cmds, dialing, up, unidentified, streams, sent, fileVars, tried>>

\* Mutant: the deadline only matters once the connection is up.
DialPatient ==
    /\ pc = "wait" /\ pc' = IF connected /\ evts = <<>> THEN "shake" ELSE "wait"
    /\ UNCHANGED <<frontier, queued, hint, connected, attempted, ok, seen, stop, cache>>
    /\ UNCHANGED <<netVars, fileVars, tried>>

\* The deadline passes: in recv, with no event there, which proceeds once
\* connected, or between two events, where the loop's own check fails.
DialTimeout ==
    /\ pc = "wait"
    /\ \/ connected /\ evts = <<>> /\ pc' = "shake"
       \/ pc' = "bye"
    /\ UNCHANGED <<frontier, queued, hint, connected, attempted, ok, seen, stop, cache>>
    /\ UNCHANGED <<netVars, fileVars, tried>>

\* The drive task is not held up by an event the channel has no room for.
Flowing == Len(evts) <= EvtCap

\* Mutant: the record is keyed by the overlay gossip claimed.
HandshakeTrusting ==
    /\ pc = "shake" /\ hint.peer \in up /\ Flowing
    /\ \E rtt \in Rtts :
          cache' = upsert(cache, hint.overlay,
                          [underlays |-> hint.underlays, rtt |-> rtt, dialed |-> TRUE])
    /\ ok' = ok + 1 /\ pc' = "harvest"
    /\ UNCHANGED <<frontier, queued, hint, connected, attempted, seen, stop>>
    /\ UNCHANGED <<netVars, fileVars, tried>>

\* A handshake, V15 or V14, succeeds over whatever connection to the peer id
\* is up; the overlay is the one the peer proved, the addresses the hint's.
\* open_stream goes through the swarm, so it needs the drive task; neither it
\* nor the exchange has a deadline.
HandshakeOk ==
    /\ pc = "shake" /\ hint.peer \in up /\ Flowing
    /\ \E rtt \in Rtts :
          cache' = upsert(cache, OverlayOf[hint.peer],
                          [underlays |-> hint.underlays, rtt |-> rtt, dialed |-> TRUE])
    /\ ok' = ok + 1 /\ pc' = "harvest"
    /\ UNCHANGED <<frontier, queued, hint, connected, attempted, seen, stop>>
    /\ UNCHANGED <<netVars, fileVars, tried>>

HandshakeFailed ==
    /\ pc = "shake" /\ Flowing /\ pc' = "bye"
    /\ UNCHANGED <<frontier, queued, hint, connected, attempted, ok, seen, stop, cache>>
    /\ UNCHANGED <<netVars, fileVars, tried>>

\* Mutant: known overlays are not queued, whichever peer they come with.
HarvestByOverlay(b) ==
    /\ pc = "harvest" /\ streams[b] # <<>>
    /\ streams' = [streams EXCEPT ![b] = Tail(@)]
    /\ LET h == Head(streams[b])
       IN  /\ cache' = upsert(cache, h.overlay,
                              [underlays |-> h.underlays, rtt |-> 0, dialed |-> FALSE])
           /\ queued' = queued \cup {h.peer}
           /\ frontier' = IF h.overlay \in DOMAIN cache THEN frontier ELSE Append(frontier, h)
    /\ seen' = seen + 1
    /\ UNCHANGED <<pc, hint, connected, attempted, ok, stop>>
    /\ UNCHANGED <<cmds, evts, dialing, up, unidentified, sent, fileVars, tried>>

\* Mutant: only the frontier is searched for the peer, not what was popped from it.
HarvestTwice(b) ==
    /\ pc = "harvest" /\ streams[b] # <<>>
    /\ streams' = [streams EXCEPT ![b] = Tail(@)]
    /\ LET h == Head(streams[b])
       IN  /\ cache' = upsert(cache, h.overlay,
                              [underlays |-> h.underlays, rtt |-> 0, dialed |-> FALSE])
           /\ queued' = queued \cup {h.peer}
           /\ frontier' = IF \E f \in ToSet(frontier) : f.peer = h.peer THEN frontier ELSE Append(frontier, h)
    /\ seen' = seen + 1
    /\ UNCHANGED <<pc, hint, connected, attempted, ok, stop>>
    /\ UNCHANGED <<cmds, evts, dialing, up, unidentified, sent, fileVars, tried>>

\* harvest: record the gossiped node, queue its peer if it is new.
Harvest(b) ==
    /\ pc = "harvest" /\ streams[b] # <<>>
    /\ streams' = [streams EXCEPT ![b] = Tail(@)]
    /\ LET h == Head(streams[b])
       IN  /\ cache' = upsert(cache, h.overlay,
                              [underlays |-> h.underlays, rtt |-> 0, dialed |-> FALSE])
           /\ queued' = queued \cup {h.peer}
           /\ frontier' = IF h.peer \in queued THEN frontier ELSE Append(frontier, h)
    /\ seen' = seen + 1
    /\ UNCHANGED <<pc, hint, connected, attempted, ok, stop>>
    /\ UNCHANGED <<cmds, evts, dialing, up, unidentified, sent, fileVars, tried>>

HarvestOver ==
    /\ pc = "harvest" /\ pc' = "bye"
    /\ UNCHANGED <<frontier, queued, hint, connected, attempted, ok, seen, stop, cache>>
    /\ UNCHANGED <<netVars, fileVars, tried>>

-----------------------------------------------------------------------------
\* The drive task takes a command.  Disconnecting a peer also aborts the
\* dials that name it, and each of those reports a failure.
Command ==
    /\ Flowing /\ cmds # <<>> /\ cmds' = Tail(cmds)
    /\ LET c == Head(cmds)
           aborted == {a \in dialing : a.id = c.addr.id}
       IN  IF c.do = "dial"
           THEN /\ dialing' = dialing \cup {c.addr}
                /\ UNCHANGED <<evts, up, unidentified>>
           ELSE /\ dialing' = dialing \ aborted
                /\ up' = up \ {c.addr.id} /\ unidentified' = unidentified \ {c.addr.id}
                /\ evts' = evts \o [i \in 1..Cardinality(aborted) |->
                                      [what |-> "failed", peer |-> c.addr.id]]
    /\ UNCHANGED <<crawlVars, streams, sent, fileVars, tried>>

\* A dial ends.  A /p2p suffix that is not the listener's is an error, and an
\* error without a known peer id is reported to nobody.
Connects(a) ==
    /\ Flowing /\ a \in dialing /\ a.id \in {Nobody, a.at}
    /\ dialing' = dialing \ {a}
    /\ up' = up \cup {a.at} /\ unidentified' = unidentified \cup {a.at}
    /\ evts' = Append(evts, [what |-> "connected", peer |-> a.at])
    /\ UNCHANGED <<crawlVars, cmds, streams, sent, fileVars, tried>>

DialFails(a) ==
    /\ Flowing /\ a \in dialing
    /\ dialing' = dialing \ {a}
    /\ evts' = IF a.id = Nobody THEN evts
               ELSE Append(evts, [what |-> "failed", peer |-> a.id])
    /\ UNCHANGED <<crawlVars, cmds, up, unidentified, streams, sent, fileVars, tried>>

Identifies(p) ==
    /\ Flowing /\ p \in unidentified
    /\ unidentified' = unidentified \ {p}
    /\ evts' = Append(evts, [what |-> "identified", peer |-> p])
    /\ UNCHANGED <<crawlVars, cmds, dialing, up, streams, sent, fileVars, tried>>

\* run_hive_sink: a connected peer opens a stream, its message is decoded
\* once the body is whole, and its task then blocks on the hint channel.
Gossips(b) ==
    /\ Speaker[b] \in up /\ b \notin sent
    /\ sent' = sent \cup {b}
    /\ streams' = [streams EXCEPT ![b] = decode_peers(Batches[b])]
    /\ UNCHANGED <<crawlVars, cmds, evts, dialing, up, unidentified, fileVars, tried>>

-----------------------------------------------------------------------------
\* write_cache_csv truncates the file and writes one row per record; None is
\* an empty cell, and the addresses are joined by '|'.  columns counts the
\* columns of a row, fewer than five when the process died while it was written.
Row(o, underlays, columns) ==
    [overlay |-> o, dialed |-> IF cache[o].dialed THEN "1" ELSE "0",
     rtt |-> IF cache[o].rtt = 0 THEN <<>> ELSE <<cache[o].rtt>>,
     underlays |-> underlays, columns |-> columns]

WholeRows(overlays) == {Row(o, cache[o].underlays, 5) : o \in overlays}

\* The cut is before the last column, after some of the addresses, or within
\* the next one.
CutRows(o) ==
    LET us == cache[o].underlays
    IN  {Row(o, <<>>, 4)}
        \cup {Row(o, SubSeq(us, 1, k), 5) : k \in 0..Len(us)}
        \cup {Row(o, Append(SubSeq(us, 1, k), Torn), 5) : k \in 0..(Len(us) - 1)}

\* cell.split('|'): an empty cell is one empty address.
Split(cell) == IF cell = <<>> THEN <<Torn>> ELSE cell

write_cache_csv ==
    /\ pc = "done" /\ pc' = "saved"
    /\ \/ csv' = WholeRows(DOMAIN cache) /\ died' = FALSE
       \/ /\ died' = TRUE
          /\ \E o \in DOMAIN cache, whole \in SUBSET (DOMAIN cache) :
                /\ o \notin whole
                /\ \E cut \in CutRows(o) : csv' = WholeRows(whole) \cup {cut}
    /\ UNCHANGED <<frontier, queued, hint, connected, attempted, ok, seen, stop, cache>>
    /\ UNCHANGED <<netVars, loaded, tried>>

\* Mutant: a missing dialed cell counts as dialed, and short rows are taken.
load_lenient ==
    /\ pc = "saved" /\ pc' = "loaded"
    /\ LET RowOf(o) == CHOOSE r \in csv : r.overlay = o
       IN  loaded' = [o \in {r.overlay : r \in csv} |->
                        [underlays |-> Split(RowOf(o).underlays),
                         rtt       |-> IF RowOf(o).rtt = <<>> THEN 0 ELSE RowOf(o).rtt[1],
                         dialed    |-> RowOf(o).columns = 4 \/ RowOf(o).dialed = "1"]]
    /\ UNCHANGED <<frontier, queued, hint, connected, attempted, ok, seen, stop, cache>>
    /\ UNCHANGED <<netVars, csv, died, tried>>

\* load_topology: every row with five columns is upserted into a new cache
\* (rows have distinct overlays); an rtt cell that does not parse is None.
load_topology ==
    /\ pc = "saved" /\ pc' = "loaded"
    /\ LET rows == {r \in csv : r.columns = 5}
           RowOf(o) == CHOOSE r \in rows : r.overlay = o
       IN  loaded' = [o \in {r.overlay : r \in rows} |->
                        [underlays |-> Split(RowOf(o).underlays),
                         rtt       |-> IF RowOf(o).rtt = <<>> THEN 0 ELSE RowOf(o).rtt[1],
                         dialed    |-> RowOf(o).dialed = "1"]]
    /\ UNCHANGED <<frontier, queued, hint, connected, attempted, ok, seen, stop, cache>>
    /\ UNCHANGED <<netVars, csv, died, tried>>

\* The drive task waits for the crawl loop and the crawl loop for it.
Stalled == ~Flowing /\ \/ pc = "shake"
                       \/ pc \in {"send", "bye"} /\ Len(cmds) >= CmdCap

Ended == (pc = "loaded" \/ Stalled) /\ UNCHANGED vars

-----------------------------------------------------------------------------
Loop == \/ Drained \/ Capped \/ Dial \/ SendDial \/ AwaitEvent \/ DialTimeout
        \/ HarvestOver \/ SendDisconnect
        \/ \E b \in DOMAIN Batches : Harvest(b)

Handshake == HandshakeOk \/ HandshakeFailed

Network == \/ Command
           \/ \E a \in dialing : Connects(a) \/ DialFails(a)
           \/ \E p \in Peers : Identifies(p)
           \/ \E b \in DOMAIN Batches : Gossips(b)

Running == pc \in {"pop", "send", "wait", "shake", "harvest", "bye"}

Next == \/ Loop \/ Handshake
        \/ Running /\ Network
        \/ write_cache_csv \/ load_topology \/ Ended

Spec == Init /\ [][Next]_vars

\* The crawl loop and the drive task run whenever they can: a dial and a
\* harvest have a deadline.  Nothing is asked of the network.
FairSpec == Spec /\ WF_vars(Loop) /\ WF_vars(Running /\ Command)
                 /\ WF_vars(write_cache_csv) /\ WF_vars(load_topology)

\* A handshake has none: that it ends is up to the peer.
PeersAnswer == WF_vars(Handshake)

-----------------------------------------------------------------------------
HintType == [peer : Peers \cup {Nobody}, overlay : Address, underlays : Seq(Addr)]

CacheType(c, addrs) ==
    /\ DOMAIN c \subseteq Address
    /\ \A o \in DOMAIN c : c[o] \in [underlays : Seq(addrs), rtt : {0} \cup Rtts,
                                     dialed : BOOLEAN]

\* Every variable has its type and the statistics never contradict each
\* other: no more handshakes than attempts, no more attempts than the cap.
TypeOK ==
    /\ pc \in {"pop", "send", "wait", "shake", "harvest", "bye", "done", "saved", "loaded"}
    /\ frontier \in Seq(HintType) /\ queued \subseteq Peers
    /\ hint \in HintType /\ connected \in BOOLEAN
    /\ attempted \in 0..MaxDials /\ ok \in 0..attempted /\ seen \in Nat
    /\ stop \in {"", "frontier_drained", "wall_cap", "max_dials"}
    /\ CacheType(cache, Addr) /\ CacheType(loaded, Addr \cup {Torn})
    /\ dialing \subseteq Addr /\ up \subseteq Peers /\ unidentified \subseteq up
    /\ \A b \in DOMAIN streams : streams[b] \in Seq(HintType)
    /\ sent \subseteq DOMAIN Batches /\ died \in BOOLEAN
    /\ tried \in [Peers -> Nat]

\* What latency-aware selection trusts is earned: a record marked dialed holds
\* an address that names a peer which proved exactly this overlay, and sorts
\* before every record only heard of, whatever overlays and addresses gossip
\* claimed before or after, and whichever attempt's events the handshake went
\* by (crawl.rs keys the record by the handshake's overlay; upsert adds
\* addresses and keeps a measured round trip).
DialedReliable ==
    \A o \in DOMAIN cache : cache[o].dialed =>
        /\ \E u \in ToSet(cache[o].underlays) : NamesPeer(u) /\ OverlayOf[u.id] = o
        /\ \A b \in DOMAIN cache : cache[b].dialed \/ SortsBefore(cache, o, b)

\* A crawl that says its frontier is drained has tried a peer of every record
\* of its cache, and no queued peer is forgotten on the way there: the dedup
\* set, the frontier and the cache are updated together by harvest.
DrainedMeansTried ==
    /\ stop = "frontier_drained" =>
          \A o \in DOMAIN cache : \E u \in ToSet(cache[o].underlays) :
              NamesPeer(u) /\ tried[u.id] > 0
    /\ stop \in {"", "frontier_drained"} =>
          \A p \in queued : tried[p] > 0 \/ \E h \in ToSet(frontier) : h.peer = p

SeedsOf(p) == Cardinality({i \in DOMAIN Seeds : Seeds[i].id = p})

\* However often a peer is gossiped, in whatever order and in whoever's
\* window, it is dialed at most once.  Seeds are not deduplicated: one is
\* dialed as often as the seed list names it.
OncePerPeer ==
    \A p \in Peers : tried[p] <= IF SeedsOf(p) = 0 THEN 1 ELSE SeedsOf(p)

\* "one attempt per peer, no retries": not so for a peer seeded twice.
OncePerPeerAlways == \A p \in Peers : tried[p] <= 1

\* The report is what the cache holds.  Every node is in one bin, and at every
\* depth from 0 to MAX_PO the coverage computed chunk by chunk from proximity
\* orders is the one defined by neighbourhoods: the capped, byte-wise count of
\* leading zeros and the shifted prefix agree on who stores what.
ReportExact ==
    pc = "done" =>
      /\ FoldFunction(LAMBDA x, y : x + y, 0, bin_counts(cache, Reference))
            = Cardinality(DOMAIN cache)
      /\ \A depth \in 0..MAX_PO :
            LET c     == coverage(cache, Chunks, depth)
                held  == {neighborhood(o, depth) : o \in DOMAIN cache}
                asked == {neighborhood(k, depth) : k \in Chunks}
            IN  /\ c.chunks_covered =
                      Cardinality({k \in Chunks : neighborhood(k, depth) \in held})
                /\ c.neighborhoods_covered = Cardinality(asked \cap held)

\* The same at the full depth of the prefix, which neighborhood accepts: not
\* so, no proximity order reaches it.
ReportAtFullDepth ==
    pc = "done" =>
      coverage(cache, Chunks, PrefixBits).chunks_covered =
        Cardinality({k \in Chunks : \E o \in DOMAIN cache :
                        neighborhood(o, PrefixBits) = neighborhood(k, PrefixBits)})

\* us is all of full, or its first addresses, the last perhaps torn.
LeftOf(us, full) ==
    \/ us = full
    \/ \E k \in 0..(Len(full) - 1) :
          us \in {SubSeq(full, 1, k), Append(SubSeq(full, 1, k), Torn)}

\* What the direct fetch loads is the crawl's cache, or after a crash part of
\* it: a row cut short never turns a gossiped node into a dialed one nor
\* changes a measured round trip (load_topology skips short rows).  At most
\* one record has an address the crawl never had, as its last; every other
\* address is one that was found for that node, in the order it was found.
LoadedFaithful ==
    pc = "loaded" =>
      /\ ~died => loaded = cache
      /\ \A o \in DOMAIN loaded :
            /\ o \in DOMAIN cache
            /\ loaded[o].dialed = cache[o].dialed /\ loaded[o].rtt = cache[o].rtt
            /\ LeftOf(loaded[o].underlays, cache[o].underlays)
      /\ \A o, e \in DOMAIN loaded :
            (loaded[o] # cache[o] /\ loaded[e] # cache[e]) => o = e

\* The crawl ends, and its result is written and read, even when every dial,
\* identify and gossip is lost, given peers that end the handshakes they were
\* asked for; or its two tasks wait for each other.
Terminates == PeersAnswer => <>(pc = "loaded") \/ <>[]Stalled
=============================================================================
