------------------------------ MODULE Topology ------------------------------
(***************************************************************************)
(* The pure part of the crawler: overlay arithmetic (ds-core swarm.rs) and *)
(* the topology cache (ds-core topology.rs) as operators on its state.     *)
(*                                                                         *)
(* An overlay is a sequence of Bytes digits of Width bits, as the code's   *)
(* [u8; 32] is 32 digits of 8 bits; neighborhood reads the first           *)
(* PrefixBytes of them as one big-endian integer, as the code reads four.  *)
(* A cache maps overlays to records [underlays, rtt, dialed]; rtt 0 is     *)
(* None. last_seen_tick is left out: nothing in the program reads it.      *)
(***************************************************************************)
EXTENDS Integers, Sequences, FiniteSets, SequencesExt

CONSTANTS Width, Bytes, PrefixBytes

ASSUME WidthAssumption ==
    /\ Width \in Nat \ {0}
    /\ Bytes \in Nat \ {0}
    /\ PrefixBytes \in 1..Bytes

PrefixBits == PrefixBytes * Width

\* bee caps the proximity order one below the bits of the prefix.
MAX_PO == PrefixBits - 1

Address == [1..Bytes -> 0..(2 ^ Width - 1)]

Bit(byte, k) == (byte \div 2 ^ (Width - 1 - k)) % 2

\* diff.leading_zeros() of the xor of two different bytes.
LeadingZeros(x, y) ==
    CHOOSE z \in 0..(Width - 1) :
        /\ Bit(x, z) # Bit(y, z)
        /\ \A k \in 0..(z - 1) : Bit(x, k) = Bit(y, k)

\* Mutant: the zero count of the whole difference is taken for each byte's.
proximityByte(a, b) ==
    IF a = b THEN MAX_PO
    ELSE LET i == CHOOSE j \in 1..Bytes : /\ a[j] # b[j]
                                          /\ \A k \in 1..(j - 1) : a[k] = b[k]
         IN  LeadingZeros(a[i], b[i])

proximity(a, b) ==
    IF a = b THEN MAX_PO
    ELSE LET i == CHOOSE j \in 1..Bytes : /\ a[j] # b[j]
                                          /\ \A k \in 1..(j - 1) : a[k] = b[k]
             po == (i - 1) * Width + LeadingZeros(a[i], b[i])
         IN  IF po < MAX_PO THEN po ELSE MAX_PO

\* u32::from_be_bytes of the first PrefixBytes digits.
Prefix(a) == FoldLeft(LAMBDA n, x : n * 2 ^ Width + x, 0, SubSeq(a, 1, PrefixBytes))

neighborhood(a, depth) == Prefix(a) \div 2 ^ (PrefixBits - depth)

-----------------------------------------------------------------------------
\* The elements of s at the positions I, in order: the k-th is at the position
\* that has k positions of I up to it.
Picked(s, I) ==
    [k \in 1..Cardinality(I) |->
        s[CHOOSE i \in I : Cardinality({j \in I : j <= i}) = k]]

\* The positions of the elements of s that are not in old, once each.
Fresh(old, s) ==
    {i \in DOMAIN s : /\ s[i] \notin ToSet(old)
                      /\ \A j \in 1..(i - 1) : s[j] # s[i]}

\* TopologyCache::upsert: a record that exists only gains.
upsert(cache, overlay, rec) ==
    IF overlay \in DOMAIN cache
    THEN LET old == cache[overlay]
             new == Fresh(old.underlays, rec.underlays)
         IN  [cache EXCEPT ![overlay] =
                [underlays |-> old.underlays \o Picked(rec.underlays, new),
                 rtt       |-> IF rec.rtt # 0 THEN rec.rtt ELSE old.rtt,
                 dialed    |-> old.dialed \/ rec.dialed]]
    ELSE [o \in DOMAIN cache \cup {overlay} |->
            IF o = overlay THEN rec ELSE cache[o]]

bin_counts(cache, reference) ==
    [po \in 0..MAX_PO |->
        Cardinality({o \in DOMAIN cache : proximity(reference, o) = po})]

\* The filter of storers_for and coverage.
Storers(cache, chunk, depth) ==
    {o \in DOMAIN cache : proximity(o, chunk) >= depth}

\* storers_for sorts by RTT, unmeasured last: a before b is possible when
\* this holds (equal keys come in the hash map's order).
SortsBefore(cache, a, b) ==
    /\ cache[a].rtt # 0
    /\ cache[b].rtt = 0 \/ cache[a].rtt < cache[b].rtt

\* coverage: one pass over the chunks, folding each chunk's verdict into the
\* entry of its neighbourhood.
coverage(cache, chunks, depth) ==
    LET covered == {c \in chunks : Storers(cache, c, depth) # {}}
    IN  [chunks_covered        |-> Cardinality(covered),
         chunks_total          |-> Cardinality(chunks),
         neighborhoods_total   |-> Cardinality({neighborhood(c, depth) : c \in chunks}),
         neighborhoods_covered |-> Cardinality({neighborhood(c, depth) : c \in covered})]
=============================================================================
