---------------------------- MODULE CrawlerProofs ----------------------------
(***************************************************************************)
(* Proofs for Crawler, for any peers, seeds and gossip, and any order of   *)
(* the events of dials: what the topology cache says of a dialed node was  *)
(* proved by it, a drained crawl has tried a peer of every record, no peer *)
(* is dialed more often than it should be, and the direct fetch loads what *)
(* the crawl found, or after a crash a part of it.                         *)
(***************************************************************************)
EXTENDS Crawler, FiniteSetTheorems, TLAPS

-----------------------------------------------------------------------------
(* Subsequences.                                                           *)

LEMMA PositionsFinite ==
  ASSUME NEW n \in Nat, NEW I \in SUBSET (1..n)
  PROVE  /\ IsFiniteSet(I) /\ Cardinality(I) \in Nat
         /\ \A J \in SUBSET I : IsFiniteSet(J) /\ Cardinality(J) \in Nat
<1>1. IsFiniteSet(1..n)
  BY FS_Interval
<1>2. IsFiniteSet(I)
  BY <1>1, FS_Subset
<1>3. \A J \in SUBSET I : IsFiniteSet(J) /\ Cardinality(J) \in Nat
  BY <1>2, FS_Subset, FS_CardinalityType
<1>4. QED BY <1>2, <1>3

\* How many positions of I there are up to each: every number from one to
\* the size of I, once.
Rank(I) == [i \in I |-> Cardinality({j \in I : j <= i})]

LEMMA RankBijective ==
  ASSUME NEW n \in Nat, NEW I \in SUBSET (1..n)
  PROVE  /\ \A i \in I : Rank(I)[i] \in 1..Cardinality(I)
         /\ \A i, k \in I : Rank(I)[i] = Rank(I)[k] => i = k
         /\ \A m \in 1..Cardinality(I) : \E i \in I : Rank(I)[i] = m
<1> DEFINE Upto(i) == {j \in I : j <= i}
           c == Cardinality(I)
<1>1. IsFiniteSet(I) /\ c \in Nat /\ \A J \in SUBSET I : IsFiniteSet(J) /\ Cardinality(J) \in Nat
  BY PositionsFinite
<1>2. \A i \in I : Rank(I)[i] \in 1..c
  <2>1. TAKE i \in I
  <2>2. Upto(i) \in SUBSET I /\ Upto(i) # {}
    OBVIOUS
  <2>3. Cardinality(Upto(i)) <= c /\ Cardinality(Upto(i)) # 0 /\ Cardinality(Upto(i)) \in Nat
    BY <1>1, <2>2, FS_Subset, FS_EmptySet
  <2>4. QED BY <1>1, <2>3 DEF Rank
<1>3. \A i, k \in I : Rank(I)[i] = Rank(I)[k] => i = k
  <2>1. SUFFICES ASSUME NEW i \in I, NEW k \in I, i < k PROVE Rank(I)[i] # Rank(I)[k]
    OBVIOUS
  <2>2. Upto(i) \in SUBSET Upto(k) /\ k \in Upto(k) /\ k \notin Upto(i)
    <3>1. i \in Int /\ k \in Int /\ \A j \in I : j \in Int
      OBVIOUS
    <3>2. \A j \in I : j <= i => j <= k
      BY <2>1, <3>1
    <3>3. k <= k /\ ~(k <= i)
      BY <2>1, <3>1
    <3>4. QED BY <3>2, <3>3
  <2>3. IsFiniteSet(Upto(k))
    BY <1>1
  <2>4. Cardinality(Upto(k)) # Cardinality(Upto(i))
    BY <2>2, <2>3, FS_Subset
  <2>5. QED BY <2>4 DEF Rank
<1>4. Rank(I) \in Injection(I, 1..c)
  BY <1>2, <1>3 DEF Injection, IsInjective, Rank
<1>5. IsFiniteSet(1..c) /\ Cardinality(1..c) = c
  BY <1>1, FS_Interval
<1>6. Rank(I) \in Surjection(I, 1..c)
  BY <1>4, <1>5, FS_Injection
<1>7. QED BY <1>2, <1>3, <1>6 DEF Surjection

LEMMA SomeFinite ==
  ASSUME NEW S, NEW s \in Seq(S), NEW I \in SUBSET (DOMAIN s)
  PROVE  IsFiniteSet(I) /\ Cardinality(I) \in Nat
<1>1. Len(s) \in Nat /\ DOMAIN s = 1..Len(s)
  OBVIOUS
<1>2. QED BY <1>1, PositionsFinite

\* Picked(s, I) has one element for each position of I, in its place.
LEMMA PickedFact ==
  ASSUME NEW S, NEW s \in Seq(S), NEW I \in SUBSET (DOMAIN s)
  PROVE  /\ Picked(s, I) \in Seq(S)
         /\ Len(Picked(s, I)) = Cardinality(I) /\ Cardinality(I) \in Nat
         /\ \E at \in [1..Cardinality(I) -> I] :
               /\ \A k, m \in 1..Cardinality(I) : at[k] = at[m] => k = m
               /\ \A k \in 1..Cardinality(I) : Picked(s, I)[k] = s[at[k]]
         /\ ToSet(Picked(s, I)) = {s[i] : i \in I}
<1> DEFINE c == Cardinality(I)
           at == [k \in 1..c |-> CHOOSE i \in I : Cardinality({j \in I : j <= i}) = k]
<1>1. Len(s) \in Nat /\ DOMAIN s = 1..Len(s)
  OBVIOUS
<1>2. I \in SUBSET (1..Len(s)) /\ c \in Nat
  BY <1>1, PositionsFinite
<1>3. ASSUME NEW k \in 1..c PROVE at[k] \in I /\ Rank(I)[at[k]] = k
  <2>1. PICK i \in I : Rank(I)[i] = k
    BY <1>1, <1>2, RankBijective
  <2>2. Cardinality({j \in I : j <= i}) = k
    BY <2>1 DEF Rank
  <2>3. at[k] \in I /\ Cardinality({j \in I : j <= at[k]}) = k
    BY <2>2
  <2>4. QED BY <2>3 DEF Rank
<1>4. Picked(s, I) = [k \in 1..c |-> s[at[k]]]
  BY DEF Picked
<1>5. at \in [1..c -> I]
  BY <1>3
<1> HIDE DEF at
<1>6. ASSUME NEW i \in I PROVE Rank(I)[i] \in 1..c /\ at[Rank(I)[i]] = i
  <2>1. Rank(I)[i] \in 1..c
    BY <1>1, <1>2, RankBijective
  <2>2. at[Rank(I)[i]] \in I /\ Rank(I)[at[Rank(I)[i]]] = Rank(I)[i]
    BY <1>3, <2>1
  <2>3. QED BY <1>1, <1>2, <2>1, <2>2, RankBijective
<1>7. \A k \in 1..c : s[at[k]] \in S
  BY <1>1, <1>2, <1>5
<1>8. Picked(s, I) \in Seq(S) /\ Len(Picked(s, I)) = c /\ DOMAIN Picked(s, I) = 1..c
  BY <1>2, <1>4, <1>7
<1>9. ToSet(Picked(s, I)) = {s[i] : i \in I}
  <2>1. ToSet(Picked(s, I)) = {s[at[k]] : k \in 1..c}
    BY <1>4, <1>8 DEF ToSet
  <2>2. \A i \in I : \E k \in 1..c : s[at[k]] = s[i]
    BY <1>6
  <2>3. QED BY <1>5, <2>1, <2>2
<1>10. \A k, m \in 1..c : at[k] = at[m] => k = m
  BY <1>3
<1>11. QED BY <1>2, <1>4, <1>5, <1>8, <1>9, <1>10

-----------------------------------------------------------------------------
(* Hints.                                                                  *)

\* A hint names a peer, and one of its addresses does.
Hint == {h \in [peer : Peers, overlay : Address, underlays : Seq(Addr)] :
            \E u \in ToSet(h.underlays) : u.id = h.peer}

LEMMA NamedPeer == \A a \in Addr : NamesPeer(a) <=> a.id \in Peers
  BY CrawlerAssumption DEF Addr, NamesPeer

\* Named keeps addresses of the list, and names a peer with each.
LEMMA NamedFact ==
  ASSUME NEW addrs \in Seq(Addr)
  PROVE  /\ Named(addrs) \in Seq(Addr)
         /\ \A k \in DOMAIN Named(addrs) :
               Named(addrs)[k].id \in Peers /\ Named(addrs)[k] \in ToSet(addrs)
         /\ (\E i \in DOMAIN addrs : NamesPeer(addrs[i])) => 1 \in DOMAIN Named(addrs)
<1> DEFINE I == {i \in DOMAIN addrs : NamesPeer(addrs[i])}
<1>1. I \in SUBSET (DOMAIN addrs) /\ Named(addrs) = Picked(addrs, I)
  BY DEF Named
<1>2. /\ Named(addrs) \in Seq(Addr) /\ Len(Named(addrs)) = Cardinality(I)
      /\ Cardinality(I) \in Nat /\ ToSet(Named(addrs)) = {addrs[i] : i \in I}
  BY <1>1, PickedFact
<1>3. ASSUME NEW k \in DOMAIN Named(addrs)
      PROVE  Named(addrs)[k].id \in Peers /\ Named(addrs)[k] \in ToSet(addrs)
  <2>1. Named(addrs)[k] \in ToSet(Named(addrs))
    BY DEF ToSet
  <2>2. PICK i \in I : Named(addrs)[k] = addrs[i]
    BY <1>2, <2>1
  <2>3. addrs[i] \in Addr /\ NamesPeer(addrs[i]) /\ addrs[i] \in ToSet(addrs)
    BY DEF ToSet
  <2>4. QED BY <2>2, <2>3, NamedPeer
<1>4. ASSUME NEW i \in DOMAIN addrs, NamesPeer(addrs[i]) PROVE 1 \in DOMAIN Named(addrs)
  <2>1. I # {} /\ IsFiniteSet(I)
    BY <1>1, <1>4, SomeFinite
  <2>2. Cardinality(I) # 0
    BY <2>1, FS_EmptySet
  <2>3. QED BY <1>2, <2>2
<1>5. QED BY <1>2, <1>3, <1>4

LEMMA PeerOfFact ==
  ASSUME NEW us \in Seq(Addr), \E i \in DOMAIN us : NamesPeer(us[i])
  PROVE  PeerOf(us) \in Peers /\ \E u \in ToSet(us) : u.id = PeerOf(us)
  BY NamedFact DEF PeerOf

\* Whatever is gossiped, the sinks hand on hints.
Raw == [overlay : Seq(Nat), underlays : Seq(Addr)]

LEMMA DecodeType == ASSUME NEW message \in Seq(Raw) PROVE decode_peers(message) \in Seq(Hint)
<1> DEFINE I == {i \in DOMAIN message : Decodes(message[i])}
           good == Picked(message, I)
<1>1. I \in SUBSET (DOMAIN message)
  OBVIOUS
<1>2. good \in Seq(Raw) /\ ToSet(good) = {message[i] : i \in I}
  BY <1>1, PickedFact
<1>3. decode_peers(message) = [i \in DOMAIN good |->
          [peer |-> PeerOf(good[i].underlays), overlay |-> good[i].overlay,
           underlays |-> good[i].underlays]]
  BY DEF decode_peers
<1> HIDE DEF good
<1>4. ASSUME NEW i \in DOMAIN good PROVE decode_peers(message)[i] \in Hint
  <2>1. good[i] \in Raw /\ good[i] \in ToSet(good)
    BY <1>2 DEF ToSet
  <2>2. Decodes(good[i])
    BY <1>2, <2>1
  <2>3. good[i].underlays \in Seq(Addr) /\ good[i].overlay \in Address
    BY <2>1, <2>2 DEF Raw, Decodes
  <2>4. \E k \in DOMAIN good[i].underlays : NamesPeer(good[i].underlays[k])
    BY <2>2 DEF Decodes
  <2>5. /\ PeerOf(good[i].underlays) \in Peers
        /\ \E u \in ToSet(good[i].underlays) : u.id = PeerOf(good[i].underlays)
    BY <2>3, <2>4, PeerOfFact
  <2>6. QED BY <1>3, <2>3, <2>5 DEF Hint
<1>5. Len(good) \in Nat /\ DOMAIN good = 1..Len(good)
  BY <1>2
<1>6. decode_peers(message) = [i \in 1..Len(good) |-> decode_peers(message)[i]]
  BY <1>3, <1>5
<1>7. QED BY <1>4, <1>5, <1>6

\* The overlay of a seed, which is not known yet, is an address.
LEMMA ZeroAddress == [b \in 1..Bytes |-> 0] \in Address
<1> DEFINE n == 2 ^ Width - 1
<1>1. n \in Int
  BY WidthAssumption
<1>2. Address = [1..Bytes -> 0..n]
  BY DEF Address
<1> HIDE DEF n
<1>3. Reference[1] \in 0..n
  BY <1>2, CrawlerAssumption, WidthAssumption
<1>4. 0 \in 0..n
  BY <1>1, <1>3
<1>5. QED BY <1>2, <1>4

\* The positions of a list at which a hint of p is.
HintsOf(s, p) == {i \in DOMAIN s : s[i].peer = p}

LEMMA SeedType ==
  /\ SeedHints \in Seq(Hint)
  /\ \A p \in Peers : Cardinality(HintsOf(SeedHints, p)) <= SeedsOf(p)
<1> DEFINE I == {i \in DOMAIN Seeds : NamesPeer(Seeds[i])}
           named == Named(Seeds)
<1>1. Seeds \in Seq(Addr) /\ I \in SUBSET (DOMAIN Seeds) /\ named = Picked(Seeds, I)
  BY CrawlerAssumption DEF Named
<1>2. named \in Seq(Addr) /\ \A k \in DOMAIN named : named[k].id \in Peers
  BY <1>1, NamedFact
<1>3. PICK at \in [1..Cardinality(I) -> I] :
         /\ \A k, m \in 1..Cardinality(I) : at[k] = at[m] => k = m
         /\ \A k \in 1..Cardinality(I) : named[k] = Seeds[at[k]]
  <2> HIDE DEF I
  <2>1. \E at \in [1..Cardinality(I) -> I] :
           /\ \A k, m \in 1..Cardinality(I) : at[k] = at[m] => k = m
           /\ \A k \in 1..Cardinality(I) : Picked(Seeds, I)[k] = Seeds[at[k]]
    BY <1>1, PickedFact
  <2>2. named = Picked(Seeds, I)
    BY <1>1
  <2> HIDE DEF named
  <2>3. QED BY <2>1, <2>2
<1>4. DOMAIN named = 1..Cardinality(I)
  <2>1. Len(named) = Cardinality(I) /\ named \in Seq(Addr)
    BY <1>1, PickedFact
  <2>2. QED BY <2>1
<1>5. SeedHints = [i \in DOMAIN named |->
          [peer |-> named[i].id, overlay |-> [b \in 1..Bytes |-> 0],
           underlays |-> <<named[i]>>]]
  BY DEF SeedHints
<1> HIDE DEF named
<1>6. [b \in 1..Bytes |-> 0] \in Address
  BY ZeroAddress
<1>7. ASSUME NEW i \in DOMAIN named PROVE SeedHints[i] \in Hint
  <2>1. named[i] \in Addr /\ named[i].id \in Peers
    BY <1>2
  <2>2. <<named[i]>> \in Seq(Addr) /\ named[i] \in ToSet(<<named[i]>>)
    BY <2>1 DEF ToSet
  <2>3. QED BY <1>5, <1>6, <2>1, <2>2 DEF Hint
<1>8. SeedHints \in Seq(Hint)
  BY <1>2, <1>5, <1>7
<1>9. ASSUME NEW p \in Peers PROVE Cardinality(HintsOf(SeedHints, p)) <= SeedsOf(p)
  <2> DEFINE A == HintsOf(SeedHints, p)
             B == {i \in DOMAIN Seeds : Seeds[i].id = p}
             f == [k \in A |-> at[k]]
  <2>1. \A k \in A : k \in 1..Cardinality(I) /\ named[k].id = p
    BY <1>4, <1>5 DEF HintsOf
  <2>2. \A k \in A : f[k] \in B
    BY <1>1, <1>3, <2>1
  <2>3. f \in Injection(A, B)
    BY <1>3, <2>1, <2>2 DEF Injection, IsInjective
  <2>4. IsFiniteSet(B)
    BY <1>1, SomeFinite
  <2>5. QED BY <2>3, <2>4, FS_Injection DEF SeedsOf
<1>10. QED BY <1>8, <1>9

\* The head of a list is one of the hints of its peer.
LEMMA CountTail ==
  ASSUME NEW s \in Seq(Hint), s # <<>>, NEW p
  PROVE  /\ Cardinality(HintsOf(s, p)) \in Nat /\ Cardinality(HintsOf(Tail(s), p)) \in Nat
         /\ Cardinality(HintsOf(s, p)) =
               Cardinality(HintsOf(Tail(s), p)) + (IF Head(s).peer = p THEN 1 ELSE 0)
<1> DEFINE A == HintsOf(s, p)
           B == HintsOf(Tail(s), p)
           f == [i \in B |-> i + 1]
<1>1. /\ Len(s) \in Nat \ {0} /\ DOMAIN s = 1..Len(s) /\ Tail(s) \in Seq(Hint)
      /\ DOMAIN Tail(s) = 1..(Len(s) - 1) /\ Head(s) = s[1]
      /\ \A i \in 1..(Len(s) - 1) : Tail(s)[i] = s[i + 1]
  OBVIOUS
<1>2. A \in SUBSET (DOMAIN s) /\ B \in SUBSET (DOMAIN Tail(s))
  BY DEF HintsOf
<1>3. IsFiniteSet(A) /\ Cardinality(A) \in Nat /\ IsFiniteSet(B) /\ Cardinality(B) \in Nat
  BY <1>1, <1>2, SomeFinite
<1>4. f \in Bijection(B, A \ {1})
  <2>1. \A i \in B : i \in 1..(Len(s) - 1) /\ s[i + 1].peer = p
    BY <1>1 DEF HintsOf
  <2>2. \A i \in B : f[i] \in A \ {1}
    BY <1>1, <2>1 DEF HintsOf
  <2>3. \A i, j \in B : f[i] = f[j] => i = j
    BY <2>1
  <2>4. \A k \in A \ {1} : k - 1 \in B /\ f[k - 1] = k
    BY <1>1 DEF HintsOf
  <2>5. QED BY <2>2, <2>3, <2>4 DEF Bijection, Injection, IsInjective, Surjection
<1>5. Cardinality(A \ {1}) = Cardinality(B)
  BY <1>3, <1>4, FS_Bijection DEF ExistsBijection
<1>6. 1 \in A <=> Head(s).peer = p
  BY <1>1 DEF HintsOf
<1>7. Cardinality(A \ {1}) = IF 1 \in A THEN Cardinality(A) - 1 ELSE Cardinality(A)
  BY <1>3, FS_RemoveElement
<1>8. QED BY <1>3, <1>5, <1>6, <1>7

LEMMA CountAppend ==
  ASSUME NEW s \in Seq(Hint), NEW h \in Hint, NEW p
  PROVE  /\ Cardinality(HintsOf(s, p)) \in Nat
         /\ Cardinality(HintsOf(Append(s, h), p)) =
               Cardinality(HintsOf(s, p)) + (IF h.peer = p THEN 1 ELSE 0)
<1> DEFINE A == HintsOf(s, p)
           n == Len(s) + 1
<1>1. /\ Len(s) \in Nat /\ DOMAIN s = 1..Len(s) /\ DOMAIN Append(s, h) = 1..n
      /\ Append(s, h)[n] = h /\ \A i \in 1..Len(s) : Append(s, h)[i] = s[i]
  OBVIOUS
<1>2. A \in SUBSET (DOMAIN s) /\ n \notin A
  BY <1>1 DEF HintsOf
<1>3. IsFiniteSet(A) /\ Cardinality(A) \in Nat
  BY <1>2, SomeFinite
<1>4. HintsOf(Append(s, h), p) = IF h.peer = p THEN A \cup {n} ELSE A
  BY <1>1 DEF HintsOf
<1>5. Cardinality(A \cup {n}) = Cardinality(A) + 1
  BY <1>2, <1>3, FS_AddElement
<1>6. QED BY <1>3, <1>4, <1>5

-----------------------------------------------------------------------------
(* The cache.                                                              *)

Record == [underlays : Seq(Addr), rtt : Nat, dialed : BOOLEAN]

IsCache(c) == c = [o \in DOMAIN c |-> c[o]] /\ \A o \in DOMAIN c : c[o] \in Record

LEMMA ConcatSet ==
  ASSUME NEW s \in Seq(Addr), NEW t \in Seq(Addr)
  PROVE  s \o t \in Seq(Addr) /\ ToSet(s \o t) = ToSet(s) \cup ToSet(t)
<1>1. /\ Len(s) \in Nat /\ Len(t) \in Nat /\ DOMAIN s = 1..Len(s) /\ DOMAIN t = 1..Len(t)
      /\ s \o t \in Seq(Addr) /\ DOMAIN (s \o t) = 1..(Len(s) + Len(t))
      /\ \A i \in 1..(Len(s) + Len(t)) :
            (s \o t)[i] = IF i <= Len(s) THEN s[i] ELSE t[i - Len(s)]
  OBVIOUS
<1>2. ASSUME NEW x \in ToSet(s \o t) PROVE x \in ToSet(s) \cup ToSet(t)
  <2>1. PICK i \in 1..(Len(s) + Len(t)) : x = (s \o t)[i]
    BY <1>1 DEF ToSet
  <2>2. CASE i <= Len(s)
    BY <1>1, <2>1, <2>2 DEF ToSet
  <2>3. CASE ~(i <= Len(s))
    <3>1. i - Len(s) \in DOMAIN t /\ x = t[i - Len(s)]
      BY <1>1, <2>1, <2>3
    <3>2. QED BY <3>1 DEF ToSet
  <2>4. QED BY <2>2, <2>3
<1>3. ASSUME NEW x \in ToSet(s) PROVE x \in ToSet(s \o t)
  <2>1. PICK i \in DOMAIN s : x = s[i]
    BY DEF ToSet
  <2>2. i \in DOMAIN (s \o t) /\ x = (s \o t)[i]
    BY <1>1, <2>1
  <2>3. QED BY <2>2 DEF ToSet
<1>4. ASSUME NEW x \in ToSet(t) PROVE x \in ToSet(s \o t)
  <2>1. PICK i \in DOMAIN t : x = t[i]
    BY DEF ToSet
  <2>2. i + Len(s) \in DOMAIN (s \o t) /\ x = (s \o t)[i + Len(s)]
    BY <1>1, <2>1
  <2>3. QED BY <2>2 DEF ToSet
<1>5. QED BY <1>1, <1>2, <1>3, <1>4

\* A nonempty set of positions has a first one.
LEMMA FirstPosition ==
  ASSUME NEW n \in Nat, NEW I \in SUBSET (1..n), I # {}
  PROVE  \E i \in I : \A j \in I : i <= j
<1>1. IsFiniteSet(I) /\ Cardinality(I) \in Nat /\ Cardinality(I) # 0
  BY PositionsFinite, FS_EmptySet
<1>2. PICK i \in I : Rank(I)[i] = 1
  <2>1. 1 \in 1..Cardinality(I)
    BY <1>1
  <2>2. QED BY <2>1, RankBijective
<1>3. ASSUME NEW j \in I, ~(i <= j) PROVE FALSE
  <2>1. {k \in I : k <= i} \in SUBSET I
    OBVIOUS
  <2>2. IsFiniteSet({k \in I : k <= i}) /\ Cardinality({k \in I : k <= i}) = 1
    BY <1>2, <2>1, PositionsFinite DEF Rank
  <2>3. PICK x : {k \in I : k <= i} = {x}
    BY <2>2, FS_Singleton
  <2>4. i \in Int /\ j \in Int /\ i <= i /\ j <= i /\ i # j
    BY <1>3
  <2>5. i \in {x} /\ j \in {x}
    BY <2>3, <2>4
  <2>6. QED BY <2>4, <2>5
<1>4. QED BY <1>3

\* What is not fresh is known already, or comes earlier in the list.
LEMMA FreshCovers ==
  ASSUME NEW us \in Seq(Addr), NEW vs \in Seq(Addr)
  PROVE  {vs[i] : i \in Fresh(us, vs)} \cup ToSet(us) = ToSet(us) \cup ToSet(vs)
<1>1. SUFFICES ASSUME NEW v \in ToSet(vs), v \notin ToSet(us)
               PROVE  \E i \in Fresh(us, vs) : v = vs[i]
  BY DEF ToSet, Fresh
<1> DEFINE I == {i \in DOMAIN vs : vs[i] = v}
<1>2. Len(vs) \in Nat /\ DOMAIN vs = 1..Len(vs) /\ I \in SUBSET (1..Len(vs)) /\ I # {}
  BY DEF ToSet
<1>3. PICK i \in I : \A j \in I : i <= j
  BY <1>2, FirstPosition
<1>4. \A j \in 1..(i - 1) : vs[j] # vs[i]
  BY <1>2, <1>3
<1>5. i \in Fresh(us, vs)
  BY <1>1, <1>3, <1>4 DEF Fresh
<1>6. QED BY <1>3, <1>5

\* From c to d, a record gains addresses, keeps that it was dialed, and its
\* round trip unless a new one was measured.
Gains(c, d, o, rec) ==
    /\ IsCache(d) /\ DOMAIN d = DOMAIN c \cup {o}
    /\ \A x \in DOMAIN c : x # o => d[x] = c[x]
    /\ o \notin DOMAIN c => d[o] = rec
    /\ o \in DOMAIN c =>
          /\ d[o].dialed = (c[o].dialed \/ rec.dialed)
          /\ d[o].rtt = IF rec.rtt # 0 THEN rec.rtt ELSE c[o].rtt
          /\ ToSet(d[o].underlays) = ToSet(c[o].underlays) \cup ToSet(rec.underlays)

LEMMA UpsertFact ==
  ASSUME NEW c, IsCache(c), NEW o, NEW rec \in Record
  PROVE  Gains(c, upsert(c, o, rec), o, rec)
<1> USE DEF Gains
<1> DEFINE d == upsert(c, o, rec)
<1>1. CASE o \notin DOMAIN c
  <2>1. d = [x \in DOMAIN c \cup {o} |-> IF x = o THEN rec ELSE c[x]]
    BY <1>1 DEF upsert
  <2>2. QED BY <1>1, <2>1 DEF IsCache
<1>2. CASE o \in DOMAIN c
  <2> DEFINE us == c[o].underlays
             vs == rec.underlays
             I == Fresh(us, vs)
             ws == us \o Picked(vs, I)
             r == [underlays |-> ws, rtt |-> IF rec.rtt # 0 THEN rec.rtt ELSE c[o].rtt,
                   dialed |-> c[o].dialed \/ rec.dialed]
  <2>1. d = [c EXCEPT ![o] = r]
    BY <1>2 DEF upsert
  <2>2. c[o] \in Record /\ us \in Seq(Addr) /\ vs \in Seq(Addr)
    BY <1>2 DEF IsCache, Record
  <2>3. I \in SUBSET (DOMAIN vs)
    BY DEF Fresh
  <2>4. Picked(vs, I) \in Seq(Addr) /\ ToSet(Picked(vs, I)) = {vs[i] : i \in I}
    BY <2>2, <2>3, PickedFact
  <2>5. ws \in Seq(Addr) /\ ToSet(ws) = ToSet(us) \cup ToSet(Picked(vs, I))
    BY <2>2, <2>4, ConcatSet
  <2>6. {vs[i] : i \in I} \cup ToSet(us) = ToSet(us) \cup ToSet(vs)
    BY <2>2, FreshCovers
  <2>7. ToSet(ws) = ToSet(us) \cup ToSet(vs)
    BY <2>4, <2>5, <2>6
  <2>8. r \in Record
    BY <2>2, <2>5 DEF Record
  <2>9. DOMAIN d = DOMAIN c /\ d[o] = r /\ \A x \in DOMAIN c : x # o => d[x] = c[x]
    BY <1>2, <2>1 DEF IsCache
  <2>10. d = [x \in DOMAIN d |-> d[x]]
    BY <1>2, <2>1 DEF IsCache
  <2> HIDE DEF r, d
  <2>11. IsCache(d)
    BY <1>2, <2>8, <2>9, <2>10 DEF IsCache
  <2>12. /\ d[o].dialed = (c[o].dialed \/ rec.dialed)
         /\ d[o].rtt = IF rec.rtt # 0 THEN rec.rtt ELSE c[o].rtt
         /\ d[o].underlays = ws
    <3>1. r.dialed = (c[o].dialed \/ rec.dialed)
      BY Zenon DEF r
    <3>2. r.rtt = (IF rec.rtt # 0 THEN rec.rtt ELSE c[o].rtt) /\ r.underlays = ws
      BY DEF r
    <3>3. QED BY <2>9, <3>1, <3>2, Zenon
  <2>13. QED BY <1>2, <2>7, <2>9, <2>11, <2>12 DEF d
<1>3. QED BY <1>1, <1>2

-----------------------------------------------------------------------------
(* The inductive invariant.                                                *)

AtHint == pc \in {"send", "wait", "shake", "harvest", "bye"}

Typed ==
    /\ frontier \in Seq(Hint) /\ queued \subseteq Peers /\ tried \in [Peers -> Nat]
    /\ AtHint => hint \in Hint
    /\ DOMAIN streams = DOMAIN Batches
    /\ \A b \in DOMAIN Batches : streams[b] \in Seq(Hint)
    /\ IsCache(cache)

\* The dedup set knows every peer that is, or was, in the frontier, and the
\* loop has an end only once.
Known ==
    /\ \A h \in ToSet(frontier) : h.peer \in queued
    /\ AtHint => hint.peer \in queued
    /\ \A p \in Peers : tried[p] > 0 => p \in queued
    /\ Running => stop = ""

\* A round trip is measured exactly where a handshake was made; the peer that
\* made it is among the addresses, and so is one that was queued.
Records ==
    \A o \in DOMAIN cache :
        /\ cache[o].dialed <=> cache[o].rtt # 0
        /\ cache[o].dialed => \E u \in ToSet(cache[o].underlays) :
                                 u.id \in Peers /\ OverlayOf[u.id] = o
        /\ \E u \in ToSet(cache[o].underlays) : u.id \in queued

\* Every queued peer was dialed or still waits, until a cap stops the crawl.
Remembered ==
    /\ stop \in {"", "frontier_drained"} =>
          \A p \in queued : tried[p] > 0 \/ \E h \in ToSet(frontier) : h.peer = p
    /\ stop = "frontier_drained" => frontier = <<>>

MostDials(p) == IF SeedsOf(p) = 0 THEN 1 ELSE SeedsOf(p)

\* Dials made and dials to come, together.
Counted ==
    \A p \in Peers : tried[p] + Cardinality(HintsOf(frontier, p)) <= MostDials(p)

\* The rows of the file are those of the cache, one per overlay, the last one
\* perhaps cut in its addresses; after a clean end they are whole and all.
RowOK(r) ==
    /\ r.overlay \in DOMAIN cache
    /\ r.dialed = IF cache[r.overlay].dialed THEN "1" ELSE "0"
    /\ r.rtt = IF cache[r.overlay].rtt = 0 THEN <<>> ELSE <<cache[r.overlay].rtt>>
    /\ r.columns = 5 => LeftOf(Split(r.underlays), cache[r.overlay].underlays)

\* The row is read as it was written.
Intact(r) == r.columns = 5 /\ Split(r.underlays) = cache[r.overlay].underlays

Rows ==
    pc = "saved" =>
       /\ \A r \in csv : RowOK(r)
       /\ \A r, s \in csv : r.overlay = s.overlay => r = s
       /\ \A r, s \in csv : ~Intact(r) /\ ~Intact(s) => r = s
       /\ ~died => /\ \A o \in DOMAIN cache : \E r \in csv : r.overlay = o
                   /\ \A r \in csv : Intact(r)

Inv == Typed /\ Known /\ Records /\ Remembered /\ Counted /\ Rows /\ LoadedFaithful

-----------------------------------------------------------------------------
(* Steps.                                                                  *)

LEMMA MostDialsType ==
  \A p \in Peers : SeedsOf(p) \in Nat /\ MostDials(p) \in Nat /\ MostDials(p) >= 1
<1>1. TAKE p \in Peers
<1>2. {i \in DOMAIN Seeds : Seeds[i].id = p} \in SUBSET (DOMAIN Seeds) /\ Seeds \in Seq(Addr)
  BY CrawlerAssumption
<1>3. SeedsOf(p) \in Nat
  BY <1>2, SomeFinite DEF SeedsOf
<1>4. QED BY <1>3 DEF MostDials

LEMMA MembersOf == ASSUME NEW S, NEW s \in Seq(S) PROVE \A x \in ToSet(s) : x \in S
  BY DEF ToSet

\* Only the seeds are queued when a crawl begins.
LEMMA InvInit == Init => Inv
<1> SUFFICES ASSUME Init PROVE Inv
  OBVIOUS
<1>1. frontier = SeedHints /\ frontier \in Seq(Hint)
  BY SeedType DEF Init
<1>2. \A h \in ToSet(frontier) : h \in Hint /\ h.peer \in Peers
  BY <1>1, MembersOf DEF Hint
<1>3. queued = {h.peer : h \in ToSet(frontier)}
  BY <1>1 DEF Init
<1>4. Typed
  <2>1. \A b \in DOMAIN Batches : <<>> \in Seq(Hint)
    OBVIOUS
  <2>2. IsCache(<<>>)
    BY DEF IsCache
  <2>3. queued \subseteq Peers
    BY <1>2, <1>3
  <2>4. cache = <<>> /\ IsCache(cache)
    BY <2>2 DEF Init
  <2>5. /\ tried \in [Peers -> Nat] /\ ~AtHint
        /\ DOMAIN streams = DOMAIN Batches /\ \A b \in DOMAIN Batches : streams[b] = <<>>
    BY DEF Init, AtHint
  <2>6. QED BY <1>1, <2>1, <2>3, <2>4, <2>5 DEF Typed
<1>5. Known
  <2>1. tried = [p \in Peers |-> 0] /\ ~AtHint /\ stop = ""
    BY DEF Init, AtHint
  <2>2. \A h \in ToSet(frontier) : h.peer \in queued
    BY <1>3
  <2>3. \A p \in Peers : ~(tried[p] > 0)
    <3>1. \A p \in Peers : tried[p] = 0
      BY <2>1
    <3>2. QED BY <3>1
  <2>4. QED BY <2>1, <2>2, <2>3 DEF Known
<1>6. Records
  <2>1. cache = <<>>
    BY DEF Init
  <2>2. DOMAIN cache = {}
    BY <2>1
  <2>3. QED BY <2>2 DEF Records
<1>7. Remembered
  <2>1. stop = ""
    BY DEF Init
  <2>2. \A p \in queued : \E h \in ToSet(frontier) : h.peer = p
    BY <1>3
  <2>3. QED BY <2>1, <2>2 DEF Remembered
<1>8. Counted
  <2>1. SUFFICES ASSUME NEW p \in Peers
                 PROVE  tried[p] + Cardinality(HintsOf(frontier, p)) <= MostDials(p)
    BY DEF Counted
  <2>2. Cardinality(HintsOf(frontier, p)) <= SeedsOf(p)
    BY <1>1, SeedType
  <2>3. HintsOf(frontier, p) \in SUBSET (DOMAIN frontier)
    BY DEF HintsOf
  <2>4. Cardinality(HintsOf(frontier, p)) \in Nat /\ tried[p] = 0
    BY <1>1, <2>3, SomeFinite DEF Init
  <2>5. QED BY <2>2, <2>4, MostDialsType DEF MostDials
<1>9. Rows /\ LoadedFaithful
  BY DEF Init, Rows, LoadedFaithful
<1>10. QED BY <1>4, <1>5, <1>6, <1>7, <1>8, <1>9 DEF Inv

\* The loop moves on with the hint it has.
LEMMA MovesInv ==
  ASSUME Inv, Running, Running',
         UNCHANGED <<frontier, queued, stop, cache, tried>>,
         DOMAIN streams' = DOMAIN Batches, \A b \in DOMAIN Batches : streams'[b] \in Seq(Hint),
         AtHint' => AtHint /\ hint' = hint
  PROVE  Inv'
<1>1. Typed' /\ Known'
  BY DEF Inv, Typed, Known, IsCache, Running
<1>2. Records' /\ Remembered' /\ Counted'
  BY DEF Inv, Records, Remembered, Counted, HintsOf
<1>3. Rows' /\ LoadedFaithful'
  BY DEF Running, Rows, LoadedFaithful
<1>4. QED BY <1>1, <1>2, <1>3 DEF Inv

\* The loop ends with the frontier drained.
LEMMA DrainedInv == ASSUME Inv, Drained PROVE Inv'
<1>1. /\ frontier = <<>> /\ frontier' = frontier /\ queued' = queued /\ cache' = cache
      /\ tried' = tried /\ stop = "" /\ stop' = "frontier_drained" /\ pc' = "done"
      /\ streams' = [b \in DOMAIN Batches |-> <<>>]
  BY DEF Inv, Known, Running, Drained, Dropped
<1>2. Typed' /\ Known'
  BY <1>1 DEF Inv, Typed, Known, IsCache, AtHint, Running
<1>3. Records' /\ Remembered' /\ Counted'
  BY <1>1 DEF Inv, Records, Remembered, Counted, HintsOf
<1>4. Rows' /\ LoadedFaithful'
  BY <1>1 DEF Rows, LoadedFaithful
<1>5. QED BY <1>2, <1>3, <1>4 DEF Inv

LEMMA TailFact ==
  ASSUME NEW s \in Seq(Hint), s # <<>>
  PROVE  /\ Tail(s) \in Seq(Hint) /\ Head(s) \in Hint
         /\ ToSet(s) = ToSet(Tail(s)) \cup {Head(s)}
<1>1. /\ Len(s) \in Nat \ {0} /\ DOMAIN s = 1..Len(s) /\ Tail(s) \in Seq(Hint)
      /\ DOMAIN Tail(s) = 1..(Len(s) - 1) /\ Head(s) = s[1]
      /\ \A i \in 1..(Len(s) - 1) : Tail(s)[i] = s[i + 1]
  OBVIOUS
<1>2. ASSUME NEW x \in ToSet(s) PROVE x \in ToSet(Tail(s)) \cup {Head(s)}
  <2>1. PICK i \in 1..Len(s) : x = s[i]
    BY <1>1 DEF ToSet
  <2>2. CASE i = 1
    BY <1>1, <2>1, <2>2
  <2>3. CASE i # 1
    <3>1. i - 1 \in DOMAIN Tail(s) /\ Tail(s)[i - 1] = x
      BY <1>1, <2>1, <2>3
    <3>2. QED BY <3>1 DEF ToSet
  <2>4. QED BY <2>2, <2>3
<1>3. \A x \in ToSet(Tail(s)) \cup {Head(s)} : x \in ToSet(s)
  BY <1>1 DEF ToSet
<1>4. QED BY <1>1, <1>2, <1>3

\* A cap ends the loop, and a popped hint is dropped.
LEMMA CappedInv == ASSUME Inv, Capped PROVE Inv'
<1>1. /\ frontier # <<>> /\ frontier' = Tail(frontier) /\ queued' = queued /\ cache' = cache
      /\ tried' = tried /\ stop' \in {"wall_cap", "max_dials"} /\ pc' = "done"
      /\ streams' = [b \in DOMAIN Batches |-> <<>>]
  BY DEF Capped, Dropped
<1>2. frontier \in Seq(Hint) /\ Tail(frontier) \in Seq(Hint)
      /\ ToSet(Tail(frontier)) \subseteq ToSet(frontier)
  BY <1>1, TailFact DEF Inv, Typed
<1>3. Typed' /\ Known'
  <2>1. ~AtHint' /\ ~Running'
    BY <1>1 DEF AtHint, Running
  <2>2. Typed'
    BY <1>1, <1>2, <2>1 DEF Inv, Typed, IsCache
  <2>3. Known'
    <3>1. \A h \in ToSet(frontier') : h.peer \in queued'
      BY <1>1, <1>2 DEF Inv, Known
    <3>2. \A p \in Peers : tried'[p] > 0 => p \in queued'
      BY <1>1 DEF Inv, Known
    <3>3. QED BY <2>1, <3>1, <3>2 DEF Known
  <2>4. QED BY <2>2, <2>3
<1>4. Records' /\ Remembered'
  BY <1>1 DEF Inv, Records, Remembered
<1>5. Counted'
  <2>1. SUFFICES ASSUME NEW p \in Peers
                 PROVE  tried[p] + Cardinality(HintsOf(Tail(frontier), p)) <= MostDials(p)
    BY <1>1 DEF Counted, HintsOf
  <2>2. tried[p] \in Nat /\ tried[p] + Cardinality(HintsOf(frontier, p)) <= MostDials(p)
    BY DEF Inv, Typed, Counted
  <2>3. /\ Cardinality(HintsOf(frontier, p)) \in Nat
        /\ Cardinality(HintsOf(Tail(frontier), p)) \in Nat
        /\ Cardinality(HintsOf(frontier, p)) = Cardinality(HintsOf(Tail(frontier), p))
              + (IF Head(frontier).peer = p THEN 1 ELSE 0)
    BY <1>1, <1>2, CountTail
  <2>4. MostDials(p) \in Nat
    BY MostDialsType
  <2>5. QED BY <2>2, <2>3, <2>4
<1>6. Rows' /\ LoadedFaithful'
  BY <1>1 DEF Rows, LoadedFaithful
<1>7. QED BY <1>3, <1>4, <1>5, <1>6 DEF Inv

\* The hint goes from the frontier to the dialed.
LEMMA DialInv == ASSUME Inv, Dial PROVE Inv'
<1> DEFINE q == Head(frontier).peer
<1>1. /\ frontier # <<>> /\ frontier' = Tail(frontier) /\ queued' = queued /\ cache' = cache
      /\ hint' = Head(frontier) /\ stop' = stop /\ stop = "" /\ pc' = "send"
      /\ streams' = streams /\ tried' = [tried EXCEPT ![q] = @ + 1]
  BY DEF Inv, Known, Running, Dial, netVars
<1>2. /\ frontier \in Seq(Hint) /\ Tail(frontier) \in Seq(Hint) /\ Head(frontier) \in Hint
      /\ ToSet(frontier) = ToSet(Tail(frontier)) \cup {Head(frontier)}
  BY <1>1, TailFact DEF Inv, Typed
<1>3. q \in Peers /\ q \in queued /\ tried \in [Peers -> Nat]
  BY <1>2 DEF Inv, Known, Typed, Hint
<1>4. /\ tried' \in [Peers -> Nat] /\ tried'[q] = tried[q] + 1 /\ tried[q] \in Nat
      /\ \A p \in Peers : p # q => tried'[p] = tried[p]
  <2>1. tried' = [tried EXCEPT ![q] = @ + 1]
    BY <1>1
  <2> HIDE DEF q
  <2>2. QED BY <1>3, <2>1
<1>5. Typed'
  BY <1>1, <1>2, <1>4 DEF Inv, Typed, IsCache, AtHint
<1>6. Known'
  BY <1>1, <1>2, <1>3, <1>4 DEF Inv, Known, AtHint, Running
<1>7. Records'
  BY <1>1 DEF Inv, Records
<1>8. Remembered'
  <2>1. SUFFICES ASSUME NEW p \in queued
                 PROVE  tried'[p] > 0 \/ \E h \in ToSet(Tail(frontier)) : h.peer = p
    BY <1>1 DEF Remembered
  <2>2. p \in Peers /\ tried[p] \in Nat
    BY <1>3 DEF Inv, Typed
  <2>3. tried[p] > 0 \/ \E h \in ToSet(frontier) : h.peer = p
    BY <1>1 DEF Inv, Remembered
  <2>4. QED BY <1>2, <1>4, <2>2, <2>3
<1>9. Counted'
  <2>1. SUFFICES ASSUME NEW p \in Peers
                 PROVE  tried'[p] + Cardinality(HintsOf(Tail(frontier), p)) <= MostDials(p)
    BY <1>1 DEF Counted, HintsOf
  <2>2. tried[p] \in Nat /\ tried[p] + Cardinality(HintsOf(frontier, p)) <= MostDials(p)
    BY DEF Inv, Typed, Counted
  <2>3. /\ Cardinality(HintsOf(frontier, p)) \in Nat
        /\ Cardinality(HintsOf(Tail(frontier), p)) \in Nat
        /\ Cardinality(HintsOf(frontier, p)) = Cardinality(HintsOf(Tail(frontier), p))
              + (IF Head(frontier).peer = p THEN 1 ELSE 0)
    BY <1>1, <1>2, CountTail
  <2>4. MostDials(p) \in Nat
    BY MostDialsType
  <2>5. QED BY <1>4, <2>2, <2>3, <2>4
<1>10. Rows' /\ LoadedFaithful'
  BY <1>1 DEF Rows, LoadedFaithful
<1>11. QED BY <1>5, <1>6, <1>7, <1>8, <1>9, <1>10 DEF Inv

\* A record that is added or gains keeps what the records promise.
LEMMA UpsertRecords ==
  ASSUME IsCache(cache), Records, NEW o, NEW rec \in Record,
         rec.dialed <=> rec.rtt # 0,
         rec.dialed => \E u \in ToSet(rec.underlays) : u.id \in Peers /\ OverlayOf[u.id] = o,
         \E u \in ToSet(rec.underlays) : u.id \in queued',
         queued \subseteq queued', cache' = upsert(cache, o, rec)
  PROVE  IsCache(cache') /\ Records'
<1> DEFINE d == cache'
<1>1. /\ IsCache(d) /\ DOMAIN d = DOMAIN cache \cup {o}
      /\ \A x \in DOMAIN cache : x # o => d[x] = cache[x]
      /\ o \notin DOMAIN cache => d[o] = rec
      /\ o \in DOMAIN cache =>
            /\ d[o].dialed = (cache[o].dialed \/ rec.dialed)
            /\ d[o].rtt = IF rec.rtt # 0 THEN rec.rtt ELSE cache[o].rtt
            /\ ToSet(d[o].underlays) = ToSet(cache[o].underlays) \cup ToSet(rec.underlays)
  <2>1. Gains(cache, upsert(cache, o, rec), o, rec)
    BY UpsertFact
  <2>2. Gains(cache, d, o, rec)
    BY <2>1
  <2> HIDE DEF d
  <2>3. QED BY <2>2, Zenon DEF Gains
<1> HIDE DEF d
<1> DEFINE Good(r, x) ==
             /\ r.dialed <=> r.rtt # 0
             /\ r.dialed => \E u \in ToSet(r.underlays) : u.id \in Peers /\ OverlayOf[u.id] = x
             /\ \E u \in ToSet(r.underlays) : u.id \in queued'
<1>2. ASSUME NEW x \in DOMAIN cache PROVE Good(cache[x], x)
  BY DEF Records
<1>3. Good(rec, o)
  OBVIOUS
<1>4. ASSUME NEW x \in DOMAIN d PROVE Good(d[x], x)
  <2>1. CASE x # o
    <3>1. x \in DOMAIN cache /\ d[x] = cache[x]
      BY <1>1, <2>1
    <3>2. QED BY <1>2, <3>1
  <2>2. CASE x = o /\ o \notin DOMAIN cache
    BY <1>1, <1>3, <2>2
  <2>3. CASE x = o /\ o \in DOMAIN cache
    <3>1. /\ d[o].dialed <=> (cache[o].dialed \/ rec.dialed)
          /\ d[o].rtt = IF rec.rtt # 0 THEN rec.rtt ELSE cache[o].rtt
          /\ ToSet(d[o].underlays) = ToSet(cache[o].underlays) \cup ToSet(rec.underlays)
      BY <1>1, <2>3, Zenon
    <3>2. Good(cache[o], o)
      BY <1>2, <2>3
    <3>3. d[o].dialed <=> d[o].rtt # 0
      <4>1. CASE rec.rtt # 0
        BY <3>1, <4>1, <1>3
      <4>2. CASE rec.rtt = 0
        BY <3>1, <4>2, <1>3, <3>2
      <4>3. QED BY <4>1, <4>2
    <3>4. d[o].dialed => \E u \in ToSet(d[o].underlays) : u.id \in Peers /\ OverlayOf[u.id] = o
      BY <3>1, <3>2, <1>3
    <3>5. \E u \in ToSet(d[o].underlays) : u.id \in queued'
      BY <3>1, <1>3
    <3>6. QED BY <2>3, <3>3, <3>4, <3>5
  <2>4. QED BY <2>1, <2>2, <2>3
<1>5. Records'
  BY <1>4 DEF Records, d
<1>6. QED BY <1>1, <1>5 DEF d

\* The peer proves its overlay, and the record is kept under that one.
LEMMA HandshakeOkInv == ASSUME Inv, HandshakeOk PROVE Inv'
<1>1. PICK rtt \in Rtts :
         cache' = upsert(cache, OverlayOf[hint.peer],
                         [underlays |-> hint.underlays, rtt |-> rtt, dialed |-> TRUE])
  BY DEF HandshakeOk
<1>2. /\ pc = "shake" /\ pc' = "harvest" /\ frontier' = frontier /\ queued' = queued
      /\ stop' = stop /\ tried' = tried /\ streams' = streams /\ hint' = hint
  BY DEF HandshakeOk, netVars
<1> DEFINE rec == [underlays |-> hint.underlays, rtt |-> rtt, dialed |-> TRUE]
           o == OverlayOf[hint.peer]
<1>3. hint \in Hint /\ hint.peer \in queued /\ IsCache(cache) /\ Records
  BY <1>2 DEF Inv, Typed, Known, AtHint
<1>4. /\ hint.peer \in Peers /\ hint.underlays \in Seq(Addr)
      /\ \E u \in ToSet(hint.underlays) : u.id = hint.peer
  BY <1>3 DEF Hint
<1>5. rtt \in Nat /\ rtt # 0
  BY CrawlerAssumption
<1>6. rec \in Record /\ rec.underlays = hint.underlays /\ rec.rtt = rtt /\ rec.dialed = TRUE
  BY <1>4, <1>5 DEF Record
<1>7. cache' = upsert(cache, o, rec)
  BY <1>1
<1> HIDE DEF rec
<1>8. /\ rec.dialed <=> rec.rtt # 0
      /\ \E u \in ToSet(rec.underlays) : u.id \in Peers /\ OverlayOf[u.id] = o
      /\ \E u \in ToSet(rec.underlays) : u.id \in queued'
  BY <1>2, <1>3, <1>4, <1>5, <1>6
<1> HIDE DEF o
<1>9. IsCache(cache') /\ Records'
  BY <1>2, <1>3, <1>6, <1>7, <1>8, UpsertRecords
<1>10. Typed'
  BY <1>2, <1>9 DEF Inv, Typed, AtHint, IsCache
<1>11. Known' /\ Remembered' /\ Counted'
  BY <1>2 DEF Inv, Known, AtHint, Running, Remembered, Counted, HintsOf
<1>12. Rows' /\ LoadedFaithful'
  BY <1>2 DEF Rows, LoadedFaithful
<1>13. QED BY <1>9, <1>10, <1>11, <1>12 DEF Inv

LEMMA AppendFact ==
  ASSUME NEW s \in Seq(Hint), NEW h \in Hint
  PROVE  Append(s, h) \in Seq(Hint) /\ ToSet(Append(s, h)) = ToSet(s) \cup {h}
<1>1. /\ Len(s) \in Nat /\ DOMAIN s = 1..Len(s) /\ DOMAIN Append(s, h) = 1..(Len(s) + 1)
      /\ Append(s, h)[Len(s) + 1] = h /\ Append(s, h) \in Seq(Hint)
      /\ \A i \in 1..Len(s) : Append(s, h)[i] = s[i]
  OBVIOUS
<1>2. ASSUME NEW x \in ToSet(Append(s, h)) PROVE x \in ToSet(s) \cup {h}
  <2>1. PICK i \in 1..(Len(s) + 1) : x = Append(s, h)[i]
    BY <1>1 DEF ToSet
  <2>2. CASE i = Len(s) + 1
    BY <1>1, <2>1, <2>2
  <2>3. CASE i # Len(s) + 1
    <3>1. i \in DOMAIN s /\ x = s[i]
      BY <1>1, <2>1, <2>3
    <3>2. QED BY <3>1 DEF ToSet
  <2>4. QED BY <2>2, <2>3
<1>3. ASSUME NEW x \in ToSet(s) PROVE x \in ToSet(Append(s, h))
  <2>1. PICK i \in DOMAIN s : x = s[i]
    BY DEF ToSet
  <2>2. i \in DOMAIN Append(s, h) /\ x = Append(s, h)[i]
    BY <1>1, <2>1
  <2>3. QED BY <2>2 DEF ToSet
<1>4. h \in ToSet(Append(s, h))
  <2>1. Len(s) + 1 \in DOMAIN Append(s, h)
    BY <1>1
  <2>2. QED BY <1>1, <2>1 DEF ToSet
<1>5. QED BY <1>1, <1>2, <1>3, <1>4

\* A gossiped node is recorded as only heard of; its peer joins the frontier
\* unless it was there before, so it was never dialed.
LEMMA HarvestInv == ASSUME Inv, NEW b \in DOMAIN Batches, Harvest(b) PROVE Inv'
<1> DEFINE h == Head(streams[b])
           rec == [underlays |-> h.underlays, rtt |-> 0, dialed |-> FALSE]
<1>1. /\ pc = "harvest" /\ pc' = "harvest" /\ streams[b] # <<>> /\ hint' = hint
      /\ streams' = [streams EXCEPT ![b] = Tail(@)] /\ stop' = stop /\ tried' = tried
      /\ cache' = upsert(cache, h.overlay, rec) /\ queued' = queued \cup {h.peer}
      /\ frontier' = IF h.peer \in queued THEN frontier ELSE Append(frontier, h)
  BY DEF Harvest
<1>2. /\ \A x \in DOMAIN Batches : streams[x] \in Seq(Hint)
      /\ DOMAIN streams = DOMAIN Batches /\ IsCache(cache) /\ Records
      /\ frontier \in Seq(Hint) /\ queued \subseteq Peers /\ hint \in Hint
      /\ tried \in [Peers -> Nat] /\ stop = ""
  BY <1>1 DEF Inv, Typed, Known, AtHint, Running
<1>3. h \in Hint /\ Tail(streams[b]) \in Seq(Hint)
  BY <1>1, <1>2, TailFact
<1> HIDE DEF h
<1>4. /\ h.peer \in Peers /\ h.underlays \in Seq(Addr)
      /\ \E u \in ToSet(h.underlays) : u.id = h.peer
  BY <1>3 DEF Hint
<1>5. rec \in Record /\ rec.underlays = h.underlays /\ rec.rtt = 0 /\ rec.dialed = FALSE
  BY <1>4 DEF Record
<1> HIDE DEF rec
<1>6. IsCache(cache') /\ Records'
  <2>1. /\ rec.dialed <=> rec.rtt # 0
        /\ ~rec.dialed /\ \E u \in ToSet(rec.underlays) : u.id \in queued'
    BY <1>1, <1>4, <1>5
  <2>2. queued \subseteq queued' /\ cache' = upsert(cache, h.overlay, rec)
    BY <1>1
  <2>3. QED BY <1>2, <1>5, <2>1, <2>2, UpsertRecords
<1>7. /\ frontier' \in Seq(Hint)
      /\ ToSet(frontier') = ToSet(frontier) \cup (IF h.peer \in queued THEN {} ELSE {h})
  BY <1>1, <1>2, <1>3, AppendFact
<1>8. Typed'
  <2>1. \A x \in DOMAIN Batches : streams'[x] \in Seq(Hint)
    BY <1>1, <1>2, <1>3
  <2>2. DOMAIN streams' = DOMAIN Batches
    BY <1>1, <1>2
  <2>3. queued' \subseteq Peers
    BY <1>1, <1>2, <1>4
  <2>4. QED BY <1>1, <1>2, <1>6, <1>7, <2>1, <2>2, <2>3 DEF Typed, IsCache
<1>9. Known'
  <2>1. \A x \in ToSet(frontier') : x.peer \in queued'
    BY <1>1, <1>7 DEF Inv, Known
  <2>2. hint'.peer \in queued'
    BY <1>1 DEF Inv, Known, AtHint
  <2>3. \A p \in Peers : tried'[p] > 0 => p \in queued'
    BY <1>1 DEF Inv, Known
  <2>4. QED BY <1>1, <1>2, <2>1, <2>2, <2>3 DEF Known
<1>10. Remembered'
  <2>1. SUFFICES ASSUME NEW p \in queued'
                 PROVE  tried[p] > 0 \/ \E x \in ToSet(frontier') : x.peer = p
    BY <1>1, <1>2 DEF Remembered
  <2>2. CASE p \in queued
    BY <1>2, <1>7, <2>2 DEF Inv, Remembered
  <2>3. CASE p \notin queued
    BY <1>1, <1>7, <2>3
  <2>4. QED BY <2>2, <2>3
<1>11. Counted'
  <2>1. SUFFICES ASSUME NEW p \in Peers
                 PROVE  tried[p] + Cardinality(HintsOf(frontier', p)) <= MostDials(p)
    BY <1>1 DEF Counted, HintsOf
  <2>2. tried[p] \in Nat /\ tried[p] + Cardinality(HintsOf(frontier, p)) <= MostDials(p)
    BY DEF Inv, Typed, Counted
  <2>3. CASE h.peer \in queued \/ h.peer # p
    <3>1. HintsOf(frontier', p) = HintsOf(frontier, p)
          \/ Cardinality(HintsOf(frontier', p)) = Cardinality(HintsOf(frontier, p)) + 0
      BY <1>1, <1>2, <1>3, <2>3, CountAppend
    <3>2. Cardinality(HintsOf(frontier, p)) \in Nat
      BY <1>2, <1>3, CountAppend
    <3>3. QED BY <2>2, <3>1, <3>2
  <2>4. CASE h.peer \notin queued /\ h.peer = p
    <3>1. ~(tried[p] > 0) /\ \A x \in ToSet(frontier) : x.peer # p
      BY <2>4 DEF Inv, Known
    <3>2. HintsOf(frontier, p) = {}
      BY <3>1 DEF HintsOf, ToSet
    <3>3. Cardinality(HintsOf(frontier, p)) = 0
      BY <3>2, FS_EmptySet
    <3>4. Cardinality(HintsOf(Append(frontier, h), p)) = Cardinality(HintsOf(frontier, p)) + 1
      BY <1>2, <1>3, <2>4, CountAppend
    <3>5. frontier' = Append(frontier, h)
      BY <1>1, <2>4
    <3>6. MostDials(p) \in Nat /\ MostDials(p) >= 1
      BY MostDialsType
    <3>7. QED BY <2>2, <3>1, <3>3, <3>4, <3>5, <3>6
  <2>5. QED BY <2>3, <2>4
<1>12. Rows' /\ LoadedFaithful'
  BY <1>1 DEF Rows, LoadedFaithful
<1>13. QED BY <1>6, <1>8, <1>9, <1>10, <1>11, <1>12 DEF Inv

\* Waiting for events, failing and ending a window.
Waits == AwaitEvent \/ DialTimeout \/ HandshakeFailed \/ HarvestOver

\* These, and commands to the swarm, change nothing but where the loop is and
\* what it asked for.
LEMMA LoopInv == ASSUME Inv, Waits \/ SendDial \/ SendDisconnect PROVE Inv'
<1>1. /\ pc \in {"send", "wait", "shake", "harvest", "bye"}
      /\ pc' \in {"pop", "wait", "shake", "bye"}
      /\ UNCHANGED <<frontier, queued, stop, cache, tried>>
      /\ UNCHANGED <<hint, streams>>
  BY DEF Waits, AwaitEvent, DialTimeout, HandshakeFailed, HarvestOver, SendDial, SendDisconnect,
         netVars
<1>2. Running /\ Running' /\ (AtHint' => AtHint /\ hint' = hint)
  BY <1>1 DEF Running, AtHint
<1>3. DOMAIN streams' = DOMAIN Batches /\ \A b \in DOMAIN Batches : streams'[b] \in Seq(Hint)
  BY <1>1 DEF Inv, Typed
<1>4. QED BY <1>1, <1>2, <1>3, MovesInv

\* The network leaves the loop alone; what it decodes are hints.
LEMMA NetworkInv == ASSUME Inv, Running, Network PROVE Inv'
<1>1. UNCHANGED <<crawlVars, tried>>
  BY DEF Network, Command, Connects, DialFails, Identifies, Gossips
<1>2. /\ UNCHANGED <<frontier, queued, stop, cache, tried>>
      /\ Running' /\ (AtHint' => AtHint /\ hint' = hint)
  BY <1>1 DEF crawlVars, Running, AtHint
<1>3. DOMAIN streams = DOMAIN Batches /\ \A b \in DOMAIN Batches : streams[b] \in Seq(Hint)
  BY DEF Inv, Typed
<1>4. DOMAIN streams' = DOMAIN Batches /\ \A b \in DOMAIN Batches : streams'[b] \in Seq(Hint)
  <2>1. CASE UNCHANGED streams
    BY <1>3, <2>1
  <2>2. CASE \E b \in DOMAIN Batches : Gossips(b)
    <3>1. PICK b \in DOMAIN Batches : streams' = [streams EXCEPT ![b] = decode_peers(Batches[b])]
      BY <2>2 DEF Gossips
    <3>2. Batches[b] \in Seq(Raw)
      BY CrawlerAssumption DEF Raw
    <3>3. decode_peers(Batches[b]) \in Seq(Hint)
      BY <3>2, DecodeType
    <3>4. QED BY <1>3, <3>1, <3>3
  <2>3. QED BY <2>1, <2>2 DEF Network, Command, Connects, DialFails, Identifies
<1>5. QED BY <1>2, <1>4, MovesInv

-----------------------------------------------------------------------------
(* The file.                                                               *)

LEMMA WiderSeq == ASSUME NEW s \in Seq(Addr) PROVE s \in Seq(Addr \cup {Torn})
  OBVIOUS

LEMMA TornAlone == Append(<<>>, Torn) = <<Torn>>
  OBVIOUS

LEMMA RowFact ==
  ASSUME NEW o \in DOMAIN cache, NEW us, NEW k,
         k = 5 => LeftOf(Split(us), cache[o].underlays)
  PROVE  /\ RowOK(Row(o, us, k)) /\ Row(o, us, k).overlay = o
         /\ Row(o, us, k).columns = k /\ Row(o, us, k).underlays = us
<1> DEFINE r == Row(o, us, k)
<1>1. /\ r.overlay = o /\ r.columns = k /\ r.underlays = us
      /\ r.dialed = IF cache[o].dialed THEN "1" ELSE "0"
      /\ r.rtt = IF cache[o].rtt = 0 THEN <<>> ELSE <<cache[o].rtt>>
  BY Zenon DEF Row
<1> HIDE DEF r
<1>2. r.columns = 5 => LeftOf(Split(r.underlays), cache[o].underlays)
  BY <1>1
<1>3. RowOK(r)
  BY <1>1, <1>2, Zenon DEF RowOK
<1>4. QED BY <1>1, <1>3 DEF r

\* Every record has an address.
LEMMA SomeAddress ==
  ASSUME IsCache(cache), Records, NEW o \in DOMAIN cache
  PROVE  /\ cache[o].underlays \in Seq(Addr) /\ cache[o].underlays # <<>>
         /\ Len(cache[o].underlays) \in Nat \ {0} /\ Split(cache[o].underlays) = cache[o].underlays
<1>1. cache[o].underlays \in Seq(Addr)
  BY DEF IsCache, Record
<1>2. cache[o].underlays # <<>>
  <2>1. ToSet(<<>>) = {}
    BY DEF ToSet
  <2>2. ToSet(cache[o].underlays) # {}
    BY DEF Records
  <2>3. QED BY <2>1, <2>2
<1>3. QED BY <1>1, <1>2 DEF Split

\* A row cut short holds the first of the addresses, and perhaps a torn one.
LEMMA CutFact ==
  ASSUME IsCache(cache), Records, NEW o \in DOMAIN cache, NEW r \in CutRows(o)
  PROVE  RowOK(r) /\ r.overlay = o
<1> DEFINE us == cache[o].underlays
           n == Len(us)
<1>1. us \in Seq(Addr) /\ n \in Nat \ {0}
  BY SomeAddress
<1>2. CASE r = Row(o, <<>>, 4)
  BY <1>2, RowFact
<1>3. CASE \E k \in 0..n : r = Row(o, SubSeq(us, 1, k), 5)
  <2>1. PICK k \in 0..n : r = Row(o, SubSeq(us, 1, k), 5)
    BY <1>3
  <2>2. LeftOf(Split(SubSeq(us, 1, k)), us)
    <3>1. CASE k = 0
      <4>1. SubSeq(us, 1, 0) = <<>>
        BY <1>1
      <4>2. Split(SubSeq(us, 1, k)) = Append(SubSeq(us, 1, 0), Torn) /\ 0 \in 0..(n - 1)
        BY <1>1, <3>1, <4>1, TornAlone DEF Split
      <4>3. QED BY <4>2 DEF LeftOf
    <3>2. CASE k \in 1..n
      <4>1. SubSeq(us, 1, k) # <<>> /\ SubSeq(us, 1, n) = us
        BY <1>1, <3>2
      <4>2. Split(SubSeq(us, 1, k)) = SubSeq(us, 1, k)
        BY <4>1 DEF Split
      <4>3. k = n \/ k \in 0..(n - 1)
        BY <1>1, <3>2
      <4>4. QED BY <4>1, <4>2, <4>3 DEF LeftOf
    <3>3. QED BY <1>1, <3>1, <3>2
  <2>3. QED BY <2>1, <2>2, RowFact
<1>4. CASE \E k \in 0..(n - 1) : r = Row(o, Append(SubSeq(us, 1, k), Torn), 5)
  <2>1. PICK k \in 0..(n - 1) : r = Row(o, Append(SubSeq(us, 1, k), Torn), 5)
    BY <1>4
  <2>2. SubSeq(us, 1, k) \in Seq(Addr)
    BY <1>1
  <2>3. Append(SubSeq(us, 1, k), Torn) # <<>>
    BY <2>2, WiderSeq
  <2>4. LeftOf(Split(Append(SubSeq(us, 1, k), Torn)), us)
    BY <2>3 DEF Split, LeftOf
  <2>5. QED BY <2>1, <2>4, RowFact
<1>5. QED BY <1>2, <1>3, <1>4 DEF CutRows

LEMMA CutType ==
  ASSUME IsCache(cache), NEW o \in DOMAIN cache, NEW r \in CutRows(o)
  PROVE  r.underlays \in Seq(Addr \cup {Torn})
<1> DEFINE us == cache[o].underlays
<1>1. us \in Seq(Addr)
  BY DEF IsCache, Record
<1>2. \A k \in 0..Len(us) : SubSeq(us, 1, k) \in Seq(Addr \cup {Torn})
  BY <1>1, WiderSeq
<1>3. \A k \in 0..(Len(us) - 1) : Append(SubSeq(us, 1, k), Torn) \in Seq(Addr \cup {Torn})
  BY <1>1, <1>2
<1>4. <<>> \in Seq(Addr \cup {Torn})
  OBVIOUS
<1>5. PICK cell \in Seq(Addr \cup {Torn}), n \in {4, 5} : r = Row(o, cell, n)
  BY <1>2, <1>3, <1>4 DEF CutRows
<1>6. r.underlays = cell
  BY <1>5, Zenon DEF Row
<1>7. QED BY <1>6

LEMMA WholeType ==
  ASSUME NEW S \in SUBSET (DOMAIN cache)
  PROVE  /\ \A r \in WholeRows(S) : /\ r.overlay \in S /\ r.columns = 5
                                    /\ r.underlays = cache[r.overlay].underlays
         /\ \A r, s \in WholeRows(S) : r.overlay = s.overlay => r = s
         /\ \A o \in S : \E r \in WholeRows(S) : r.overlay = o
<1> DEFINE W(o) == Row(o, cache[o].underlays, 5)
<1>1. \A o \in S : /\ W(o).overlay = o /\ W(o).columns = 5
                   /\ W(o).underlays = cache[o].underlays
  BY Zenon DEF Row
<1>2. WholeRows(S) = {W(o) : o \in S}
  BY DEF WholeRows
<1> HIDE DEF W
<1>3. QED BY <1>1, <1>2

LEMMA WholeFact ==
  ASSUME IsCache(cache), Records, NEW S \in SUBSET (DOMAIN cache)
  PROVE  \A r \in WholeRows(S) : RowOK(r) /\ Intact(r)
<1> DEFINE W(o) == Row(o, cache[o].underlays, 5)
<1>1. ASSUME NEW o \in S PROVE RowOK(W(o)) /\ Intact(W(o))
  <2>1. Split(cache[o].underlays) = cache[o].underlays
    BY SomeAddress
  <2>2. LeftOf(Split(cache[o].underlays), cache[o].underlays)
    BY <2>1 DEF LeftOf
  <2>3. /\ RowOK(W(o)) /\ W(o).overlay = o /\ W(o).columns = 5
        /\ W(o).underlays = cache[o].underlays
    BY <2>2, RowFact
  <2> HIDE DEF W
  <2>4. QED BY <2>1, <2>3 DEF Intact
<1>2. WholeRows(S) = {W(o) : o \in S}
  BY DEF WholeRows
<1> HIDE DEF W
<1>3. QED BY <1>1, <1>2

\* The process writes the rows, or dies in the middle of one.
LEMMA SaveInv == ASSUME Inv, write_cache_csv PROVE Inv'
<1>1. /\ pc = "done" /\ pc' = "saved" /\ frontier' = frontier /\ queued' = queued
      /\ stop' = stop /\ cache' = cache /\ tried' = tried /\ streams' = streams
  BY DEF write_cache_csv, netVars
<1>2. IsCache(cache) /\ Records
  BY DEF Inv, Typed
<1>3. Typed' /\ Known' /\ Records' /\ Remembered' /\ Counted' /\ LoadedFaithful'
  <2>1. ~AtHint' /\ ~Running'
    BY <1>1 DEF AtHint, Running
  <2>2. Typed' /\ Known'
    BY <1>1, <2>1 DEF Inv, Typed, Known, IsCache
  <2>3. Records' /\ Remembered' /\ Counted' /\ LoadedFaithful'
    BY <1>1 DEF Inv, Records, Remembered, Counted, HintsOf, LoadedFaithful
  <2>4. QED BY <2>2, <2>3
<1>4. Rows'
  <2>1. CASE csv' = WholeRows(DOMAIN cache)
    <3>1. /\ \A r \in csv' : RowOK(r) /\ Intact(r)
          /\ \A r, s \in csv' : r.overlay = s.overlay => r = s
          /\ \A o \in DOMAIN cache : \E r \in csv' : r.overlay = o
      BY <1>2, <2>1, WholeFact, WholeType
    <3>2. QED BY <1>1, <3>1 DEF Rows, RowOK, Intact
  <2>2. CASE /\ died' = TRUE
             /\ \E o \in DOMAIN cache, whole \in SUBSET (DOMAIN cache) :
                   /\ o \notin whole
                   /\ \E cut \in CutRows(o) : csv' = WholeRows(whole) \cup {cut}
    <3>1. PICK o \in DOMAIN cache, whole \in SUBSET (DOMAIN cache) :
             /\ o \notin whole
             /\ \E cut \in CutRows(o) : csv' = WholeRows(whole) \cup {cut}
      BY <2>2
    <3>2. PICK cut \in CutRows(o) : csv' = WholeRows(whole) \cup {cut}
      BY <3>1
    <3>3. RowOK(cut) /\ cut.overlay = o
      BY <1>2, CutFact
    <3>4. /\ \A r \in WholeRows(whole) : RowOK(r) /\ Intact(r) /\ r.overlay \in whole
          /\ \A r, s \in WholeRows(whole) : r.overlay = s.overlay => r = s
      BY <1>2, WholeFact, WholeType
    <3>5. \A r \in csv' : RowOK(r)
      BY <3>2, <3>3, <3>4
    <3>6. \A r, s \in csv' : r.overlay = s.overlay => r = s
      BY <3>1, <3>2, <3>3, <3>4
    <3>7. \A r, s \in csv' : ~Intact(r) /\ ~Intact(s) => r = s
      BY <3>2, <3>4
    <3>8. QED BY <1>1, <2>2, <3>5, <3>6, <3>7 DEF Rows, RowOK, Intact
  <2>3. QED BY <2>1, <2>2 DEF write_cache_csv
<1>5. QED BY <1>3, <1>4 DEF Inv

\* Every row is read back as the record it was written from.
LEMMA LoadFact ==
  ASSUME Inv, load_topology
  PROVE  /\ \A o \in DOMAIN loaded' :
               /\ o \in DOMAIN cache /\ loaded'[o].dialed = cache[o].dialed
               /\ loaded'[o].rtt = cache[o].rtt
               /\ LeftOf(loaded'[o].underlays, cache[o].underlays)
               /\ loaded'[o] = [underlays |-> loaded'[o].underlays, rtt |-> loaded'[o].rtt,
                                dialed |-> loaded'[o].dialed]
               /\ \E r \in csv : /\ r.overlay = o /\ r.columns = 5
                                 /\ loaded'[o].underlays = Split(r.underlays)
         /\ ~died => DOMAIN cache \subseteq DOMAIN loaded'
         /\ loaded' = [o \in DOMAIN loaded' |-> loaded'[o]]
<1> DEFINE rows == {r \in csv : r.columns = 5}
           RowOf(o) == CHOOSE r \in rows : r.overlay = o
<1>1. /\ pc = "saved"
      /\ loaded' = [o \in {r.overlay : r \in rows} |->
                       [underlays |-> Split(RowOf(o).underlays),
                        rtt       |-> IF RowOf(o).rtt = <<>> THEN 0 ELSE RowOf(o).rtt[1],
                        dialed    |-> RowOf(o).dialed = "1"]]
  BY DEF load_topology
<1>2. /\ IsCache(cache) /\ \A r \in csv : RowOK(r)
      /\ ~died => /\ \A o \in DOMAIN cache : \E r \in csv : r.overlay = o
                  /\ \A r \in csv : r.columns = 5
  BY <1>1 DEF Inv, Typed, Rows, Intact
<1>3. DOMAIN loaded' = {r.overlay : r \in rows}
  BY <1>1
<1>4. ASSUME NEW o \in DOMAIN loaded'
      PROVE  /\ o \in DOMAIN cache /\ loaded'[o].dialed = cache[o].dialed
             /\ loaded'[o].rtt = cache[o].rtt
             /\ LeftOf(loaded'[o].underlays, cache[o].underlays)
             /\ loaded'[o] = [underlays |-> loaded'[o].underlays, rtt |-> loaded'[o].rtt,
                              dialed |-> loaded'[o].dialed]
             /\ \E x \in csv : /\ x.overlay = o /\ x.columns = 5
                               /\ loaded'[o].underlays = Split(x.underlays)
  <2> DEFINE r == RowOf(o)
  <2>1. r \in csv /\ r.overlay = o /\ r.columns = 5
    BY <1>3
  <2> DEFINE rec == [underlays |-> Split(r.underlays),
                     rtt       |-> IF r.rtt = <<>> THEN 0 ELSE r.rtt[1],
                     dialed    |-> r.dialed = "1"]
  <2>2. loaded'[o] = rec
    BY <1>1, <1>3
  <2> HIDE DEF r
  <2>3. rec.dialed = (r.dialed = "1")
    BY Zenon
  <2>4. rec.underlays = Split(r.underlays) /\ rec.rtt = IF r.rtt = <<>> THEN 0 ELSE r.rtt[1]
    OBVIOUS
  <2>5. rec = [underlays |-> rec.underlays, rtt |-> rec.rtt, dialed |-> rec.dialed]
    <3>1. rec = [underlays |-> Split(r.underlays), rtt |-> IF r.rtt = <<>> THEN 0 ELSE r.rtt[1],
                 dialed |-> r.dialed = "1"]
      OBVIOUS
    <3> HIDE DEF rec
    <3>2. QED BY <2>3, <2>4, <3>1, Zenon
  <2> HIDE DEF rec
  <2>6. /\ o \in DOMAIN cache /\ LeftOf(Split(r.underlays), cache[o].underlays)
        /\ r.dialed = IF cache[o].dialed THEN "1" ELSE "0"
        /\ r.rtt = IF cache[o].rtt = 0 THEN <<>> ELSE <<cache[o].rtt>>
    BY <1>2, <2>1, Zenon DEF RowOK
  <2>7. cache[o].dialed \in BOOLEAN /\ cache[o].rtt \in Nat
    BY <1>2, <2>6 DEF IsCache, Record
  <2>8. loaded'[o].dialed = (r.dialed = "1")
    BY <2>2, <2>3, Zenon
  <2>9. loaded'[o].dialed = cache[o].dialed
    <3>1. CASE cache[o].dialed = TRUE
      BY <2>6, <2>8, <3>1
    <3>2. CASE cache[o].dialed = FALSE
      <4>1. r.dialed = "0" /\ "0" # "1"
        BY <2>6, <3>2
      <4>2. QED BY <2>8, <3>2, <4>1
    <3>3. QED BY <2>7, <3>1, <3>2
  <2>10. loaded'[o].rtt = cache[o].rtt
    <3>1. loaded'[o].rtt = IF r.rtt = <<>> THEN 0 ELSE r.rtt[1]
      BY <2>2, <2>4
    <3>2. CASE cache[o].rtt = 0
      BY <2>6, <3>1, <3>2
    <3>3. CASE cache[o].rtt # 0
      <4>1. r.rtt = <<cache[o].rtt>> /\ r.rtt # <<>> /\ r.rtt[1] = cache[o].rtt
        BY <2>6, <3>3
      <4>2. QED BY <3>1, <4>1
    <3>4. QED BY <3>2, <3>3
  <2>11. loaded'[o].underlays = Split(r.underlays)
    BY <2>2, <2>4
  <2>12. QED BY <2>1, <2>2, <2>5, <2>6, <2>9, <2>10, <2>11, Zenon
<1>5. ~died => DOMAIN cache \subseteq DOMAIN loaded'
  <2>1. ~died => \A o \in DOMAIN cache : \E r \in rows : r.overlay = o
    BY <1>2
  <2>2. QED BY <1>3, <2>1
<1>6. loaded' = [o \in DOMAIN loaded' |-> loaded'[o]]
  BY <1>1
<1>7. QED BY <1>4, <1>5, <1>6

LEMMA LoadInv == ASSUME Inv, load_topology PROVE Inv'
<1>1. /\ pc = "saved" /\ pc' = "loaded" /\ frontier' = frontier /\ queued' = queued
      /\ stop' = stop /\ cache' = cache /\ tried' = tried /\ streams' = streams
      /\ died' = died /\ csv' = csv
  BY DEF load_topology, netVars
<1>2. Typed' /\ Known' /\ Records' /\ Remembered' /\ Counted' /\ Rows'
  <2>1. ~AtHint' /\ ~Running'
    BY <1>1 DEF AtHint, Running
  <2>2. Typed' /\ Known'
    BY <1>1, <2>1 DEF Inv, Typed, Known, IsCache
  <2>3. Records' /\ Remembered' /\ Counted' /\ Rows'
    BY <1>1 DEF Inv, Records, Remembered, Counted, HintsOf, Rows
  <2>4. QED BY <2>2, <2>3
<1>3. IsCache(cache)
  BY DEF Inv, Typed
<1>4. ASSUME NEW o \in DOMAIN loaded', loaded'[o] # cache[o]
      PROVE  \E r \in csv : r.overlay = o /\ ~Intact(r)
  <2>1. /\ o \in DOMAIN cache /\ loaded'[o].rtt = cache[o].rtt /\ loaded'[o].dialed = cache[o].dialed
        /\ loaded'[o] = [underlays |-> loaded'[o].underlays, rtt |-> loaded'[o].rtt,
                         dialed |-> loaded'[o].dialed]
    BY LoadFact, Zenon
  <2>2. PICK r \in csv : r.overlay = o /\ loaded'[o].underlays = Split(r.underlays)
    BY LoadFact, Zenon
  <2>3. cache[o] = [underlays |-> cache[o].underlays, rtt |-> cache[o].rtt,
                    dialed |-> cache[o].dialed]
    BY <1>3, <2>1 DEF IsCache, Record
  <2>4. loaded'[o].underlays # cache[o].underlays
    BY <1>4, <2>1, <2>3, Zenon
  <2>5. QED BY <2>2, <2>4 DEF Intact
<1>5. ASSUME ~died PROVE loaded' = cache
  <2>1. DOMAIN cache = DOMAIN loaded'
    BY <1>5, LoadFact
  <2>2. \A r \in csv : Intact(r)
    BY <1>1, <1>5 DEF Inv, Rows
  <2>3. \A o \in DOMAIN cache : loaded'[o] = cache[o]
    BY <1>4, <2>1, <2>2
  <2>4. loaded' = [o \in DOMAIN loaded' |-> loaded'[o]]
    BY LoadFact
  <2>5. cache = [o \in DOMAIN cache |-> cache[o]]
    BY <1>3 DEF IsCache
  <2>6. QED BY <2>1, <2>3, <2>4, <2>5
<1>6. ASSUME NEW o \in DOMAIN loaded', NEW e \in DOMAIN loaded',
             loaded'[o] # cache[o], loaded'[e] # cache[e]
      PROVE  o = e
  <2>1. \A r, s \in csv : ~Intact(r) /\ ~Intact(s) => r = s
    BY <1>1 DEF Inv, Rows
  <2>2. QED BY <1>4, <1>6, <2>1
<1>7. LoadedFaithful'
  <2>1. SUFFICES /\ ~died => loaded' = cache
                 /\ \A o \in DOMAIN loaded' :
                       /\ o \in DOMAIN cache
                       /\ loaded'[o].dialed = cache[o].dialed /\ loaded'[o].rtt = cache[o].rtt
                       /\ LeftOf(loaded'[o].underlays, cache[o].underlays)
                 /\ \A o, e \in DOMAIN loaded' :
                       (loaded'[o] # cache[o] /\ loaded'[e] # cache[e]) => o = e
    <3>1. cache' = cache /\ died' = died
      BY <1>1
    <3>2. QED BY <3>1, Zenon DEF LoadedFaithful, LeftOf
  <2>2. QED BY <1>5, <1>6, LoadFact, Zenon
<1>8. QED BY <1>2, <1>7 DEF Inv

-----------------------------------------------------------------------------
(* The theorems.                                                           *)

LEMMA InvNext == Inv /\ [Next]_vars => Inv'
<1> SUFFICES ASSUME Inv, [Next]_vars PROVE Inv'
  OBVIOUS
<1>1. CASE Loop \/ Handshake
  <2>1. CASE Drained
    BY <2>1, DrainedInv
  <2>2. CASE Capped
    BY <2>2, CappedInv
  <2>3. CASE Dial
    BY <2>3, DialInv
  <2>4. CASE Waits \/ SendDial \/ SendDisconnect
    BY <2>4, LoopInv
  <2>5. CASE HandshakeOk
    BY <2>5, HandshakeOkInv
  <2>6. CASE \E b \in DOMAIN Batches : Harvest(b)
    BY <2>6, HarvestInv
  <2>7. QED BY <1>1, <2>1, <2>2, <2>3, <2>4, <2>5, <2>6 DEF Loop, Handshake, Waits
<1>2. CASE Running /\ Network
  BY <1>2, NetworkInv
<1>3. CASE write_cache_csv
  BY <1>3, SaveInv
<1>4. CASE load_topology
  BY <1>4, LoadInv
<1>5. CASE Ended \/ UNCHANGED vars
  <2>1. UNCHANGED vars
    BY <1>5 DEF Ended
  <2>2. UNCHANGED <<crawlVars, streams, fileVars, tried>>
    BY <2>1 DEF vars, netVars
  <2>3. UNCHANGED <<pc, frontier, queued, hint, stop, cache, streams, csv, died, loaded, tried>>
    BY <2>2 DEF crawlVars, fileVars
  <2>4. Typed' /\ Known'
    BY <2>3 DEF Inv, Typed, Known, IsCache, AtHint, Running
  <2>5. Records' /\ Remembered' /\ Counted'
    BY <2>3 DEF Inv, Records, Remembered, Counted, HintsOf
  <2>6. Rows' /\ LoadedFaithful'
    BY <2>3 DEF Inv, Rows, RowOK, Intact, LoadedFaithful
  <2>7. QED BY <2>4, <2>5, <2>6 DEF Inv
<1>6. QED BY <1>1, <1>2, <1>3, <1>4, <1>5 DEF Next

LEMMA InvAlways == Spec => []Inv
<1>1. QED BY InvInit, InvNext, PTL DEF Spec

-----------------------------------------------------------------------------
(* Types and statistics.                                                   *)

\* A handshake is counted once per attempt: until it ends, the attempt is
\* ahead of it.
Stats ==
    /\ pc \in {"pop", "send", "wait", "shake", "harvest", "bye", "done", "saved", "loaded"}
    /\ hint \in HintType /\ connected \in BOOLEAN
    /\ attempted \in Nat /\ attempted <= MaxDials
    /\ ok \in Nat /\ ok <= attempted /\ seen \in Nat
    /\ pc \in {"send", "wait", "shake"} => ok < attempted
    /\ stop \in {"", "frontier_drained", "wall_cap", "max_dials"}

Cmd == [do : {"dial", "disconnect"}, addr : Addr]

\* Only addresses are dialed, and only connected peers wait to be identified.
Wired ==
    /\ cmds \in Seq(Cmd) /\ dialing \subseteq Addr
    /\ up \subseteq Peers /\ unidentified \subseteq up /\ sent \subseteq DOMAIN Batches

\* The cache has its type, and what a run loads has it.
Filed ==
    /\ CacheType(cache, Addr) /\ CacheType(loaded, Addr \cup {Torn}) /\ died \in BOOLEAN
    /\ \A r \in csv : r.underlays \in Seq(Addr \cup {Torn})

TypeInv == Inv /\ Stats /\ Wired /\ Filed

LEMMA HintTypes == NoHint \in HintType /\ \A h \in Hint : h \in HintType
  BY CrawlerAssumption DEF NoHint, HintType, Hint

LEMMA StatsNext == ASSUME Inv, Stats, Next PROVE Stats'
<1>1. /\ MaxDials \in Nat /\ attempted \in Nat /\ ok \in Nat /\ seen \in Nat
      /\ ok <= attempted /\ attempted <= MaxDials
      /\ pc \in {"send", "wait", "shake"} => ok < attempted
  BY CrawlerAssumption DEF Stats
<1>2. CASE Drained \/ Capped
  BY <1>2, HintTypes DEF Stats, Drained, Capped
<1>3. CASE Dial
  <2>1. Head(frontier) \in HintType
    BY <1>3, TailFact, HintTypes DEF Inv, Typed, Dial
  <2>2. /\ attempted < MaxDials /\ attempted' = attempted + 1 /\ hint' = Head(frontier)
        /\ connected' = FALSE /\ pc' = "send" /\ UNCHANGED <<ok, seen, stop>>
    BY <1>3 DEF Dial
  <2>3. /\ attempted' \in Nat /\ attempted' <= MaxDials
        /\ ok' \in Nat /\ ok' <= attempted' /\ ok' < attempted'
    BY <1>1, <2>2
  <2>4. QED BY <2>1, <2>2, <2>3 DEF Stats
<1>4. CASE AwaitEvent
  <2>1. connected' \in BOOLEAN
    BY <1>4, Zenon DEF AwaitEvent, Stats
  <2>2. pc = "wait" /\ pc' \in {"shake", "bye", "wait"}
        /\ UNCHANGED <<hint, attempted, ok, seen, stop>>
    BY <1>4 DEF AwaitEvent
  <2>3. QED BY <2>1, <2>2 DEF Stats
<1>5. CASE DialTimeout \/ HandshakeFailed \/ HarvestOver \/ SendDial \/ SendDisconnect
  BY <1>5 DEF Stats, DialTimeout, HandshakeFailed, HarvestOver, SendDial, SendDisconnect
<1>6. CASE HandshakeOk
  <2>1. /\ pc = "shake" /\ pc' = "harvest" /\ ok' = ok + 1
        /\ UNCHANGED <<hint, connected, attempted, seen, stop>>
    BY <1>6 DEF HandshakeOk
  <2>2. ok' \in Nat /\ ok' <= attempted
    BY <1>1, <2>1
  <2>3. QED BY <2>1, <2>2 DEF Stats
<1>7. CASE \E b \in DOMAIN Batches : Harvest(b)
  <2>1. seen' = seen + 1 /\ UNCHANGED <<pc, hint, connected, attempted, ok, stop>>
    BY <1>7 DEF Harvest
  <2>2. seen' \in Nat
    BY <1>1, <2>1
  <2>3. QED BY <2>1, <2>2 DEF Stats
<1>8. CASE Network
  <2>1. UNCHANGED crawlVars
    BY <1>8 DEF Network, Command, Connects, DialFails, Identifies, Gossips
  <2>2. QED BY <2>1 DEF crawlVars, Stats
<1>9. CASE write_cache_csv \/ load_topology
  BY <1>9 DEF Stats, write_cache_csv, load_topology
<1>10. CASE Ended
  <2>1. UNCHANGED crawlVars
    BY <1>10 DEF Ended, vars
  <2>2. QED BY <2>1 DEF crawlVars, Stats
<1>11. QED BY <1>2, <1>3, <1>4, <1>5, <1>6, <1>7, <1>8, <1>9, <1>10
      DEF Next, Loop, Handshake

\* Every command carries an address: the first of a hint, or the peer's own.
LEMMA CommandType ==
  ASSUME Inv, cmds \in Seq(Cmd)
  PROVE  /\ AtHint => HangUp \in Seq(Cmd)
         /\ SendDial => cmds' \in Seq(Cmd)
<1>1. ASSUME AtHint PROVE HangUp \in Seq(Cmd)
  <2>1. hint.peer \in Peers
    BY <1>1 DEF Inv, Typed, Hint
  <2>2. [do |-> "disconnect", addr |-> [id |-> hint.peer, at |-> hint.peer]] \in Cmd
    BY <2>1 DEF Cmd, Addr
  <2>3. QED BY <2>2 DEF HangUp
<1>2. ASSUME SendDial PROVE cmds' \in Seq(Cmd)
  <2>1. hint \in Hint /\ cmds' = Append(cmds, [do |-> "dial", addr |-> Head(hint.underlays)])
    BY <1>2 DEF Inv, Typed, AtHint, SendDial
  <2>2. hint.underlays \in Seq(Addr) /\ \E u \in ToSet(hint.underlays) : u.id = hint.peer
    BY <2>1 DEF Hint
  <2>3. DOMAIN hint.underlays # {}
    BY <2>2 DEF ToSet
  <2>4. Head(hint.underlays) \in Addr
    BY <2>2, <2>3
  <2>5. [do |-> "dial", addr |-> Head(hint.underlays)] \in Cmd
    BY <2>4 DEF Cmd
  <2>6. QED BY <2>1, <2>5
<1>3. QED BY <1>1, <1>2

LEMMA WiredNext == ASSUME Inv, Wired, Next PROVE Wired'
<1>1. CASE Drained \/ Capped
  <2>1. cmds' = <<>> /\ dialing' = {} /\ up' = {} /\ unidentified' = {} /\ sent' = sent
    BY <1>1 DEF Drained, Capped, Dropped
  <2>2. QED BY <2>1 DEF Wired
<1>2. CASE SendDial \/ SendDisconnect
  <2>1. AtHint /\ (SendDial \/ cmds' = HangUp) /\ UNCHANGED <<dialing, up, unidentified, sent>>
    BY <1>2 DEF SendDial, SendDisconnect, AtHint
  <2>2. cmds' \in Seq(Cmd)
    BY <2>1, CommandType DEF Wired
  <2>3. QED BY <2>1, <2>2 DEF Wired
<1>3. CASE Dial \/ Waits
  <2>1. UNCHANGED <<cmds, dialing, up, unidentified, sent>>
    BY <1>3 DEF Dial, Waits, AwaitEvent, DialTimeout, HandshakeFailed, HarvestOver, netVars
  <2>2. QED BY <2>1 DEF Wired
<1>4. CASE HandshakeOk \/ write_cache_csv \/ load_topology \/ Ended
  <2>1. UNCHANGED netVars
    BY <1>4 DEF HandshakeOk, write_cache_csv, load_topology, Ended, vars
  <2>2. QED BY <2>1 DEF Wired, netVars
<1>5. CASE \E b \in DOMAIN Batches : Harvest(b)
  BY <1>5 DEF Wired, Harvest
<1>6. CASE Network
  <2>1. CASE Command
    <3> DEFINE c == Head(cmds)
    <3>1. cmds # <<>> /\ c \in Cmd /\ cmds' = Tail(cmds) /\ Tail(cmds) \in Seq(Cmd) /\ sent' = sent
      BY <2>1 DEF Wired, Command
    <3>2. c.addr \in Addr
      BY <3>1 DEF Cmd
    <3>3. \/ dialing' = dialing \cup {c.addr} /\ UNCHANGED <<up, unidentified>>
          \/ /\ dialing' \subseteq dialing /\ up' = up \ {c.addr.id}
             /\ unidentified' = unidentified \ {c.addr.id}
      BY <2>1 DEF Command
    <3>4. QED BY <3>1, <3>2, <3>3 DEF Wired
  <2>2. CASE \E a \in dialing : Connects(a) \/ DialFails(a)
    <3>1. PICK a \in dialing : Connects(a) \/ DialFails(a)
      BY <2>2
    <3>2. a.at \in Peers
      BY DEF Wired, Addr
    <3>3. QED BY <3>1, <3>2 DEF Wired, Connects, DialFails
  <2>3. CASE \E p \in Peers : Identifies(p)
    BY <2>3 DEF Wired, Identifies
  <2>4. CASE \E b \in DOMAIN Batches : Gossips(b)
    BY <2>4 DEF Wired, Gossips
  <2>5. QED BY <1>6, <2>1, <2>2, <2>3, <2>4 DEF Network
<1>7. QED BY <1>1, <1>2, <1>3, <1>4, <1>5, <1>6 DEF Next, Loop, Handshake, Waits

LEMMA UpsertType ==
  ASSUME IsCache(cache), CacheType(cache, Addr), NEW o \in Address,
         NEW rec \in [underlays : Seq(Addr), rtt : {0} \cup Rtts, dialed : BOOLEAN],
         cache' = upsert(cache, o, rec)
  PROVE  CacheType(cache', Addr)
<1> DEFINE d == cache'
<1>1. rec \in Record /\ rec.rtt \in {0} \cup Rtts
  <2>1. {0} \cup Rtts \subseteq Nat
    BY CrawlerAssumption
  <2>2. QED BY <2>1 DEF Record
<1>2. Gains(cache, upsert(cache, o, rec), o, rec)
  BY <1>1, UpsertFact
<1>3. Gains(cache, d, o, rec)
  BY <1>2
<1> HIDE DEF d
<1>4. /\ IsCache(d) /\ DOMAIN d = DOMAIN cache \cup {o}
      /\ \A x \in DOMAIN cache : x # o => d[x].rtt = cache[x].rtt
      /\ o \notin DOMAIN cache => d[o].rtt = rec.rtt
      /\ o \in DOMAIN cache => d[o].rtt = IF rec.rtt # 0 THEN rec.rtt ELSE cache[o].rtt
  BY <1>3, Zenon DEF Gains
<1>5. DOMAIN cache \subseteq Address /\ \A x \in DOMAIN cache : cache[x].rtt \in {0} \cup Rtts
  BY DEF CacheType
<1>6. ASSUME NEW x \in DOMAIN d
      PROVE  d[x] \in [underlays : Seq(Addr), rtt : {0} \cup Rtts, dialed : BOOLEAN]
  <2>1. d[x].rtt \in {0} \cup Rtts
    BY <1>1, <1>4, <1>5
  <2>2. d[x] \in Record
    BY <1>4 DEF IsCache
  <2>3. QED BY <2>1, <2>2 DEF Record
<1>7. DOMAIN d \subseteq Address
  BY <1>4, <1>5
<1>8. CacheType(d, Addr)
  BY <1>6, <1>7 DEF CacheType
<1>9. QED BY <1>8 DEF d

LEMMA FiledNext == ASSUME Inv, Wired, Filed, Next PROVE Filed'
<1>1. IsCache(cache) /\ CacheType(cache, Addr)
  BY DEF Inv, Typed, Filed
<1>2. CASE HandshakeOk
  <2>1. PICK rtt \in Rtts :
           cache' = upsert(cache, OverlayOf[hint.peer],
                           [underlays |-> hint.underlays, rtt |-> rtt, dialed |-> TRUE])
    BY <1>2 DEF HandshakeOk
  <2>2. hint \in Hint /\ UNCHANGED <<csv, died, loaded>>
    BY <1>2 DEF HandshakeOk, Inv, Typed, AtHint, fileVars
  <2>3. OverlayOf[hint.peer] \in Address /\ hint.underlays \in Seq(Addr)
    BY <2>2, CrawlerAssumption DEF Hint
  <2>4. [underlays |-> hint.underlays, rtt |-> rtt, dialed |-> TRUE]
            \in [underlays : Seq(Addr), rtt : {0} \cup Rtts, dialed : BOOLEAN]
    BY <2>3
  <2>5. CacheType(cache', Addr)
    BY <1>1, <2>1, <2>3, <2>4, UpsertType
  <2>6. QED BY <2>2, <2>5 DEF Filed, CacheType
<1>3. CASE \E b \in DOMAIN Batches : Harvest(b)
  <2>1. PICK b \in DOMAIN Batches : Harvest(b)
    BY <1>3
  <2> DEFINE h == Head(streams[b])
  <2>2. /\ streams[b] # <<>> /\ UNCHANGED <<csv, died, loaded>>
        /\ cache' = upsert(cache, h.overlay,
                           [underlays |-> h.underlays, rtt |-> 0, dialed |-> FALSE])
    BY <2>1 DEF Harvest, fileVars
  <2>3. h \in Hint
    BY <2>2, TailFact DEF Inv, Typed
  <2> HIDE DEF h
  <2>4. h.overlay \in Address /\ h.underlays \in Seq(Addr)
    BY <2>3 DEF Hint
  <2>5. [underlays |-> h.underlays, rtt |-> 0, dialed |-> FALSE]
            \in [underlays : Seq(Addr), rtt : {0} \cup Rtts, dialed : BOOLEAN]
    BY <2>4
  <2>6. CacheType(cache', Addr)
    BY <1>1, <2>2, <2>4, <2>5, UpsertType
  <2>7. QED BY <2>2, <2>6 DEF Filed, CacheType
<1>4. CASE write_cache_csv
  <2>1. UNCHANGED <<cache, loaded>> /\ died' \in BOOLEAN
    BY <1>4 DEF write_cache_csv
  <2>2. \A o \in DOMAIN cache : cache[o].underlays \in Seq(Addr)
    BY <1>1 DEF CacheType
  <2>3. ASSUME NEW o \in DOMAIN cache, NEW r \in CutRows(o)
        PROVE  r.underlays \in Seq(Addr \cup {Torn})
    BY <1>1, <2>3, CutType DEF IsCache
  <2>4. ASSUME NEW S \in SUBSET (DOMAIN cache), NEW r \in WholeRows(S)
        PROVE  r.underlays \in Seq(Addr \cup {Torn})
    <3>1. r.underlays = cache[r.overlay].underlays /\ r.overlay \in S
      BY <2>4, WholeType
    <3>2. QED BY <2>2, <3>1, WiderSeq
  <2>5. \A r \in csv' : r.underlays \in Seq(Addr \cup {Torn})
    <3>1. CASE csv' = WholeRows(DOMAIN cache)
      BY <2>4, <3>1
    <3>2. CASE \E o \in DOMAIN cache, whole \in SUBSET (DOMAIN cache) :
                  \E cut \in CutRows(o) : csv' = WholeRows(whole) \cup {cut}
      BY <2>3, <2>4, <3>2
    <3>3. QED BY <1>4, <3>1, <3>2 DEF write_cache_csv
  <2>6. QED BY <2>1, <2>5 DEF Filed, CacheType
<1>5. CASE load_topology
  <2>1. UNCHANGED <<cache, csv, died>>
    BY <1>5 DEF load_topology
  <2>2. ASSUME NEW o \in DOMAIN loaded'
        PROVE  /\ o \in Address
               /\ loaded'[o] \in [underlays : Seq(Addr \cup {Torn}), rtt : {0} \cup Rtts,
                                   dialed : BOOLEAN]
    <3>1. /\ o \in DOMAIN cache /\ loaded'[o].dialed = cache[o].dialed
          /\ loaded'[o].rtt = cache[o].rtt
          /\ loaded'[o] = [underlays |-> loaded'[o].underlays, rtt |-> loaded'[o].rtt,
                           dialed |-> loaded'[o].dialed]
          /\ \E r \in csv : loaded'[o].underlays = Split(r.underlays)
      BY <1>5, <2>2, LoadFact, Zenon
    <3>2. /\ o \in Address /\ cache[o].dialed \in BOOLEAN /\ cache[o].rtt \in {0} \cup Rtts
      BY <1>1, <3>1 DEF CacheType
    <3>3. PICK r \in csv : loaded'[o].underlays = Split(r.underlays)
      BY <3>1
    <3>4. r.underlays \in Seq(Addr \cup {Torn}) /\ <<Torn>> \in Seq(Addr \cup {Torn})
      BY DEF Filed
    <3>5. loaded'[o].underlays \in Seq(Addr \cup {Torn})
      BY <3>3, <3>4 DEF Split
    <3>6. QED BY <3>1, <3>2, <3>5
  <2>3. CacheType(loaded', Addr \cup {Torn})
    BY <2>2 DEF CacheType
  <2>4. QED BY <2>1, <2>3 DEF Filed, CacheType
<1>6. CASE UNCHANGED <<cache, fileVars>>
  BY <1>6 DEF Filed, CacheType, fileVars
<1>7. CASE Ended
  <2>1. UNCHANGED <<crawlVars, fileVars>>
    BY <1>7 DEF Ended, vars
  <2>2. QED BY <1>6, <2>1 DEF crawlVars
<1>8. CASE Network
  <2>1. UNCHANGED <<crawlVars, fileVars>>
    BY <1>8 DEF Network, Command, Connects, DialFails, Identifies, Gossips
  <2>2. QED BY <1>6, <2>1 DEF crawlVars
<1>9. CASE Drained \/ Capped \/ Dial \/ SendDial \/ SendDisconnect \/ Waits
  <2>1. UNCHANGED <<cache, fileVars>>
    BY <1>9 DEF Drained, Capped, Dial, SendDial, SendDisconnect, Waits, AwaitEvent, DialTimeout,
                HandshakeFailed, HarvestOver
  <2>2. QED BY <1>6, <2>1
<1>10. QED BY <1>2, <1>3, <1>4, <1>5, <1>7, <1>8, <1>9
      DEF Next, Loop, Handshake, Waits

LEMMA TypeInvAlways == Spec => []TypeInv
<1>1. Init => TypeInv
  <2>1. SUFFICES ASSUME Init PROVE Stats /\ Wired /\ Filed
    BY InvInit DEF TypeInv
  <2>2. /\ pc = "pop" /\ hint = NoHint /\ connected = FALSE /\ stop = ""
        /\ attempted = 0 /\ ok = 0 /\ seen = 0
    BY <2>1 DEF Init
  <2>3. /\ cmds = <<>> /\ dialing = {} /\ up = {} /\ unidentified = {} /\ sent = {}
        /\ cache = <<>> /\ loaded = <<>> /\ csv = {} /\ died = FALSE
    BY <2>1 DEF Init
  <2>4. Stats
    <3>1. /\ attempted \in Nat /\ ok \in Nat /\ seen \in Nat
          /\ attempted <= MaxDials /\ ok <= attempted
      <4>1. MaxDials \in Nat
        BY CrawlerAssumption
      <4>2. attempted = 0 /\ ok = 0 /\ seen = 0
        BY <2>2
      <4>3. QED BY <4>1, <4>2
    <3>2. QED BY <2>2, <3>1, HintTypes DEF Stats
  <2>5. Wired
    BY <2>3 DEF Wired
  <2>6. Filed
    <3>1. DOMAIN cache = {} /\ DOMAIN loaded = {}
      BY <2>3
    <3>2. QED BY <2>3, <3>1 DEF Filed, CacheType
  <2>7. QED BY <2>4, <2>5, <2>6
<1>2. TypeInv /\ [Next]_vars => TypeInv'
  <2>1. SUFFICES ASSUME TypeInv, [Next]_vars PROVE Stats' /\ Wired' /\ Filed'
    BY InvNext DEF TypeInv
  <2>2. CASE Next
    BY <2>1, <2>2, StatsNext, WiredNext, FiledNext DEF TypeInv
  <2>3. CASE UNCHANGED vars
    <3>1. UNCHANGED <<crawlVars, netVars, fileVars>>
      BY <2>3 DEF vars
    <3>2. Stats' /\ Wired'
      BY <2>1, <3>1 DEF TypeInv, Stats, Wired, crawlVars, netVars
    <3>3. Filed'
      BY <2>1, <3>1 DEF TypeInv, Filed, CacheType, crawlVars, fileVars
    <3>4. QED BY <3>2, <3>3
  <2>4. QED BY <2>1, <2>2, <2>3
<1>3. QED BY <1>1, <1>2, PTL DEF Spec

\* Every variable has its type for any peers and gossip, and the statistics
\* of a crawl never contradict each other: no more handshakes than attempts,
\* and no more attempts than the cap (CrawlStats in crawl.rs).
THEOREM TypeCorrect == Spec => []TypeOK
<1>1. TypeInv => TypeOK
  <2>1. SUFFICES ASSUME TypeInv PROVE TypeOK
    OBVIOUS
  <2>2. Typed /\ Stats /\ Wired /\ Filed
    BY <2>1 DEF TypeInv, Inv
  <2>3. \A s \in Seq(Hint) : s \in Seq(HintType)
    BY HintTypes
  <2>4. frontier \in Seq(HintType) /\ \A b \in DOMAIN streams : streams[b] \in Seq(HintType)
    BY <2>2, <2>3 DEF Typed
  <2>5. attempted \in 0..MaxDials /\ ok \in 0..attempted /\ seen \in Nat
    <3>1. /\ MaxDials \in Nat /\ attempted \in Nat /\ ok \in Nat /\ seen \in Nat
          /\ ok <= attempted /\ attempted <= MaxDials
      BY <2>2, CrawlerAssumption DEF Stats
    <3>2. QED BY <3>1
  <2>6. QED BY <2>2, <2>4, <2>5 DEF TypeOK, Typed, Stats, Wired, Filed
<1>2. QED BY <1>1, TypeInvAlways, PTL

\* Whatever overlays and addresses gossip claims, in whatever order dials,
\* events and hints arrive, a record marked dialed holds an address of a peer
\* that proved its overlay, and is preferred to every record only heard of
\* (crawl.rs after the handshake; topology.rs upsert and storers_for).
THEOREM DialedAlwaysReliable == Spec => []DialedReliable
<1>1. Inv => DialedReliable
  <2>1. SUFFICES ASSUME Inv, NEW o \in DOMAIN cache, cache[o].dialed
                 PROVE  /\ \E u \in ToSet(cache[o].underlays) : NamesPeer(u) /\ OverlayOf[u.id] = o
                        /\ \A b \in DOMAIN cache : cache[b].dialed \/ SortsBefore(cache, o, b)
    BY DEF DialedReliable
  <2>2. /\ IsCache(cache) /\ Records /\ cache[o] \in Record
    BY <2>1 DEF Inv, Typed, IsCache
  <2>3. PICK u \in ToSet(cache[o].underlays) : u.id \in Peers /\ OverlayOf[u.id] = o
    BY <2>1, <2>2 DEF Records
  <2>4. NamesPeer(u)
    BY <2>3, CrawlerAssumption DEF NamesPeer
  <2>5. \A b \in DOMAIN cache : cache[b].dialed \/ SortsBefore(cache, o, b)
    BY <2>1, <2>2 DEF Records, SortsBefore
  <2>6. QED BY <2>3, <2>4, <2>5
<1>2. QED BY <1>1, InvAlways, PTL

\* A crawl that reports its frontier drained has dialed a peer of every record
\* of its cache, and until a cap stops it every queued peer was dialed or
\* still waits (the dedup set, the frontier and the cache of crawl.rs).
THEOREM DrainedTried == Spec => []DrainedMeansTried
<1>1. Inv => DrainedMeansTried
  <2>1. SUFFICES ASSUME Inv PROVE DrainedMeansTried
    OBVIOUS
  <2>2. Records /\ Remembered
    BY <2>1 DEF Inv
  <2>3. ASSUME stop = "frontier_drained", NEW o \in DOMAIN cache
        PROVE  \E u \in ToSet(cache[o].underlays) : NamesPeer(u) /\ tried[u.id] > 0
    <3>1. PICK u \in ToSet(cache[o].underlays) : u.id \in queued
      BY <2>2 DEF Records
    <3>2. ToSet(frontier) = {}
      BY <2>2, <2>3 DEF Remembered, ToSet
    <3>3. tried[u.id] > 0
      BY <2>2, <2>3, <3>1, <3>2 DEF Remembered
    <3>4. u.id # Nobody
      BY <2>1, <3>1, CrawlerAssumption DEF Inv, Typed
    <3>5. QED BY <3>3, <3>4 DEF NamesPeer
  <2>4. QED BY <2>2, <2>3 DEF DrainedMeansTried, Remembered
<1>2. QED BY <1>1, InvAlways, PTL

\* However often, in whatever order and in whoever's window a peer is
\* gossiped, it is dialed at most once, or once per seed that names it
\* (crawl.rs: the queued set is consulted before a hint joins the frontier).
THEOREM DialedOnce == Spec => []OncePerPeer
<1>1. Inv => OncePerPeer
  <2>1. SUFFICES ASSUME Inv, NEW p \in Peers PROVE tried[p] <= MostDials(p)
    BY DEF OncePerPeer, MostDials
  <2>2. /\ tried[p] \in Nat /\ frontier \in Seq(Hint)
        /\ tried[p] + Cardinality(HintsOf(frontier, p)) <= MostDials(p)
    BY <2>1 DEF Inv, Typed, Counted
  <2>3. HintsOf(frontier, p) \in SUBSET (DOMAIN frontier)
    BY DEF HintsOf
  <2>4. Cardinality(HintsOf(frontier, p)) \in Nat
    BY <2>2, <2>3, SomeFinite
  <2>5. MostDials(p) \in Nat
    BY MostDialsType
  <2>6. QED BY <2>2, <2>4, <2>5
<1>2. QED BY <1>1, InvAlways, PTL

\* What the direct fetch loads is the crawl's cache or, when the process died
\* while it wrote the file, a part of it in which no gossiped node became a
\* dialed one, no round trip changed, and at most one record lost addresses or
\* has a torn one (write_cache_csv and load_topology).
THEOREM LoadedAsFound == Spec => []LoadedFaithful
<1>1. Inv => LoadedFaithful
  BY DEF Inv
<1>2. QED BY <1>1, InvAlways, PTL
=============================================================================
