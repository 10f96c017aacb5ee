-------------------------- MODULE PeerStateProofs ---------------------------
(***************************************************************************)
(* Proofs for PeerState, for any finite set of storers and any number of   *)
(* connections, lives and failing saves: as long as no two saves met, the  *)
(* file forgets nothing that was learned, and as long as no save failed    *)
(* either, the program never believes in credit its storer does not hold,  *)
(* and the storer holds no more than the two amounts the model names.      *)
(***************************************************************************)
EXTENDS PeerState, FiniteSetTheorems, TLAPS

-----------------------------------------------------------------------------
(* The invariant of undisturbed saves.                                     *)

Table == [Peer -> Entry]

PacerType ==
    prepaid \in [Peer -> Nat] /\ debt \in [Peer -> Nat] /\ settled \in [Peer -> Nat]

BooksType ==
    held \in [Peer -> Int] /\ ahead \in [Peer -> Nat] /\ uncounted \in [Peer -> Nat]

Live == {"build", "probe", "open"}

\* What a connection does between its start and its close.
Works(p) == \/ Consume(p) \/ emit(p) \/ emit_prepay(p) \/ DeliveredOnly(p)
            \/ refresh(p) \/ Probe(p) \/ Measured(p)

Typed ==
    /\ up \in BOOLEAN /\ prepay \in BOOLEAN /\ failed \in BOOLEAN
    /\ at \in [Peer -> Stages]
    /\ map \in Table /\ snap \in [Peer -> Table] /\ content \in [Inode -> Table]
    /\ PacerType /\ BooksType
    /\ path \in Inode \cup {NoFile} /\ tmp \in Inode \cup {NoFile}

\* Only a running process has connections, and one of them saves at most.
Alone ==
    /\ ~up => \A p \in Peer : at[p] = "closed"
    /\ \A p, q \in Peer : Saving(p) /\ Saving(q) => p = q

\* The save owns the temporary name, which is never the file's.
Owned ==
    /\ fd \in [Peer -> Inode \cup {NoFile}]
    /\ \A p \in Peer : fd[p] # NoFile <=> at[p] \in {"write", "rename"}
    /\ \A p \in Peer : at[p] \in {"write", "rename"} => fd[p] = tmp
    /\ tmp = NoFile \/ tmp # path
    /\ mixed = {}

\* A save carries the map as it is, and before its rename has written it.
Current ==
    \A p \in Peer :
        /\ Saving(p) => snap[p] = map
        /\ at[p] = "rename" => content[tmp] = snap[p]

Learned(a, b) ==
    \A p \in Peer :
        /\ a[p].threshold <= b[p].threshold
        /\ a[p].lambda # 0 => b[p].lambda # 0
        /\ a[p].settled <= b[p].settled

\* The map has learned all the file knows.
Behind == up => Learned(Disk, map)

Saves == Typed /\ Alone /\ Owned /\ Current /\ Behind

-----------------------------------------------------------------------------
(* Facts about the operators.                                              *)

LEMMA UnknownEntry == Unknown \in Entry /\ Empty \in Table
  BY DEF Unknown, Entry, Empty, Table

LEMMA TwoInodes == 1 \in Inode /\ 2 \in Inode /\ NoFile \notin Inode
<1>1. Cardinality(Peer) \in Nat
  BY PeerStateAssumption, FS_CardinalityType
<1>2. QED BY <1>1 DEF Inode, NoFile

LEMMA DiskType == Typed => Disk \in Table
<1>1. ASSUME Typed PROVE Disk \in Table
  <2>1. CASE path = NoFile
    BY <2>1, UnknownEntry DEF Disk
  <2>2. CASE path # NoFile
    BY <1>1, <2>2 DEF Disk, Typed
  <2>3. QED BY <2>1, <2>2
<1>2. QED BY <1>1

LEMMA MergedEntry ==
  ASSUME Typed, NEW p \in Peer, NEW t \in Thresholds, NEW l \in Latencies \cup {0}
  PROVE  /\ Merged(p, t, l) \in Entry
         /\ map[p].threshold <= Merged(p, t, l).threshold
         /\ map[p].lambda # 0 => Merged(p, t, l).lambda # 0
         /\ map[p].settled <= Merged(p, t, l).settled
<1>1. t \in Nat /\ l \in Nat
  BY PeerStateAssumption
<1>2. map[p] \in Entry /\ settled[p] \in Nat /\ Parked(p) \in Nat
  BY DEF Typed, PacerType, Table, Parked
<1>3. QED BY <1>1, <1>2 DEF Merged, Entry

LEMMA LearnedRefl == ASSUME NEW a \in Table PROVE Learned(a, a)
  BY DEF Learned, Table, Entry

LEMMA LearnedTrans ==
  ASSUME NEW a \in Table, NEW b \in Table, NEW c \in Table, Learned(a, b), Learned(b, c)
  PROVE  Learned(a, c)
<1>1. SUFFICES ASSUME NEW p \in Peer
               PROVE  /\ a[p].threshold <= c[p].threshold
                      /\ a[p].lambda # 0 => c[p].lambda # 0
                      /\ a[p].settled <= c[p].settled
  BY DEF Learned
<1>2. a[p] \in Entry /\ b[p] \in Entry /\ c[p] \in Entry
  BY DEF Table
<1>3. QED BY <1>2 DEF Learned, Entry

\* Two saves that met have met for good.
LEMMA OverlapSticks == [Next]_vars /\ ~overlapped' => ~overlapped
  BY DEF Next, vars, Open, Stop, Ended, Connect, Consume, emit, emit_prepay, DeliveredOnly,
         refresh, Probe, Measured, Record, Create, Write, Rename, SaveFails, SaveOver

-----------------------------------------------------------------------------
(* Every action keeps the invariant while no two saves meet.               *)

LEMMA SavesInit == Init => Saves
<1>1. SUFFICES ASSUME Init PROVE Saves
  OBVIOUS
<1>2. Typed
  <2>1. map \in Table /\ snap \in [Peer -> Table] /\ content \in [Inode -> Table]
    BY <1>1, UnknownEntry DEF Init
  <2>2. at \in [Peer -> Stages]
    BY <1>1 DEF Init, Stages
  <2>3. PacerType /\ BooksType
    BY <1>1 DEF Init, PacerType, BooksType
  <2>4. up \in BOOLEAN /\ prepay \in BOOLEAN /\ failed \in BOOLEAN
    BY <1>1 DEF Init
  <2>5. path \in Inode \cup {NoFile} /\ tmp \in Inode \cup {NoFile}
    BY <1>1 DEF Init
  <2>6. QED BY <2>1, <2>2, <2>3, <2>4, <2>5 DEF Typed
<1>3. Alone /\ Owned /\ Current /\ Behind
  BY <1>1 DEF Init, Alone, Owned, Current, Behind, Saving, NoFile
<1>4. QED BY <1>2, <1>3 DEF Saves

LEMMA OpenSaves == ASSUME Saves, Open PROVE Saves' /\ Disk' = Disk
<1>1. map' = Disk /\ Disk' = Disk
  BY DEF Saves, Owned, Open, Disk, saveVars
<1>2. Typed'
  BY <1>1, DiskType DEF Saves, Typed, PacerType, BooksType, Open, saveVars, pacer, books
<1>3. Alone' /\ Owned' /\ Current'
  BY DEF Saves, Alone, Owned, Current, Saving, Open, saveVars
<1>4. Behind'
  <2>1. Learned(Disk', map')
    BY <1>1, LearnedRefl, DiskType DEF Saves
  <2>2. QED BY <2>1 DEF Behind, Learned
<1>5. QED BY <1>1, <1>2, <1>3, <1>4 DEF Saves

LEMMA StopSaves == ASSUME Saves, Stop PROVE Saves' /\ Disk' = Disk
<1>1. Disk' = Disk
  BY DEF Stop, Disk
<1>2. Typed'
  <2>1. map' \in Table /\ snap' \in [Peer -> Table]
    BY UnknownEntry DEF Stop
  <2>2. at' \in [Peer -> Stages]
    BY DEF Stop, Stages
  <2>3. PacerType' /\ BooksType'
    BY DEF Stop, Saves, Typed, PacerType, BooksType, books
  <2>4. up' \in BOOLEAN /\ prepay' \in BOOLEAN /\ UNCHANGED <<failed, content, path, tmp>>
    BY DEF Stop
  <2>5. QED BY <2>1, <2>2, <2>3, <2>4 DEF Saves, Typed
<1>3. Alone' /\ Owned' /\ Current' /\ Behind'
  BY TwoInodes DEF Saves, Alone, Owned, Current, Behind, Saving, Stop
<1>4. QED BY <1>1, <1>2, <1>3 DEF Saves

\* A step that touches neither the map nor a save.
LEMMA QuietSaves ==
  ASSUME Saves, UNCHANGED <<up, prepay, map, saveVars, failed>>,
         PacerType', BooksType', at' \in [Peer -> Stages],
         ~up => at' = at,
         \A p \in Peer : at'[p] = at[p] \/ (at[p] \in Live \cup {"closed"} /\ at'[p] \in Live)
  PROVE  Saves' /\ Disk' = Disk
<1>1. Disk' = Disk
  BY DEF saveVars, Disk
<1>2. Typed'
  BY DEF Saves, Typed, saveVars
<1>3. Alone'
  BY DEF Saves, Alone, Saving, Live
<1>4. Owned' /\ Current'
  BY DEF Saves, Owned, Current, Saving, saveVars, Live
<1>5. Behind'
  BY <1>1 DEF Saves, Behind, Learned
<1>6. QED BY <1>1, <1>2, <1>3, <1>4, <1>5 DEF Saves

LEMMA ConnectSaves ==
  ASSUME Saves, NEW p \in Peer, Connect(p) PROVE Saves' /\ Disk' = Disk
<1>1. map[p].surplus \in Nat /\ up
  BY DEF Saves, Typed, Table, Entry, Connect
<1>2. PacerType'
  BY <1>1 DEF Saves, Typed, PacerType, Connect
<1>3. PICK first \in Live : at' = [at EXCEPT ![p] = first]
  BY DEF Connect, Live
<1>4. at' \in [Peer -> Stages]
      /\ \A q \in Peer : at'[q] = at[q] \/ (at[q] \in Live \cup {"closed"} /\ at'[q] \in Live)
  BY <1>3 DEF Saves, Typed, Connect, Live, Stages
<1>5. UNCHANGED <<up, prepay, map, saveVars, failed>> /\ BooksType'
  BY DEF Saves, Typed, BooksType, books, Connect
<1>6. QED BY <1>1, <1>2, <1>4, <1>5, QuietSaves

\* What a connection believes, against the storer's books.
Balance(p) == held[p] - prepaid[p] + debt[p] - ahead[p] - uncounted[p]

\* Whatever a connection does, its books and its storer's move together: a
\* cheque that went through by what both count, one that was only delivered
\* by what it puts the storer ahead, a refresh by what the mirror missed.
LEMMA WorksFact ==
  ASSUME Typed, NEW p \in Peer, Works(p)
  PROVE  /\ at[p] \in Live /\ at' \in [Peer -> Stages]
         /\ \A q \in Peer : at'[q] = at[q] \/ (at[q] \in Live /\ at'[q] \in Live)
         /\ PacerType' /\ BooksType' /\ Balance(p)' = Balance(p)
         /\ \A q \in Peer \ {p} : /\ held'[q] = held[q] /\ prepaid'[q] = prepaid[q]
                                  /\ debt'[q] = debt[q] /\ ahead'[q] = ahead[q]
                                  /\ uncounted'[q] = uncounted[q]
         /\ ~prepay => prepaid'[p] = prepaid[p]
         /\ UNCHANGED <<up, prepay, map, saveVars, failed, cut>>
<1> USE DEF Balance
<1>1. PacerType /\ BooksType /\ at \in [Peer -> Stages]
  BY DEF Typed
<1>2. /\ held[p] \in Int /\ ahead[p] \in Nat /\ uncounted[p] \in Nat
      /\ prepaid[p] \in Nat /\ debt[p] \in Nat /\ settled[p] \in Nat
  BY <1>1 DEF PacerType, BooksType
<1>3. CASE Consume(p)
  <2>1. /\ at[p] \in Live /\ at' = at /\ debt' = [debt EXCEPT ![p] = @ + 1]
        /\ held' = [held EXCEPT ![p] = @ - 1]
        /\ UNCHANGED <<prepaid, settled, ahead, uncounted>>
        /\ UNCHANGED <<up, prepay, map, saveVars, failed, cut>>
    BY <1>3 DEF Consume, Live
  <2>2. QED BY <1>1, <1>2, <2>1 DEF PacerType, BooksType
<1>4. CASE emit(p)
  <2>1. PICK n \in Owed(p) : debt' = [debt EXCEPT ![p] = @ - n] /\ Recorded(p, n)
    BY <1>4 DEF emit
  <2>2. n \in Nat \ {0} /\ n <= debt[p]
    BY <1>2 DEF Owed, Unpaid
  <2>3. /\ at[p] \in Live /\ UNCHANGED <<prepaid, uncounted>>
        /\ at' = [at EXCEPT ![p] = IF @ = "build" THEN "probe" ELSE @]
        /\ UNCHANGED <<up, prepay, map, saveVars, failed, cut>>
    BY <1>4, <2>1 DEF emit, Recorded, Live
  <2>4. /\ at' \in [Peer -> Stages]
        /\ \A q \in Peer : at'[q] = at[q] \/ (at[q] \in Live /\ at'[q] \in Live)
    BY <1>1, <2>3 DEF Live, Stages
  <2>5. QED BY <1>1, <1>2, <2>1, <2>2, <2>3, <2>4 DEF PacerType, BooksType, Recorded, Gained
<1>5. CASE emit_prepay(p)
  <2>1. PICK n \in 1..(MaxPrepaid - prepaid[p]) :
           prepaid' = [prepaid EXCEPT ![p] = @ + n] /\ Recorded(p, n)
    BY <1>5 DEF emit_prepay
  <2>2. n \in Nat \ {0}
    BY <1>2, PeerStateAssumption
  <2>3. /\ at[p] \in Live /\ UNCHANGED <<at, debt, uncounted>> /\ prepay
        /\ UNCHANGED <<up, prepay, map, saveVars, failed, cut>>
    BY <1>5, <2>1 DEF emit_prepay, Recorded, Live
  <2>4. QED BY <1>1, <1>2, <2>1, <2>2, <2>3 DEF PacerType, BooksType, Recorded, Gained
<1>6. CASE DeliveredOnly(p)
  <2>1. PICK n \in Owed(p) \cup (IF prepay THEN 1..(MaxPrepaid - prepaid[p]) ELSE {}) :
           /\ held' = [held EXCEPT ![p] = @ + Gained(p, n)]
           /\ ahead' = [ahead EXCEPT ![p] = IF n > @ THEN n ELSE @]
    BY <1>6 DEF DeliveredOnly
  <2>2. n \in Nat
    BY <1>2, PeerStateAssumption DEF Owed, Unpaid
  <2>3. /\ at[p] \in Live /\ UNCHANGED <<prepaid, debt, settled, uncounted>>
        /\ at' = [at EXCEPT ![p] = "open"]
        /\ UNCHANGED <<up, prepay, map, saveVars, failed, cut>>
    BY <1>6 DEF DeliveredOnly, Live, pacer
  <2>4. /\ at' \in [Peer -> Stages]
        /\ \A q \in Peer : at'[q] = at[q] \/ (at[q] \in Live /\ at'[q] \in Live)
    BY <1>1, <2>3 DEF Live, Stages
  <2>5. QED BY <1>1, <1>2, <2>1, <2>2, <2>3, <2>4 DEF PacerType, BooksType, Gained
<1>7. CASE refresh(p)
  <2>1. PICK n \in 1..MaxAccept :
           /\ debt' = [debt EXCEPT ![p] = IF n > @ THEN 0 ELSE @ - n]
           /\ settled' = [settled EXCEPT ![p] = @ + n]
           /\ held' = [held EXCEPT ![p] = @ + n]
           /\ uncounted' = [uncounted EXCEPT ![p] = @ + IF n > debt[p] THEN n - debt[p] ELSE 0]
    BY <1>7 DEF refresh
  <2>2. n \in Nat
    BY PeerStateAssumption
  <2>3. /\ at[p] \in Live /\ UNCHANGED <<at, prepaid, ahead>>
        /\ UNCHANGED <<up, prepay, map, saveVars, failed, cut>>
    BY <1>7 DEF refresh, Live
  <2>4. QED BY <1>1, <1>2, <2>1, <2>2, <2>3 DEF PacerType, BooksType
<1>8. CASE Probe(p)
  <2>1. PICK n \in 1..MaxAccept :
           /\ settled' = [settled EXCEPT ![p] = @ + n]
           /\ held' = [held EXCEPT ![p] = @ + n]
           /\ uncounted' = [uncounted EXCEPT ![p] = @ + n]
    BY <1>8 DEF Probe
  <2>2. n \in Nat
    BY PeerStateAssumption
  <2>3. /\ at[p] \in Live /\ UNCHANGED <<at, prepaid, debt, ahead>>
        /\ UNCHANGED <<up, prepay, map, saveVars, failed, cut>>
    BY <1>8 DEF Probe, Live
  <2>4. QED BY <1>1, <1>2, <2>1, <2>2, <2>3 DEF PacerType, BooksType
<1>9. CASE Measured(p)
  <2>1. /\ at[p] \in Live /\ at' = [at EXCEPT ![p] = "open"]
        /\ UNCHANGED <<prepaid, debt, settled, held, ahead, uncounted>>
        /\ UNCHANGED <<up, prepay, map, saveVars, failed, cut>>
    BY <1>9 DEF Measured, Live, pacer, books
  <2>2. /\ at' \in [Peer -> Stages]
        /\ \A q \in Peer : at'[q] = at[q] \/ (at[q] \in Live /\ at'[q] \in Live)
    BY <1>1, <2>1 DEF Live, Stages
  <2>3. QED BY <1>1, <1>2, <2>1, <2>2 DEF PacerType, BooksType
<1>10. QED BY <1>3, <1>4, <1>5, <1>6, <1>7, <1>8, <1>9 DEF Works

LEMMA WorksSaves ==
  ASSUME Saves, NEW p \in Peer, Works(p) PROVE Saves' /\ Disk' = Disk
<1>1. Typed
  BY DEF Saves
<1>2. up
  BY <1>1, WorksFact DEF Saves, Alone, Live
<1>3. \A q \in Peer : at'[q] = at[q] \/ (at[q] \in Live \cup {"closed"} /\ at'[q] \in Live)
  BY <1>1, WorksFact
<1>4. PacerType' /\ BooksType' /\ at' \in [Peer -> Stages]
      /\ UNCHANGED <<up, prepay, map, saveVars, failed>>
  BY <1>1, WorksFact
<1>5. QED BY <1>2, <1>3, <1>4, QuietSaves

LEMMA RecordMerges ==
  ASSUME NEW p \in Peer, Record(p)
  PROVE  \E t \in Thresholds, l \in Latencies \cup {0} :
            map' = [map EXCEPT ![p] = Merged(p, t, l)]
  BY DEF Record

\* What the storer accepts of the confirming refresh stays uncounted.
LEMMA RecordBooks ==
  ASSUME Typed, NEW p \in Peer, Record(p)
  PROVE  /\ PacerType' /\ BooksType' /\ UNCHANGED <<prepaid, debt, settled, ahead>>
         /\ held'[p] - uncounted'[p] = held[p] - uncounted[p]
         /\ \A q \in Peer \ {p} : held'[q] = held[q] /\ uncounted'[q] = uncounted[q]
<1>1. PICK n \in IF Unpaid(p) = 0 /\ spends < MaxSpends THEN 0..MaxAccept ELSE {0} :
         /\ held' = [held EXCEPT ![p] = @ + n]
         /\ uncounted' = [uncounted EXCEPT ![p] = @ + n]
  BY DEF Record
<1>2. n \in Nat
  BY PeerStateAssumption
<1>3. UNCHANGED <<prepaid, debt, settled, ahead>>
  BY DEF Record, pacer
<1>4. QED BY <1>1, <1>2, <1>3 DEF Typed, PacerType, BooksType

LEMMA RecordSaves ==
  ASSUME Saves, NEW p \in Peer, Record(p), ~overlapped' PROVE Saves' /\ Disk' = Disk
<1>1. PICK t \in Thresholds, l \in Latencies \cup {0} :
         map' = [map EXCEPT ![p] = Merged(p, t, l)]
  BY RecordMerges
<1>2. Typed /\ Disk' = Disk
  BY DEF Saves, Record, Disk
<1>3. map \in Table /\ map' \in Table /\ Disk \in Table
  BY <1>1, <1>2, MergedEntry, DiskType DEF Typed, Table
<1>4. \A q \in Peer : ~Saving(q)
  BY DEF Record
<1>5. Typed'
  BY <1>2, <1>3, RecordBooks DEF Typed, Record, Stages
<1>6. Alone'
  BY <1>2, <1>4 DEF Saves, Typed, Alone, Saving, Record
<1>7. Owned'
  BY <1>2, <1>4 DEF Saves, Typed, Owned, Saving, Record
<1>8. Current'
  BY <1>2, <1>3, <1>4 DEF Typed, Current, Saving, Record
<1>9. Behind'
  <2>1. Learned(map, map')
    <3>1. SUFFICES ASSUME NEW q \in Peer
                   PROVE  /\ map[q].threshold <= map'[q].threshold
                          /\ map[q].lambda # 0 => map'[q].lambda # 0
                          /\ map[q].settled <= map'[q].settled
      BY DEF Learned
    <3>2. CASE q = p
      <4>1. map'[p] = Merged(p, t, l)
        BY <1>1, <1>3 DEF Table
      <4>2. QED BY <1>2, <3>2, <4>1, MergedEntry
    <3>3. CASE q # p
      <4>1. map'[q] = map[q] /\ map[q] \in Entry
        BY <1>1, <1>3, <3>3 DEF Table
      <4>2. QED BY <4>1 DEF Entry
    <3>4. QED BY <3>2, <3>3
  <2>2. up' = up
    BY DEF Record
  <2>3. ASSUME up PROVE Learned(Disk', map')
    BY <1>2, <1>3, <2>1, <2>3, LearnedTrans DEF Saves, Behind
  <2>4. QED BY <2>2, <2>3 DEF Behind, Learned
<1>10. QED BY <1>2, <1>5, <1>6, <1>7, <1>8, <1>9 DEF Saves

\* Where the temporary file goes: to the name's inode, or to a free one.
LEMMA CreateSaves ==
  ASSUME Saves, NEW p \in Peer, Create(p) PROVE Saves' /\ Disk' = Disk
<1> DEFINE n == IF tmp # NoFile THEN tmp ELSE CHOOSE m \in Inode : Free(m)
<1>1. Typed /\ \A q \in Peer : q # p => ~Saving(q)
  BY DEF Saves, Alone, Saving, Create
<1>2. \A q \in Peer : fd[q] = NoFile
  BY <1>1 DEF Saves, Owned, Saving, Create
<1>3. n \in Inode /\ n # path
  <2>1. CASE tmp # NoFile
    BY <1>1, <2>1 DEF Saves, Owned, Typed
  <2>2. CASE tmp = NoFile
    <3>1. Free(1) \/ Free(2)
      BY <1>2, <2>2, TwoInodes DEF Free, NoFile
    <3>2. \E m \in Inode : Free(m)
      BY <3>1, TwoInodes
    <3>3. n \in Inode /\ Free(n)
      BY <2>2, <3>2
    <3>4. QED BY <3>3 DEF Free
  <2>3. QED BY <2>1, <2>2
<1>4. /\ tmp' = n /\ fd' = [fd EXCEPT ![p] = n]
      /\ content' = [content EXCEPT ![n] = Empty] /\ mixed' = mixed \ {n}
      /\ at' = [at EXCEPT ![p] = "write"] /\ at[p] = "create"
      /\ UNCHANGED <<up, prepay, map, pacer, snap, path, books, failed>>
  BY DEF Create
<1> HIDE DEF n
<1>5. Disk' = Disk
  BY <1>1, <1>3, <1>4 DEF Disk, Typed
<1>6. Typed'
  BY <1>1, <1>3, <1>4, UnknownEntry DEF Typed, PacerType, BooksType, pacer, books, Stages
<1>7. Alone'
  BY <1>1, <1>4 DEF Saves, Alone, Typed, Saving
<1>8. Owned'
  BY <1>1, <1>2, <1>3, <1>4, TwoInodes DEF Saves, Owned, Typed, Saving
<1>9. Current'
  BY <1>1, <1>4 DEF Saves, Current, Typed, Saving
<1>10. Behind'
  BY <1>4, <1>5 DEF Saves, Behind, Learned
<1>11. QED BY <1>5, <1>6, <1>7, <1>8, <1>9, <1>10 DEF Saves

LEMMA WriteSaves ==
  ASSUME Saves, NEW p \in Peer, Write(p) PROVE Saves' /\ Disk' = Disk
<1>1. Typed /\ \A q \in Peer : q # p => ~Saving(q)
  BY DEF Saves, Alone, Saving, Write
<1>2. fd[p] = tmp /\ tmp \in Inode /\ tmp # path
  BY <1>1 DEF Saves, Owned, Typed, Write
<1>3. \A q \in Peer \ {p} : fd[q] # tmp
  BY <1>1, <1>2, TwoInodes DEF Saves, Owned, Saving
<1>4. /\ content' = [content EXCEPT ![tmp] = snap[p]] /\ mixed' = mixed
      /\ at' = [at EXCEPT ![p] = "rename"] /\ at[p] = "write"
      /\ UNCHANGED <<up, prepay, map, pacer, snap, fd, path, tmp, books, failed>>
  BY <1>2, <1>3 DEF Write
<1>5. Disk' = Disk
  BY <1>1, <1>2, <1>4 DEF Disk, Typed
<1>6. Typed'
  BY <1>1, <1>2, <1>4 DEF Typed, PacerType, BooksType, pacer, books, Stages
<1>7. Alone'
  BY <1>1, <1>4 DEF Saves, Alone, Typed, Saving
<1>8. Owned'
  BY <1>1, <1>4 DEF Saves, Owned, Typed
<1>9. Current'
  BY <1>1, <1>2, <1>4 DEF Saves, Current, Typed, Saving
<1>10. Behind'
  BY <1>4, <1>5 DEF Saves, Behind, Learned
<1>11. QED BY <1>5, <1>6, <1>7, <1>8, <1>9, <1>10 DEF Saves

\* A save that ends, with what its end does to the connection.
LEMMA OverSaves ==
  ASSUME Saves, NEW p \in Peer, Saving(p), SaveOver(p)
  PROVE  /\ \A q \in Peer : ~Saving(q)' /\ fd'[q] = NoFile
         /\ at' \in [Peer -> Stages]
         /\ fd' \in [Peer -> Inode \cup {NoFile}]
         /\ snap' \in [Peer -> Table] /\ PacerType' /\ BooksType'
         /\ ~up' => \A q \in Peer : at'[q] = "closed"
<1>1. \A q \in Peer : q # p => ~Saving(q)
  BY DEF Saves, Alone
<1>2. \A q \in Peer : ~Saving(q)' /\ fd'[q] = NoFile
  BY <1>1 DEF Saves, Typed, Owned, Saving, SaveOver
<1>3. at' \in [Peer -> Stages]
      /\ fd' \in [Peer -> Inode \cup {NoFile}]
      /\ snap' \in [Peer -> Table] /\ PacerType' /\ BooksType'
  BY UnknownEntry DEF Saves, Typed, Owned, SaveOver, PacerType, BooksType, books, Stages
<1>4. ~up' => \A q \in Peer : at'[q] = "closed"
  BY DEF Saves, Typed, Alone, SaveOver
<1>5. QED BY <1>2, <1>3, <1>4

LEMMA FailSaves ==
  ASSUME Saves, NEW p \in Peer, SaveFails(p) PROVE Saves' /\ Disk' = Disk
<1>1. Saving(p) /\ SaveOver(p) /\ UNCHANGED <<path, tmp, content, mixed, up, prepay, map>>
      /\ failed' = TRUE
  BY DEF SaveFails, SaveOver
<1>2. Disk' = Disk
  BY <1>1 DEF Disk
<1>3. Typed'
  BY <1>1, OverSaves DEF Saves, Typed
<1>4. Alone' /\ Owned' /\ Current'
  <2>1. \A q \in Peer : ~Saving(q)' /\ fd'[q] = NoFile
    BY <1>1, OverSaves
  <2>2. Alone'
    BY <1>1, <2>1, OverSaves DEF Alone
  <2>3. fd' \in [Peer -> Inode \cup {NoFile}]
    BY <1>1, OverSaves
  <2>4. Owned'
    BY <1>1, <2>1, <2>3 DEF Saves, Owned, Saving
  <2>5. Current'
    BY <2>1 DEF Current, Saving
  <2>6. QED BY <2>2, <2>4, <2>5
<1>5. Behind'
  BY <1>1, <1>2 DEF Saves, Behind, Learned
<1>6. QED BY <1>2, <1>3, <1>4, <1>5 DEF Saves

LEMMA RenameSaves ==
  ASSUME Saves, NEW p \in Peer, Rename(p)
  PROVE  Saves' /\ Disk' = map /\ map' = map /\ failed' = failed /\ up
<1>1. Typed /\ Saving(p) /\ SaveOver(p) /\ UNCHANGED <<up, prepay, map>>
  BY DEF Saves, Saving, Rename, SaveOver
<1>2. fd[p] = tmp /\ tmp \in Inode /\ tmp # path /\ tmp # NoFile /\ content[tmp] = map
  BY <1>1, TwoInodes DEF Saves, Owned, Typed, Current, Rename
<1>3. /\ path' = tmp /\ tmp' = NoFile /\ mixed' = mixed \ {path} /\ failed' = failed
      /\ content' = [n \in Inode |-> IF n = path THEN Empty ELSE content[n]]
  BY <1>2 DEF Rename
<1>4. Disk' = map /\ map' = map
  BY <1>1, <1>2, <1>3 DEF Disk
<1>5. up
  BY DEF Saves, Alone, Rename
<1>6. Typed'
  <2>1. content' \in [Inode -> Table]
    BY <1>1, <1>3, UnknownEntry DEF Typed
  <2>2. QED BY <1>1, <1>2, <1>3, <2>1, OverSaves DEF Typed
<1>7. Alone' /\ Owned' /\ Current'
  <2>1. \A q \in Peer : ~Saving(q)' /\ fd'[q] = NoFile
    BY <1>1, OverSaves
  <2>2. Alone'
    BY <1>1, <2>1, OverSaves DEF Alone
  <2>3. fd' \in [Peer -> Inode \cup {NoFile}]
    BY <1>1, OverSaves
  <2>4. Owned'
    BY <1>1, <1>3, <2>1, <2>3 DEF Saves, Owned, Saving
  <2>5. Current'
    BY <2>1 DEF Current, Saving
  <2>6. QED BY <2>2, <2>4, <2>5
<1>8. Behind'
  <2>1. Learned(Disk', map')
    BY <1>1, <1>4, LearnedRefl DEF Typed
  <2>2. QED BY <2>1 DEF Behind, Learned
<1>9. QED BY <1>3, <1>4, <1>5, <1>6, <1>7, <1>8 DEF Saves

-----------------------------------------------------------------------------
(* The file forgets nothing.                                               *)

\* Only a rename changes what is on disk, and it writes the map.
LEMMA SavesNext ==
  ASSUME Saves, [Next]_vars, ~overlapped'
  PROVE  Saves' /\ (Disk' = Disk \/ (Disk' = map /\ up))
<1>1. CASE UNCHANGED vars
  <2>1. Disk' = Disk
    BY <1>1 DEF vars, saveVars, Disk
  <2>2. /\ UNCHANGED <<up, prepay, map, saveVars, failed, at>>
        /\ PacerType' /\ BooksType' /\ at \in [Peer -> Stages]
    BY <1>1 DEF vars, Saves, Typed, PacerType, BooksType, pacer, books
  <2>3. QED BY <2>1, <2>2, QuietSaves
<1>2. CASE Open
  BY <1>2, OpenSaves
<1>3. CASE Stop
  BY <1>3, StopSaves
<1>4. CASE Ended
  BY <1>1, <1>4 DEF Ended
<1>5. ASSUME NEW p \in Peer, Connect(p) PROVE Saves' /\ Disk' = Disk
  BY <1>5, ConnectSaves
<1>6. ASSUME NEW p \in Peer, Works(p) PROVE Saves' /\ Disk' = Disk
  BY <1>6, WorksSaves
<1>7. ASSUME NEW p \in Peer, Record(p) PROVE Saves' /\ Disk' = Disk
  BY <1>7, RecordSaves
<1>8. ASSUME NEW p \in Peer, Create(p) PROVE Saves' /\ Disk' = Disk
  BY <1>8, CreateSaves
<1>9. ASSUME NEW p \in Peer, Write(p) PROVE Saves' /\ Disk' = Disk
  BY <1>9, WriteSaves
<1>10. ASSUME NEW p \in Peer, Rename(p) PROVE Saves' /\ Disk' = map /\ up
  BY <1>10, RenameSaves
<1>11. ASSUME NEW p \in Peer, SaveFails(p) PROVE Saves' /\ Disk' = Disk
  BY <1>11, FailSaves
<1>12. QED
  BY <1>1, <1>2, <1>3, <1>4, <1>5, <1>6, <1>7, <1>8, <1>9, <1>10, <1>11 DEF Next, Works

\* As long as no two saves met, what the file knows of a storer only grows
\* (threshold, a measured latency, the settled total), whatever step a save
\* or the process dies at: the map is always ahead of the file.
THEOREM FileLearns == Spec => DiskLearns
<1> DEFINE Inv == ~overlapped => Saves
           Kept == ~overlapped' => \A p \in Peer :
                      /\ Disk[p].threshold <= Disk'[p].threshold
                      /\ Disk[p].lambda # 0 => Disk'[p].lambda # 0
                      /\ Disk[p].settled <= Disk'[p].settled
<1>1. Init => Inv
  BY SavesInit
<1>2. Inv /\ [Next]_vars => Inv'
  BY OverlapSticks, SavesNext
<1>3. Inv /\ [Next]_vars => [Kept]_vars
  <2>1. SUFFICES ASSUME Inv, [Next]_vars, ~overlapped' PROVE Kept
    OBVIOUS
  <2>2. Saves /\ (Disk' = Disk \/ (Disk' = map /\ up))
    BY <2>1, OverlapSticks, SavesNext
  <2>3. Learned(Disk, Disk) /\ (up => Learned(Disk, map))
    BY <2>2, DiskType, LearnedRefl DEF Saves, Behind
  <2>4. QED BY <2>2, <2>3 DEF Learned
<1>4. QED BY <1>1, <1>2, <1>3, PTL DEF Spec, DiskLearns

-----------------------------------------------------------------------------
(* The remembered surplus is the storer's.                                 *)

Extra(p) == ahead[p] + uncounted[p]

\* Between two lives the file holds the credit: a storer that is not being
\* saved has its row on disk.  A connection that does not prepay has prepaid
\* nothing, so it leaves what was remembered as it was.
Exact ==
    /\ \A p \in Peer : up /\ ~Saving(p) => Disk[p] = map[p]
    /\ \A p \in Peer : at[p] \in Live /\ ~prepay => prepaid[p] = 0
    /\ \A p \in Peer \ cut : held[p] = (IF up THEN Believed(p) ELSE Disk[p].surplus) + Extra(p)

LEMMA FailSticks == [Next]_vars /\ ~failed' => ~failed
  BY DEF Next, vars, Open, Stop, Ended, Connect, Consume, emit, emit_prepay, DeliveredOnly,
         refresh, Probe, Measured, Record, Create, Write, Rename, SaveFails

LEMMA ExactInit == Init => Exact
  BY DEF Init, Exact, Extra, Disk, Empty, Unknown, Live

LEMMA OpenExact == ASSUME Saves, Exact, Open PROVE Exact'
<1>1. map' = Disk /\ Disk' = Disk
  BY DEF Saves, Owned, Open, Disk, saveVars
<1>2. /\ ~up /\ up' = TRUE /\ UNCHANGED <<at, prepaid, debt, held, ahead, uncounted, cut>>
      /\ \A p \in Peer : at[p] = "closed"
  BY DEF Saves, Alone, Open, pacer, books
<1>3. \A p \in Peer : up' /\ ~Saving(p)' => Disk'[p] = map'[p]
  BY <1>1
<1>4. \A p \in Peer : at'[p] \in Live /\ ~prepay' => prepaid'[p] = 0
  BY <1>2 DEF Live
<1>5. ASSUME NEW p \in Peer, p \notin cut' PROVE held'[p] = Believed(p)' + Extra(p)'
  <2>1. Believed(p)' = Disk[p].surplus
    BY <1>1, <1>2 DEF Believed
  <2>2. QED BY <1>2, <1>5, <2>1 DEF Exact, Extra
<1>6. QED BY <1>2, <1>3, <1>4, <1>5 DEF Exact

LEMMA StopExact == ASSUME Saves, Exact, Stop PROVE Exact'
<1>1. /\ up /\ ~up' /\ Disk' = Disk /\ UNCHANGED <<held, ahead, uncounted>>
      /\ at' = [p \in Peer |-> "closed"]
      /\ \A p \in Peer : p \notin cut' => p \notin cut /\ at[p] = "closed"
  BY DEF Stop, Disk, books
<1>2. ASSUME NEW p \in Peer, p \notin cut' PROVE held'[p] = Disk'[p].surplus + Extra(p)'
  <2>1. Disk[p] = map[p]
    BY <1>1, <1>2 DEF Exact, Saving
  <2>2. held[p] = map[p].surplus + Extra(p)
    BY <1>1, <1>2 DEF Exact, Believed
  <2>3. QED BY <1>1, <2>1, <2>2 DEF Extra
<1>3. QED BY <1>1, <1>2 DEF Exact, Live

LEMMA ConnectExact == ASSUME Saves, Exact, NEW p \in Peer, Connect(p) PROVE Exact'
<1>1. Disk' = Disk
  BY ConnectSaves
<1>2. /\ at \in [Peer -> Stages] /\ prepaid \in [Peer -> Nat] /\ debt \in [Peer -> Nat]
      /\ map[p].surplus \in Nat
  BY DEF Saves, Typed, PacerType, Table, Entry
<1>3. /\ up /\ at[p] = "closed" /\ UNCHANGED <<up, prepay, map, held, ahead, uncounted, cut>>
      /\ prepaid' = [prepaid EXCEPT ![p] = IF prepay THEN map[p].surplus ELSE 0]
      /\ debt' = [debt EXCEPT ![p] = 0]
  BY DEF Connect, books
<1>4. PICK first \in Live : at' = [at EXCEPT ![p] = first]
  BY DEF Connect, Live
<1>5. \A q \in Peer : up' /\ ~Saving(q)' => Disk'[q] = map'[q]
  BY <1>1, <1>2, <1>3, <1>4 DEF Exact, Saving
<1>6. \A q \in Peer : at'[q] \in Live /\ ~prepay' => prepaid'[q] = 0
  BY <1>2, <1>3, <1>4 DEF Exact
<1>7. ASSUME NEW q \in Peer, q \notin cut' PROVE held'[q] = Believed(q)' + Extra(q)'
  <2>1. held'[q] = Believed(q) + Extra(q)
    BY <1>3, <1>7 DEF Exact
  <2>2. Extra(q)' = Extra(q)
    BY <1>3 DEF Extra
  <2>3. CASE q = p
    <3>1. Believed(p) = map[p].surplus
      BY <1>3 DEF Believed
    <3>2. at'[p] \in Live /\ debt'[p] = 0 /\ prepaid'[p] = IF prepay THEN map[p].surplus ELSE 0
      BY <1>2, <1>3, <1>4
    <3>3. Believed(p)' = map[p].surplus
      BY <1>2, <1>3, <3>2 DEF Believed, Live
    <3>4. QED BY <2>1, <2>2, <2>3, <3>1, <3>3
  <2>4. CASE q # p
    <3>1. Believed(q)' = Believed(q)
      BY <1>2, <1>3, <1>4, <2>4 DEF Believed
    <3>2. QED BY <2>1, <2>2, <3>1
  <2>5. QED BY <2>3, <2>4
<1>8. QED BY <1>3, <1>5, <1>6, <1>7 DEF Exact

\* The balance of a connection is what it believes, but for the extra.
LEMMA BalanceFact ==
  ASSUME Typed, NEW p \in Peer, at[p] \in Live, ~prepay => prepaid[p] = 0
  PROVE  held[p] = Believed(p) + Extra(p)
           <=> Balance(p) = IF prepay THEN 0 ELSE map[p].surplus
<1>1. /\ held[p] \in Int /\ ahead[p] \in Nat /\ uncounted[p] \in Nat
      /\ prepaid[p] \in Nat /\ debt[p] \in Nat /\ map[p].surplus \in Nat
  BY DEF Typed, PacerType, BooksType, Table, Entry
<1>2. Believed(p) = (IF prepay THEN prepaid[p] ELSE map[p].surplus) - debt[p]
  BY DEF Believed, Live
<1>3. QED BY <1>1, <1>2 DEF Balance, Extra

\* What a connection does leaves its balance alone.
LEMMA WorksExact == ASSUME Saves, Exact, NEW p \in Peer, Works(p) PROVE Exact'
<1>1. Disk' = Disk /\ Typed /\ Typed'
  BY WorksSaves DEF Saves
<1>2. /\ at[p] \in Live /\ at'[p] \in Live /\ Balance(p)' = Balance(p)
      /\ UNCHANGED <<up, prepay, map, cut>> /\ (~prepay => prepaid'[p] = prepaid[p])
      /\ \A q \in Peer \ {p} : /\ held'[q] = held[q] /\ prepaid'[q] = prepaid[q]
                               /\ debt'[q] = debt[q] /\ ahead'[q] = ahead[q]
                               /\ uncounted'[q] = uncounted[q]
  BY <1>1, WorksFact
<1>3. \A q \in Peer : at'[q] = at[q] \/ (at[q] \in Live /\ at'[q] \in Live)
  BY <1>1, WorksFact
<1>4. up
  BY <1>2 DEF Saves, Alone, Live
<1>5. \A q \in Peer : up' /\ ~Saving(q)' => Disk'[q] = map'[q]
  BY <1>1, <1>2, <1>3 DEF Exact, Saving, Live
<1>6. \A q \in Peer : at'[q] \in Live /\ ~prepay' => prepaid'[q] = 0
  BY <1>2, <1>3 DEF Exact
<1>7. ASSUME NEW q \in Peer, q \notin cut' PROVE held'[q] = Believed(q)' + Extra(q)'
  <2>1. held[q] = Believed(q) + Extra(q)
    BY <1>2, <1>4, <1>7 DEF Exact
  <2>2. CASE q = p
    <3>1. ~prepay => prepaid[p] = 0
      BY <1>2 DEF Exact
    <3>2. Balance(p) = IF prepay THEN 0 ELSE map[p].surplus
      BY <1>1, <1>2, <2>1, <2>2, <3>1, BalanceFact
    <3>3. Balance(p)' = IF prepay' THEN 0 ELSE map'[p].surplus
      BY <1>2, <3>2
    <3>4. ~prepay' => prepaid'[p] = 0
      BY <1>2, <3>1
    <3>5. held'[p] = Believed(p)' + Extra(p)'
      <4>1. /\ held'[p] \in Int /\ ahead'[p] \in Nat /\ uncounted'[p] \in Nat
            /\ prepaid'[p] \in Nat /\ debt'[p] \in Nat /\ map'[p].surplus \in Nat
        BY <1>1 DEF Typed, PacerType, BooksType, Table, Entry
      <4>2. Believed(p)' = (IF prepay' THEN prepaid'[p] ELSE map'[p].surplus) - debt'[p]
        BY <1>2 DEF Believed, Live
      <4>3. QED BY <3>3, <3>4, <4>1, <4>2 DEF Balance, Extra
    <3>6. QED BY <2>2, <3>5
  <2>3. CASE q # p
    <3>1. Believed(q)' = Believed(q)
      BY <1>2, <1>3, <2>3 DEF Believed, Live
    <3>2. QED BY <1>2, <2>1, <2>3, <3>1 DEF Extra
  <2>4. QED BY <2>2, <2>3
<1>8. QED BY <1>2, <1>4, <1>5, <1>6, <1>7 DEF Exact

\* The recorded surplus is what the connection has, which for one that does
\* not prepay and does not owe is what was remembered.
LEMMA RecordExact ==
  ASSUME Saves, Exact, NEW p \in Peer, Record(p), ~overlapped' PROVE Exact'
<1>1. PICK t \in Thresholds, l \in Latencies \cup {0} :
         map' = [map EXCEPT ![p] = Merged(p, t, l)]
  BY RecordMerges
<1>2. Disk' = Disk /\ Typed /\ Typed'
  BY RecordSaves DEF Saves
<1>3. /\ at \in [Peer -> Stages] /\ map \in Table /\ map[p].surplus \in Nat
      /\ prepaid[p] \in Nat /\ debt[p] \in Nat
  BY <1>2 DEF Typed, PacerType, Table, Entry
<1>4. /\ up /\ at[p] = "open" /\ at' = [at EXCEPT ![p] = "create"]
      /\ UNCHANGED <<up, prepay>>
      /\ \A q \in Peer : q \notin cut' => q \notin cut
      /\ p \notin cut' => ~(Unpaid(p) > 0)
  BY DEF Saves, Alone, Record
<1>5. /\ UNCHANGED <<prepaid, debt, ahead>>
      /\ held'[p] - uncounted'[p] = held[p] - uncounted[p]
      /\ \A q \in Peer \ {p} : held'[q] = held[q] /\ uncounted'[q] = uncounted[q]
  BY <1>2, RecordBooks
<1>6. map'[p].surplus = IF prepay THEN Parked(p) ELSE map[p].surplus
  BY <1>1, <1>3 DEF Table, Merged
<1>7. \A q \in Peer : q # p => map'[q] = map[q]
  BY <1>1, <1>3 DEF Table
<1>8. \A q \in Peer : up' /\ ~Saving(q)' => Disk'[q] = map'[q]
  BY <1>2, <1>3, <1>4, <1>7 DEF Exact, Saving
<1>9. \A q \in Peer : at'[q] \in Live /\ ~prepay' => prepaid'[q] = 0
  BY <1>3, <1>4, <1>5 DEF Exact, Live
<1>10. ASSUME NEW q \in Peer, q \notin cut' PROVE held'[q] = Believed(q)' + Extra(q)'
  <2>1. held[q] = Believed(q) + Extra(q)
    BY <1>4, <1>10 DEF Exact
  <2>2. CASE q = p
    <3>1. Believed(p)' = map'[p].surplus
      BY <1>3, <1>4 DEF Believed
    <3>2. debt[p] <= prepaid[p]
      BY <1>3, <1>4, <1>10, <2>2 DEF Unpaid
    <3>3. Believed(p) = (IF prepay THEN prepaid[p] ELSE map[p].surplus) - debt[p]
      BY <1>4 DEF Believed
    <3>4. map'[p].surplus = Believed(p)
      <4>1. CASE prepay
        BY <1>3, <1>6, <3>2, <3>3, <4>1 DEF Parked
      <4>2. CASE ~prepay
        <5>1. prepaid[p] = 0 /\ debt[p] = 0
          BY <1>3, <1>4, <3>2, <4>2 DEF Exact, Live
        <5>2. QED BY <1>3, <1>6, <3>3, <4>2, <5>1
      <4>3. QED BY <4>1, <4>2
    <3>5. /\ held[p] \in Int /\ held'[p] \in Int /\ uncounted[p] \in Nat /\ uncounted'[p] \in Nat
          /\ ahead[p] \in Nat /\ Believed(p) \in Int
      BY <1>2, <1>3, <3>3 DEF Typed, BooksType
    <3>6. held'[p] = Believed(p) + Extra(p)'
      BY <1>5, <2>1, <2>2, <3>5 DEF Extra
    <3>7. QED BY <2>2, <3>1, <3>4, <3>6
  <2>3. CASE q # p
    <3>1. Believed(q)' = Believed(q)
      BY <1>3, <1>4, <1>5, <1>7, <2>3 DEF Believed
    <3>2. QED BY <1>5, <2>1, <2>3, <3>1 DEF Extra
  <2>4. QED BY <2>2, <2>3
<1>11. QED BY <1>4, <1>8, <1>9, <1>10 DEF Exact

\* The steps of a save show nothing else than before.
LEMMA SaveExact ==
  ASSUME Saves, Exact, NEW p \in Peer, Create(p) \/ Write(p) PROVE Exact'
<1>1. Disk' = Disk
  BY CreateSaves, WriteSaves
<1>2. at \in [Peer -> Stages]
  BY DEF Saves, Typed
<1>3. /\ UNCHANGED <<up, prepay, map, prepaid, debt, held, ahead, uncounted, cut>> /\ Saving(p)
      /\ at' = [at EXCEPT ![p] = "write"] \/ at' = [at EXCEPT ![p] = "rename"]
  BY DEF Create, Write, Saving, pacer, books
<1>4. \A q \in Peer : Saving(q)' = Saving(q) /\ (at'[q] \in Live <=> at[q] \in Live)
  BY <1>2, <1>3 DEF Saving, Live
<1>5. \A q \in Peer : Believed(q)' = Believed(q) /\ Extra(q)' = Extra(q)
  BY <1>3, <1>4 DEF Believed, Extra, Live
<1>6. QED BY <1>1, <1>3, <1>4, <1>5 DEF Exact

LEMMA RenameExact ==
  ASSUME Saves, Exact, NEW p \in Peer, Rename(p) PROVE Exact'
<1>1. Disk' = map /\ map' = map
  BY RenameSaves
<1>2. /\ at \in [Peer -> Stages] /\ prepaid \in [Peer -> Nat] /\ debt \in [Peer -> Nat]
  BY DEF Saves, Typed, PacerType
<1>3. /\ up /\ at[p] = "rename" /\ UNCHANGED <<up, prepay, held, ahead, uncounted, cut>>
      /\ at' = [at EXCEPT ![p] = "closed"] /\ prepaid' = [prepaid EXCEPT ![p] = 0]
      /\ debt' = [debt EXCEPT ![p] = 0]
  BY DEF Saves, Alone, Rename, SaveOver, books
<1>4. \A q \in Peer : at'[q] \in Live /\ ~prepay' => prepaid'[q] = 0
  BY <1>2, <1>3 DEF Exact, Live
<1>5. \A q \in Peer : Believed(q)' = Believed(q) /\ Extra(q)' = Extra(q)
  BY <1>1, <1>2, <1>3 DEF Believed, Extra
<1>6. QED BY <1>1, <1>3, <1>4, <1>5 DEF Exact

LEMMA ExactNext ==
  ASSUME Saves, Exact, [Next]_vars, ~overlapped', ~failed' PROVE Exact'
<1>1. CASE UNCHANGED vars
  <2>1. Disk' = Disk /\ UNCHANGED <<up, prepay, at, map, prepaid, debt, held, ahead, uncounted, cut>>
    BY <1>1 DEF vars, saveVars, Disk, pacer, books
  <2>2. QED BY <2>1 DEF Exact, Believed, Extra, Saving
<1>2. CASE Open
  BY <1>2, OpenExact
<1>3. CASE Stop
  BY <1>3, StopExact
<1>4. CASE Ended
  BY <1>1, <1>4 DEF Ended
<1>5. ASSUME NEW p \in Peer, Connect(p) PROVE Exact'
  BY <1>5, ConnectExact
<1>6. ASSUME NEW p \in Peer, Works(p) PROVE Exact'
  BY <1>6, WorksExact
<1>7. ASSUME NEW p \in Peer, Record(p) PROVE Exact'
  BY <1>7, RecordExact
<1>8. ASSUME NEW p \in Peer, Create(p) \/ Write(p) PROVE Exact'
  BY <1>8, SaveExact
<1>9. ASSUME NEW p \in Peer, Rename(p) PROVE Exact'
  BY <1>9, RenameExact
<1>10. ASSUME NEW p \in Peer, SaveFails(p) PROVE FALSE
  BY <1>10 DEF SaveFails
<1>11. QED
  BY <1>1, <1>2, <1>3, <1>4, <1>5, <1>6, <1>7, <1>8, <1>9, <1>10 DEF Next, Works

\* As long as no two saves met and none failed, the program never takes for
\* its credit what a storer does not hold, and the storer holds exactly that
\* and what the model names: the cheque of a failed stream and the refreshes
\* no mirror counts (run_established, emit, refresh and measure_lambda of
\* schedule.rs, record of peerstate.rs).  So for whatever mix of prepaying and
\* ordinary connections and of process lives, except where a connection died
\* or ended owing, or a crash took its cheques from the ledger.
THEOREM SurplusIsHeld == Spec => []SurplusExact
<1> DEFINE Inv == (~overlapped => Saves) /\ (Undisturbed => Exact)
<1>1. Init => Inv
  BY SavesInit, ExactInit
<1>2. Inv /\ [Next]_vars => Inv'
  BY OverlapSticks, FailSticks, SavesNext, ExactNext DEF Undisturbed
<1>3. Inv => SurplusExact
  <2>1. SUFFICES ASSUME Inv, up, Undisturbed, NEW p \in Peer, p \notin cut
                 PROVE  held[p] = Believed(p) + ahead[p] + uncounted[p]
    BY DEF SurplusExact
  <2>2. Typed /\ held[p] = Believed(p) + Extra(p)
    BY <2>1 DEF Undisturbed, Saves, Exact
  <2>3. ahead[p] \in Nat /\ uncounted[p] \in Nat /\ Believed(p) \in Int
    BY <2>2 DEF Typed, PacerType, BooksType, Believed, Table, Entry
  <2>4. QED BY <2>2, <2>3 DEF Extra
<1>4. QED BY <1>1, <1>2, <1>3, PTL DEF Spec
=============================================================================
