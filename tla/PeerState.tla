----------------------------- MODULE PeerState ------------------------------
(***************************************************************************)
(* The peer memory of ds-net/src/peerstate.rs and its use by a connection  *)
(* of schedule.rs, over several process lives.  A connection starts from   *)
(* what is remembered of its storer, spends and renews the credit the      *)
(* storer holds for this node, and when it closes merges what it learned   *)
(* into the map under the lock, takes a snapshot of the whole map, and     *)
(* writes that outside the lock: to one temporary name for all, which is   *)
(* then renamed over the file.  Two connections that close together        *)
(* interleave there.                                                       *)
(*                                                                         *)
(* A storer's books are its own: it credits a cheque with what it adds to  *)
(* the last one it has, the one of a stream that failed after delivery     *)
(* included, and it accepts refreshes that the program does not count.     *)
(* Every storer has a beneficiary to itself.                               *)
(*                                                                         *)
(* Files are inodes, as the kernel sees them: names (path, tmp) point to   *)
(* them, and a handle keeps its inode when the name moves on.  The service *)
(* rate and the time of the last clean close are left out: they are merged *)
(* like the latency and only rank storers.                                 *)
(***************************************************************************)
EXTENDS Integers, FiniteSets

CONSTANTS
    Peer,          \* storers, one connection each
    Thresholds,    \* what a storer may announce
    Latencies,     \* measured validation latencies
    MaxPrepaid,    \* bound on what a connection prepays
    MaxDebt,       \* bound on a connection's debt
    MaxAccept,     \* bound on what a storer accepts of a refresh
    MaxSpends,     \* bound on the payments, refreshes and purchases of all lives
    MaxConns,      \* bound on the connections of all lives
    MaxLives, MaxFails

ASSUME PeerStateAssumption ==
    /\ IsFiniteSet(Peer)
    /\ Thresholds \subseteq Nat \ {0} /\ Latencies \subseteq Nat \ {0}
    /\ MaxPrepaid \in Nat /\ MaxDebt \in Nat /\ MaxAccept \in Nat /\ MaxSpends \in Nat
    /\ MaxConns \in Nat /\ MaxLives \in Nat /\ MaxFails \in Nat

Unknown == [threshold |-> 0, lambda |-> 0, settled |-> 0, surplus |-> 0]

\* PeerState; latency 0 is None.
Entry == [threshold : Nat, lambda : Nat, settled : Nat, surplus : Nat]

Empty == [p \in Peer |-> Unknown]
Inode == 1..(Cardinality(Peer) + 2)
NoFile == 0

VARIABLES
    up,          \* the process runs
    prepay,      \* its prepay option
    at,          \* the stage of each connection
    map,         \* PeerStateStore.map
    prepaid, debt, settled,   \* the pacer and its mirror
    snap, fd,    \* the snapshot and the handle of a save
    content,     \* what each inode holds
    mixed,       \* inodes two saves wrote into at once
    path, tmp,   \* the file names
    spends, conns, lives, fails   \* counters of the bounds

VARIABLES          \* ground truth and history
    held,        \* what each storer's accounting holds for this node
    ahead,       \* by how much its last cheque exceeds the ledger's
    uncounted,   \* refreshes it accepted and no mirror was credited with
    cut,         \* storers whose connection died with the process or ended
                 \* owing, or whose cheques a crash took from the ledger
    overlapped,  \* two saves met
    failed       \* some save failed

saveVars == <<snap, fd, content, mixed, path, tmp>>
bounds   == <<spends, conns, lives, fails>>
pacer    == <<prepaid, debt, settled>>
books    == <<held, ahead, uncounted>>
vars     == <<up, prepay, at, map, pacer, saveVars, bounds, books, cut, overlapped, failed>>

\* build and probe are those of the latency measurement, open is the loop.
Stages == {"closed", "build", "probe", "open", "create", "write", "rename"}

\* open: the file's rows; a missing, empty or unreadable row is a peer unknown.
Disk == IF path = NoFile THEN Empty ELSE content[path]

Init ==
    /\ up = FALSE /\ prepay = FALSE /\ at = [p \in Peer |-> "closed"]
    /\ map = Empty
    /\ prepaid = [p \in Peer |-> 0] /\ debt = [p \in Peer |-> 0] /\ settled = [p \in Peer |-> 0]
    /\ snap = [p \in Peer |-> Empty] /\ fd = [p \in Peer |-> NoFile]
    /\ content = [n \in Inode |-> Empty] /\ mixed = {}
    /\ path = NoFile /\ tmp = NoFile
    /\ spends = 0 /\ conns = 0 /\ lives = 0 /\ fails = 0
    /\ held = [p \in Peer |-> 0] /\ ahead = [p \in Peer |-> 0]
    /\ uncounted = [p \in Peer |-> 0] /\ cut = {}
    /\ overlapped = FALSE /\ failed = FALSE

-----------------------------------------------------------------------------
\* PeerStateStore::open.  Of a file two saves wrote into any row may be lost.
Open ==
    /\ ~up /\ lives < MaxLives
    /\ up' = TRUE /\ prepay' \in BOOLEAN /\ lives' = lives + 1
    /\ IF path \in mixed
       THEN \E lost \in SUBSET Peer :
               map' = [p \in Peer |-> IF p \in lost THEN Unknown ELSE Disk[p]]
       ELSE map' = Disk
    /\ UNCHANGED <<at, pacer, saveVars, spends, conns, fails, books, cut, overlapped, failed>>

\* The pacer of a prepaying connection resumes the remembered surplus; one
\* that does not prepay may first measure a latency it does not know.
Connect(p) ==
    /\ up /\ at[p] = "closed" /\ conns < MaxConns
    /\ conns' = conns + 1
    /\ \E first \in {"open"} \cup (IF ~prepay /\ map[p].lambda = 0 THEN {"build"} ELSE {}) :
          at' = [at EXCEPT ![p] = first]
    /\ prepaid' = [prepaid EXCEPT ![p] = IF prepay THEN map[p].surplus ELSE 0]
    /\ debt' = [debt EXCEPT ![p] = 0] /\ settled' = [settled EXCEPT ![p] = 0]
    /\ UNCHANGED <<up, prepay, map, saveVars, spends, lives, fails, books, cut, overlapped, failed>>

\* A chunk: the storer takes its price from the credit it holds first.
Consume(p) ==
    /\ at[p] \in {"build", "open"} /\ spends < MaxSpends /\ debt[p] < MaxDebt
    /\ spends' = spends + 1
    /\ debt' = [debt EXCEPT ![p] = @ + 1] /\ held' = [held EXCEPT ![p] = @ - 1]
    /\ UNCHANGED <<up, prepay, at, map, prepaid, settled, saveVars, conns, lives, fails>>
    /\ UNCHANGED <<ahead, uncounted, cut, overlapped, failed>>

\* What a cheque of n units adds for a storer that has one ahead of the ledger.
Gained(p, n) == IF n > ahead[p] THEN n - ahead[p] ELSE 0

Unpaid(p) == IF debt[p] > prepaid[p] THEN debt[p] - prepaid[p] ELSE 0

\* A cheque for what is owed, all of it when the measurement sweeps; debt of
\* retrievals that end meanwhile is left.
Owed(p) == IF at[p] = "build" THEN {debt[p]} \ {0} ELSE 1..Unpaid(p)

\* A cheque goes through: the ledger is level with the storer again, or nearer.
Recorded(p, n) ==
    /\ settled' = [settled EXCEPT ![p] = @ + n]
    /\ held' = [held EXCEPT ![p] = @ + Gained(p, n)]
    /\ ahead' = [ahead EXCEPT ![p] = IF n > @ THEN 0 ELSE @ - n]
    /\ UNCHANGED uncounted

emit(p) ==
    /\ at[p] \in {"build", "open"} /\ spends < MaxSpends /\ spends' = spends + 1
    /\ \E n \in Owed(p) : debt' = [debt EXCEPT ![p] = @ - n] /\ Recorded(p, n)
    /\ at' = [at EXCEPT ![p] = IF @ = "build" THEN "probe" ELSE @]
    /\ UNCHANGED <<up, prepay, map, prepaid, saveVars, conns, lives, fails, cut, overlapped, failed>>

emit_prepay(p) ==
    /\ at[p] = "open" /\ prepay /\ spends < MaxSpends /\ spends' = spends + 1
    /\ \E n \in 1..(MaxPrepaid - prepaid[p]) :
          prepaid' = [prepaid EXCEPT ![p] = @ + n] /\ Recorded(p, n)
    /\ UNCHANGED <<up, prepay, at, map, debt, saveVars, conns, lives, fails, cut, overlapped, failed>>

\* The stream fails after the storer has the cheque: neither the ledger nor
\* the pacer knows of it.  A measurement is given up.
DeliveredOnly(p) ==
    /\ at[p] \in {"build", "open"} /\ spends < MaxSpends /\ spends' = spends + 1
    /\ \E n \in Owed(p) \cup (IF prepay THEN 1..(MaxPrepaid - prepaid[p]) ELSE {}) :
          /\ held' = [held EXCEPT ![p] = @ + Gained(p, n)]
          /\ ahead' = [ahead EXCEPT ![p] = IF n > @ THEN n ELSE @]
    /\ at' = [at EXCEPT ![p] = "open"]
    /\ UNCHANGED <<up, prepay, map, pacer, saveVars, conns, lives, fails>>
    /\ UNCHANGED <<uncounted, cut, overlapped, failed>>

\* The storer says what it accepts, also for chunks the mirror does not have
\* yet; the credit saturates.
refresh(p) ==
    /\ at[p] = "open" /\ Unpaid(p) > 0 /\ spends < MaxSpends /\ spends' = spends + 1
    /\ \E n \in 1..MaxAccept :
          /\ debt' = [debt EXCEPT ![p] = IF n > @ THEN 0 ELSE @ - n]
          /\ settled' = [settled EXCEPT ![p] = @ + n]
          /\ held' = [held EXCEPT ![p] = @ + n]
          /\ uncounted' = [uncounted EXCEPT ![p] = @ + IF n > debt[p] THEN n - debt[p] ELSE 0]
    /\ UNCHANGED <<up, prepay, at, map, prepaid, saveVars, conns, lives, fails>>
    /\ UNCHANGED <<ahead, cut, overlapped, failed>>

\* A probe of the measurement, while the storer has not validated the sweep:
\* what it accepts is settled, but the mirror was credited with the cheque.
Probe(p) ==
    /\ at[p] = "probe" /\ spends < MaxSpends /\ spends' = spends + 1
    /\ \E n \in 1..MaxAccept :
          /\ settled' = [settled EXCEPT ![p] = @ + n]
          /\ held' = [held EXCEPT ![p] = @ + n]
          /\ uncounted' = [uncounted EXCEPT ![p] = @ + n]
    /\ UNCHANGED <<up, prepay, at, map, prepaid, debt, saveVars, conns, lives, fails>>
    /\ UNCHANGED <<ahead, cut, overlapped, failed>>

\* The measurement ends, or gives up.
Measured(p) ==
    /\ at[p] \in {"build", "probe"} /\ at' = [at EXCEPT ![p] = "open"]
    /\ UNCHANGED <<up, prepay, map, pacer, saveVars, bounds, books, cut, overlapped, failed>>

Parked(p) == IF prepaid[p] > debt[p] THEN prepaid[p] - debt[p] ELSE 0

\* Mutant: the surplus is added to the remembered one, which it contains.
MergedTwice(p, threshold, lambda) ==
    [threshold |-> IF threshold > map[p].threshold THEN threshold ELSE map[p].threshold,
     lambda    |-> IF lambda # 0 THEN lambda ELSE map[p].lambda,
     settled   |-> map[p].settled + settled[p],
     surplus   |-> IF prepay THEN map[p].surplus + Parked(p) ELSE map[p].surplus]

\* Mutant: the latency is overwritten when none was measured.
MergedForgetful(p, threshold, lambda) ==
    [threshold |-> IF threshold > map[p].threshold THEN threshold ELSE map[p].threshold,
     lambda    |-> lambda,
     settled   |-> map[p].settled + settled[p],
     surplus   |-> IF prepay THEN Parked(p) ELSE map[p].surplus]

\* record, under the lock: highest threshold, latest latency if one was
\* measured, sum of what was settled, surplus as an absolute value and only
\* from a prepaying connection.
Merged(p, threshold, lambda) ==
    [threshold |-> IF threshold > map[p].threshold THEN threshold ELSE map[p].threshold,
     lambda    |-> IF lambda # 0 THEN lambda ELSE map[p].lambda,
     settled   |-> map[p].settled + settled[p],
     surplus   |-> IF prepay THEN Parked(p) ELSE map[p].surplus]

Saving(p) == at[p] \in {"create", "write", "rename"}

\* A connection that owes nothing asks the storer to confirm it, with a
\* refresh whose acceptance nobody counts.  Then the merge and the snapshot of
\* the whole map, under one lock.
Record(p) ==
    /\ at[p] = "open"
    /\ \E n \in IF Unpaid(p) = 0 /\ spends < MaxSpends THEN 0..MaxAccept ELSE {0} :
          /\ spends' = spends + (IF n > 0 THEN 1 ELSE 0)
          /\ held' = [held EXCEPT ![p] = @ + n]
          /\ uncounted' = [uncounted EXCEPT ![p] = @ + n]
    /\ \E t \in Thresholds,
          l \in {0} \cup (IF ~prepay /\ map[p].lambda = 0 THEN Latencies ELSE {}) :
          map' = [map EXCEPT ![p] = Merged(p, t, l)]
    /\ snap' = [snap EXCEPT ![p] = map']
    /\ at' = [at EXCEPT ![p] = "create"]
    /\ overlapped' = (overlapped \/ \E q \in Peer : Saving(q))
    /\ cut' = IF Unpaid(p) > 0 THEN cut \cup {p} ELSE cut
    /\ UNCHANGED <<up, prepay, pacer, fd, content, mixed, path, tmp, conns, lives, fails>>
    /\ UNCHANGED <<ahead, failed>>

\* save: File::create truncates the temporary file or makes a new inode ...
Free(n) == n # path /\ n # tmp /\ \A q \in Peer : fd[q] # n

Create(p) ==
    /\ at[p] = "create"
    /\ LET n == IF tmp # NoFile THEN tmp ELSE CHOOSE m \in Inode : Free(m)
       IN  /\ tmp' = n /\ fd' = [fd EXCEPT ![p] = n]
           /\ content' = [content EXCEPT ![n] = Empty] /\ mixed' = mixed \ {n}
    /\ at' = [at EXCEPT ![p] = "write"]
    /\ UNCHANGED <<up, prepay, map, pacer, snap, path, bounds, books, cut, overlapped, failed>>

\* ... the rows are written through the handle and synced ...
Write(p) ==
    /\ at[p] = "write"
    /\ content' = [content EXCEPT ![fd[p]] = snap[p]]
    /\ mixed' = IF \E q \in Peer \ {p} : fd[q] = fd[p] THEN mixed \cup {fd[p]} ELSE mixed
    /\ at' = [at EXCEPT ![p] = "rename"]
    /\ UNCHANGED <<up, prepay, map, pacer, snap, fd, path, tmp, bounds, books, cut, overlapped, failed>>

\* ... and the name is moved; when another save has moved it, the rename
\* fails.  The result of a save is ignored.
SaveOver(p) ==
    /\ at' = [at EXCEPT ![p] = "closed"]
    /\ fd' = [fd EXCEPT ![p] = NoFile] /\ snap' = [snap EXCEPT ![p] = Empty]
    /\ prepaid' = [prepaid EXCEPT ![p] = 0] /\ debt' = [debt EXCEPT ![p] = 0]
    /\ settled' = [settled EXCEPT ![p] = 0]
    /\ UNCHANGED <<up, prepay, map, spends, conns, lives, books, cut, overlapped>>

Rename(p) ==
    /\ at[p] = "rename"
    /\ IF tmp # NoFile
       THEN /\ path' = tmp /\ tmp' = NoFile
            /\ content' = [n \in Inode |-> IF n = path THEN Empty ELSE content[n]]
            /\ mixed' = mixed \ {path}
            /\ UNCHANGED failed
       ELSE failed' = TRUE /\ UNCHANGED <<path, tmp, content, mixed>>
    /\ SaveOver(p)
    /\ UNCHANGED fails

SaveFails(p) ==
    /\ Saving(p) /\ fails < MaxFails /\ fails' = fails + 1
    /\ failed' = TRUE /\ SaveOver(p)
    /\ UNCHANGED <<path, tmp, content, mixed>>

\* The process ends, or dies with connections open and perhaps with cheques
\* the ledger has not written.
Stop ==
    /\ up /\ up' = FALSE
    /\ at' = [p \in Peer |-> "closed"]
    /\ fd' = [p \in Peer |-> NoFile] /\ snap' = [p \in Peer |-> Empty]
    /\ prepaid' = [p \in Peer |-> 0] /\ debt' = [p \in Peer |-> 0]
    /\ settled' = [p \in Peer |-> 0]
    /\ map' = Empty /\ prepay' = FALSE
    /\ \E unwritten \in SUBSET {p \in Peer : map[p].settled > 0} :
          cut' = cut \cup unwritten \cup {p \in Peer : at[p] # "closed"}
    /\ UNCHANGED <<content, mixed, path, tmp, bounds, books, overlapped, failed>>

Ended == ~up /\ lives = MaxLives /\ UNCHANGED vars

Next == \/ Open \/ Stop \/ Ended
        \/ \E p \in Peer : \/ Connect(p) \/ Consume(p) \/ emit(p) \/ emit_prepay(p)
                           \/ DeliveredOnly(p) \/ refresh(p) \/ Probe(p) \/ Measured(p)
                           \/ Record(p)
                           \/ Create(p) \/ Write(p) \/ Rename(p) \/ SaveFails(p)

Spec == Init /\ [][Next]_vars

-----------------------------------------------------------------------------
\* Every variable has its type; a save holds a handle from its create to its
\* rename, and only a running process has connections.
TypeOK ==
    /\ up \in BOOLEAN /\ at \in [Peer -> Stages]
    /\ ~up => \A p \in Peer : at[p] = "closed"
    /\ map \in [Peer -> Entry] /\ snap \in [Peer -> [Peer -> Entry]]
    /\ prepay \in BOOLEAN /\ prepaid \in [Peer -> Nat] /\ debt \in [Peer -> Nat]
    /\ settled \in [Peer -> Nat] /\ held \in [Peer -> Int]
    /\ ahead \in [Peer -> Nat] /\ uncounted \in [Peer -> Nat]
    /\ fd \in [Peer -> Inode \cup {NoFile}]
    /\ \A p \in Peer : fd[p] # NoFile <=> at[p] \in {"write", "rename"}
    /\ content \in [Inode -> [Peer -> Entry]] /\ mixed \subseteq Inode
    /\ path \in Inode \cup {NoFile} /\ tmp \in Inode \cup {NoFile}
    /\ spends \in 0..MaxSpends /\ conns \in 0..MaxConns /\ lives \in 0..MaxLives /\ fails \in 0..MaxFails
    /\ cut \subseteq Peer /\ overlapped \in BOOLEAN /\ failed \in BOOLEAN

Undisturbed == ~overlapped /\ ~failed

\* What the program takes for its credit with a storer.
Believed(p) ==
    IF at[p] \notin {"build", "probe", "open"} THEN map[p].surplus
    ELSE (IF prepay THEN prepaid[p] ELSE map[p].surplus) - debt[p]

\* The program never believes it has credit the storer does not hold, so a
\* reconnect spends nothing it does not have; and the storer holds no more
\* than that, save the cheque it has ahead of the ledger and the refreshes no
\* mirror was credited with.  So across connections that prepay and that do
\* not, lives and saves in progress; except where the process died with the
\* connection open or its cheques unwritten, it ended owing, saves met or one
\* failed.
SurplusExact ==
    up /\ Undisturbed => \A p \in Peer \ cut : held[p] = Believed(p) + ahead[p] + uncounted[p]

\* What was learned is not forgotten: on disk a threshold never shrinks, a
\* measured latency never becomes unknown and the settled total never goes
\* back, crashes at any step included, as long as no two saves met.
DiskLearns ==
    [][~overlapped' => \A p \in Peer :
          /\ Disk[p].threshold <= Disk'[p].threshold
          /\ Disk[p].lambda # 0 => Disk'[p].lambda # 0
          /\ Disk[p].settled <= Disk'[p].settled]_vars
=============================================================================
