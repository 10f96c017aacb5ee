----------------------------- MODULE ChequeLedger -----------------------------
(***************************************************************************)
(* The outbound cheque ledger of ds-net/src/ledger.rs (FastLedger): a map  *)
(* from beneficiary to the cumulative amount promised to it, authoritative *)
(* in memory, and rewritten to one file by a background persister and by   *)
(* the flush at run end.  Both writers build the new file under the same   *)
(* temporary name and rename it over the ledger, so files are modelled as  *)
(* the kernel sees them: names (path, tmp) that point to inodes, and open  *)
(* handles that keep pointing to an inode after it was renamed.            *)
(*                                                                         *)
(* The process may crash at any step and start again from the file.  A     *)
(* cheque is recorded only after it was written to the wire.               *)
(***************************************************************************)
EXTENDS Naturals, FiniteSets

CONSTANTS
    Peer,        \* beneficiaries
    MaxCum,      \* bound on the cumulative of one beneficiary
    MaxRuns,     \* bound on the number of process starts
    MaxFails     \* bound on the number of failing file operations

ASSUME LedgerAssumption ==
    /\ Peer # {}
    /\ MaxCum \in Nat /\ MaxRuns \in Nat /\ MaxFails \in Nat

Writer == {"tick", "flush"}      \* the persister and FastLedger::flush
Inode == 1..4
NoFile == 0
Amounts == [Peer -> Nat]
Zero == [p \in Peer |-> 0]

VARIABLES
    proc,        \* up, flush (run end), ended, down
    emit,        \* per beneficiary: idle, sent (on the wire), inserted
    sent,        \* highest cumulative put on the wire, ever
    mem,         \* FastLedger.map
    dirty,       \* FastLedger.dirty
    at,          \* where each writer is: idle, taken, create, write, rename
    snap,        \* the snapshot each writer carries
    fd,          \* the inode each writer has open
    content,     \* the ledger written to each inode
    blank,       \* inodes created or truncated and not yet written
    path, tmp,   \* the inodes the two file names point to
    flushOk,     \* whether the last flush returned Ok
    runs, fails  \* counters of the bounds

VARIABLE overlapped  \* history: some final flush met a rewrite of the persister

fileVars == <<content, blank, path, tmp>>
writerVars == <<at, snap, fd>>
vars == <<proc, emit, sent, mem, dirty, writerVars, fileVars, flushOk, runs, fails,
          overlapped>>

\* load_map: a missing or empty file is an empty ledger.
Load(ino) == IF ino = NoFile \/ ino \in blank THEN Zero ELSE content[ino]

Disk == Load(path)

-----------------------------------------------------------------------------
Init ==
    /\ proc = "up"
    /\ emit = [p \in Peer |-> "idle"]
    /\ sent = Zero /\ mem = Zero
    /\ dirty = FALSE
    /\ at = [w \in Writer |-> "idle"]
    /\ snap = [w \in Writer |-> Zero]
    /\ fd = [w \in Writer |-> NoFile]
    /\ content = [n \in Inode |-> Zero] /\ blank = {}
    /\ path = NoFile /\ tmp = NoFile
    /\ flushOk = FALSE
    /\ runs = 1 /\ fails = 0
    /\ overlapped = FALSE

-----------------------------------------------------------------------------
(* emit_settlement_cheque, as the ledger sees it.                          *)

Higher(a, b) == IF a > b THEN a ELSE b

\* The cheque for the next cumulative goes out.
Send(p) ==
    /\ proc = "up"
    /\ emit[p] = "idle"
    /\ mem[p] < MaxCum
    /\ sent' = [sent EXCEPT ![p] = Higher(@, mem[p] + 1)]
    /\ emit' = [emit EXCEPT ![p] = "sent"]
    /\ UNCHANGED <<proc, mem, dirty, writerVars, fileVars, flushOk, runs, fails, overlapped>>

\* The stream failed after the frame may have left: an error, no record.
SendFailed(p) ==
    /\ emit[p] = "sent"
    /\ emit' = [emit EXCEPT ![p] = "idle"]
    /\ UNCHANGED <<proc, sent, mem, dirty, writerVars, fileVars, flushOk, runs, fails, overlapped>>

\* record_issued: the insert under the lock ...
Insert(p) ==
    /\ emit[p] = "sent"
    /\ mem' = [mem EXCEPT ![p] = @ + 1]
    /\ emit' = [emit EXCEPT ![p] = "inserted"]
    /\ UNCHANGED <<proc, sent, dirty, writerVars, fileVars, flushOk, runs, fails, overlapped>>

\* Mutant: the mark is lost while a rewrite is under way.
MarkWhenIdle(p) ==
    /\ emit[p] = "inserted"
    /\ dirty' = (dirty \/ at["tick"] = "idle")
    /\ emit' = [emit EXCEPT ![p] = "idle"]
    /\ UNCHANGED <<proc, sent, mem, writerVars, fileVars, flushOk, runs, fails, overlapped>>

\* ... and then the dirty mark.
Mark(p) ==
    /\ emit[p] = "inserted"
    /\ dirty' = TRUE
    /\ emit' = [emit EXCEPT ![p] = "idle"]
    /\ UNCHANGED <<proc, sent, mem, writerVars, fileVars, flushOk, runs, fails, overlapped>>

-----------------------------------------------------------------------------
(* The persister's tick, and the flush at run end.                         *)

\* Mutant: a failed rewrite ends the persister's loop.
SwapUntilError ==
    /\ proc \in {"up", "flush"}
    /\ at["tick"] = "idle" /\ fails = 0
    /\ dirty
    /\ dirty' = FALSE
    /\ at' = [at EXCEPT !["tick"] = "taken"]
    /\ UNCHANGED <<proc, emit, sent, mem, snap, fd, fileVars, flushOk, runs, fails, overlapped>>

\* dirty.swap(false) returned true.
Swap ==
    /\ proc \in {"up", "flush"}
    /\ at["tick"] = "idle"
    /\ dirty
    /\ dirty' = FALSE
    /\ at' = [at EXCEPT !["tick"] = "taken"]
    /\ UNCHANGED <<proc, emit, sent, mem, snap, fd, fileVars, flushOk, runs, fails, overlapped>>

\* Every connection was joined, so no cheque is half recorded; nothing waits
\* for a rewrite the persister has started.
StartFlush ==
    /\ proc = "up"
    /\ \A p \in Peer : emit[p] = "idle"
    /\ proc' = "flush"
    /\ overlapped' = (overlapped \/ at["tick"] # "idle")
    /\ dirty' = FALSE
    /\ at' = [at EXCEPT !["flush"] = "taken"]
    /\ UNCHANGED <<emit, sent, mem, snap, fd, fileVars, flushOk, runs, fails>>

Snapshot(w) ==
    /\ at[w] = "taken"
    /\ snap' = [snap EXCEPT ![w] = mem]
    /\ at' = [at EXCEPT ![w] = "create"]
    /\ UNCHANGED <<proc, emit, sent, mem, dirty, fd, fileVars, flushOk, runs, fails, overlapped>>

-----------------------------------------------------------------------------
(* persist_map.                                                            *)

\* The result of persist_map: the persister marks the ledger dirty again on
\* an error; an error of the flush is only logged.
Return(w, ok) ==
    /\ at' = [at EXCEPT ![w] = "idle"]
    /\ dirty' = IF w = "tick" /\ ~ok THEN TRUE ELSE dirty
    /\ flushOk' = IF w = "flush" THEN ok ELSE flushOk
    /\ proc' = IF w = "flush" THEN "ended" ELSE proc

\* The lowest inode that no name and no handle refers to.
Free(n) == n # path /\ \A v \in Writer : fd[v] # n
NextFree(n) == Free(n) /\ \A m \in Inode : Free(m) => n <= m

\* File::create truncates an existing temporary file, or makes a new inode.
Create(w) ==
    /\ at[w] = "create"
    /\ \E n \in Inode :
          /\ IF tmp # NoFile THEN n = tmp ELSE NextFree(n)
          /\ tmp' = n
          /\ fd' = [fd EXCEPT ![w] = n]
          /\ blank' = blank \cup {n}
    /\ at' = [at EXCEPT ![w] = "write"]
    /\ UNCHANGED <<proc, emit, sent, mem, dirty, snap, content, path, flushOk, runs, fails, overlapped>>

\* write_all and sync_all, on the open handle.
Write(w) ==
    /\ at[w] = "write"
    /\ content' = [content EXCEPT ![fd[w]] = snap[w]]
    /\ blank' = blank \ {fd[w]}
    /\ at' = [at EXCEPT ![w] = "rename"]
    /\ UNCHANGED <<proc, emit, sent, mem, dirty, snap, fd, path, tmp, flushOk, runs, fails, overlapped>>

\* rename works on names: whatever inode has the temporary name now becomes
\* the ledger; if the name is gone the call fails.
Rename(w) ==
    /\ at[w] = "rename"
    /\ \/ /\ tmp # NoFile
          /\ path' = tmp /\ tmp' = NoFile
          /\ Return(w, TRUE)
       \/ /\ tmp = NoFile
          /\ UNCHANGED <<path, tmp>>
          /\ Return(w, FALSE)
    /\ fd' = [fd EXCEPT ![w] = NoFile]
    /\ snap' = [snap EXCEPT ![w] = Zero]
    /\ UNCHANGED <<emit, sent, mem, content, blank, runs, fails, overlapped>>

\* Mutant: the flush takes a file error for success.
IoErrorSwallowed(w) ==
    /\ at[w] \in {"create", "write", "rename"}
    /\ fails < MaxFails
    /\ fails' = fails + 1
    /\ Return(w, w = "flush")
    /\ fd' = [fd EXCEPT ![w] = NoFile]
    /\ snap' = [snap EXCEPT ![w] = Zero]
    /\ UNCHANGED <<emit, sent, mem, fileVars, runs, overlapped>>

\* A file operation fails.
IoError(w) ==
    /\ at[w] \in {"create", "write", "rename"}
    /\ fails < MaxFails
    /\ fails' = fails + 1
    /\ Return(w, FALSE)
    /\ fd' = [fd EXCEPT ![w] = NoFile]
    /\ snap' = [snap EXCEPT ![w] = Zero]
    /\ UNCHANGED <<emit, sent, mem, fileVars, runs, overlapped>>

-----------------------------------------------------------------------------
(* The process.                                                            *)

Crash ==
    /\ proc # "down"
    /\ proc' = "down"
    /\ emit' = [p \in Peer |-> "idle"]
    /\ at' = [w \in Writer |-> "idle"]
    /\ fd' = [w \in Writer |-> NoFile]
    /\ snap' = [w \in Writer |-> Zero]
    /\ UNCHANGED <<sent, mem, dirty, fileVars, flushOk, runs, fails, overlapped>>

\* Mutant: the run starts from an empty, dirty ledger.
OpenEmpty ==
    /\ proc \in {"ended", "down"}
    /\ \A w \in Writer : at[w] = "idle"
    /\ runs < MaxRuns
    /\ runs' = runs + 1
    /\ proc' = "up"
    /\ mem' = Zero
    /\ dirty' = TRUE
    /\ flushOk' = FALSE
    /\ UNCHANGED <<emit, sent, writerVars, fileVars, fails, overlapped>>

\* FastLedger::open; after a normal end, when the last rewrite is through.
Open ==
    /\ proc \in {"ended", "down"}
    /\ \A w \in Writer : at[w] = "idle"
    /\ runs < MaxRuns
    /\ runs' = runs + 1
    /\ proc' = "up"
    /\ mem' = Disk
    /\ dirty' = FALSE
    /\ flushOk' = FALSE
    /\ UNCHANGED <<emit, sent, writerVars, fileVars, fails, overlapped>>

-----------------------------------------------------------------------------
Emission(p) == Send(p) \/ SendFailed(p) \/ Insert(p) \/ Mark(p)

Persist(w) == Snapshot(w) \/ Create(w) \/ Write(w) \/ Rename(w) \/ IoError(w)

Next == \/ \E p \in Peer : Emission(p)
        \/ Swap \/ StartFlush
        \/ \E w \in Writer : Persist(w)
        \/ Crash \/ Open

Spec == Init /\ [][Next]_vars

(* The persister ticks every 200 ms, a rewrite that was started ends, and a *)
(* cheque on the wire is recorded or fails.                                 *)
FairSpec == /\ Spec
            /\ WF_vars(Swap)
            /\ \A w \in Writer : WF_vars(Persist(w))
            /\ \A p \in Peer : WF_vars(SendFailed(p) \/ Insert(p) \/ Mark(p))

-----------------------------------------------------------------------------
(* Properties.                                                             *)

\* Fields have the code's types, a writer has a file open exactly between
\* its create and its rename, and flush writes only at the end of a run.
TypeOK ==
    /\ proc \in {"up", "flush", "ended", "down"}
    /\ emit \in [Peer -> {"idle", "sent", "inserted"}]
    /\ sent \in Amounts /\ mem \in Amounts
    /\ dirty \in BOOLEAN /\ flushOk \in BOOLEAN
    /\ at \in [Writer -> {"idle", "taken", "create", "write", "rename"}]
    /\ snap \in [Writer -> Amounts]
    /\ fd \in [Writer -> Inode \cup {NoFile}]
    /\ \A w \in Writer : fd[w] # NoFile <=> at[w] \in {"write", "rename"}
    /\ at["flush"] # "idle" => proc = "flush"
    /\ content \in [Inode -> Amounts] /\ blank \subseteq Inode
    /\ path \in Inode \cup {NoFile} /\ tmp \in Inode \cup {NoFile}
    /\ runs \in Nat /\ fails \in Nat /\ overlapped \in BOOLEAN

\* The dirty protocol loses nothing: when no rewrite is under way and the
\* ledger is not marked, the file holds every recorded cheque, whatever
\* records came between the swap, the snapshot and the rename, and whatever
\* rewrites failed.
CleanMeansSaved ==
    (proc = "up" /\ ~dirty /\ at["tick"] = "idle") =>
        \A p \in Peer : emit[p] # "inserted" => Disk[p] = mem[p]

\* "the sweep-at-exit makes the window empty on any clean run": after a
\* flush that returned Ok, once nobody writes, the file is the map, unless
\* some flush met a rewrite of the persister.
CleanRunPersisted ==
    (proc = "ended" /\ flushOk /\ ~overlapped) => Disk = mem

\* The same without the exception, as ledger.rs states it.
CleanRunAlways ==
    (proc = "ended" /\ flushOk /\ at["tick"] = "idle") => Disk = mem

\* "atomically rewrite": the ledger's name never points to a file that was
\* created and not yet written, so a crash at any step leaves a ledger, as
\* long as the two writers, which share the temporary name, did not meet.
NeverTorn == ~overlapped => path \notin blank

\* As long as they did not, the persisted cumulative never goes back and is
\* never ahead of what was put on the wire, crashes and restarts included.
DiskMonotone ==
    [][~overlapped' => \A p \in Peer : Disk[p] <= Disk'[p] /\ Disk'[p] <= sent'[p]]_vars

\* "the persister writes within ~200 ms": a recorded cheque reaches the file
\* unless the run ends or the process dies first.
EventuallySaved ==
    \A p \in Peer : \A c \in 1..MaxCum :
        (proc = "up" /\ mem[p] = c) ~> (proc # "up" \/ Disk[p] >= c)
=============================================================================
