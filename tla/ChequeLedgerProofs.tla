-------------------------- MODULE ChequeLedgerProofs --------------------------
(***************************************************************************)
(* Invariance proofs for ChequeLedger, for any set of beneficiaries and    *)
(* any number of cheques, restarts and failing file operations: types, the *)
(* dirty protocol (with or without overlapping writers), and, when the     *)
(* final flush does not overlap the persister, the atomicity of the        *)
(* rewrite, the saved ledger of a clean run and a file that never goes     *)
(* back.                                                                   *)
(***************************************************************************)
EXTENDS ChequeLedger, TLAPS

-----------------------------------------------------------------------------
(* Types.                                                                  *)

LEMMA ZeroType == Zero \in Amounts
  BY DEF Zero, Amounts

LEMMA DiskType == TypeOK => Disk \in Amounts
  BY ZeroType DEF TypeOK, Disk, Load, Inode, NoFile

LEMMA TypeInit == Init => TypeOK
<1> SUFFICES ASSUME Init PROVE TypeOK
  OBVIOUS
<1>1. /\ snap \in [Writer -> Amounts] /\ content \in [Inode -> Amounts]
      /\ sent \in Amounts /\ mem \in Amounts
  BY ZeroType DEF Init
<1>2. /\ at \in [Writer -> {"idle", "taken", "create", "write", "rename"}]
      /\ fd \in [Writer -> Inode \cup {NoFile}]
      /\ \A w \in Writer : fd[w] # NoFile <=> at[w] \in {"write", "rename"}
      /\ at["flush"] = "idle"
  BY DEF Init, Writer
<1>3. /\ proc \in {"up", "flush", "ended", "down"}
      /\ emit \in [Peer -> {"idle", "sent", "inserted"}]
      /\ dirty \in BOOLEAN /\ flushOk \in BOOLEAN
      /\ blank \subseteq Inode
      /\ path \in Inode \cup {NoFile} /\ tmp \in Inode \cup {NoFile}
      /\ runs \in Nat /\ fails \in Nat /\ overlapped \in BOOLEAN
  BY DEF Init
<1>4. QED BY <1>1, <1>2, <1>3 DEF TypeOK

LEMMA TypeNext == TypeOK /\ [Next]_vars => TypeOK'
<1> SUFFICES ASSUME TypeOK, [Next]_vars PROVE TypeOK'
  OBVIOUS
<1> DEFINE WritersOK ==
      /\ at \in [Writer -> {"idle", "taken", "create", "write", "rename"}]
      /\ fd \in [Writer -> Inode \cup {NoFile}]
      /\ \A v \in Writer : fd[v] # NoFile <=> at[v] \in {"write", "rename"}
      /\ at["flush"] # "idle" => proc = "flush"
<1> USE DEF TypeOK, writerVars, fileVars
<1>1. ASSUME NEW p \in Peer, Emission(p) PROVE TypeOK'
  <2>1. CASE Send(p)
    BY <2>1 DEF Send, Higher, Amounts
  <2>2. CASE SendFailed(p)
    BY <2>2 DEF SendFailed
  <2>3. CASE Insert(p)
    BY <2>3 DEF Insert, Amounts
  <2>4. CASE Mark(p)
    BY <2>4 DEF Mark
  <2>5. QED BY <1>1, <2>1, <2>2, <2>3, <2>4 DEF Emission
<1>2. CASE Swap
  <2>1. WritersOK'
    BY <1>2 DEF Swap, Writer
  <2>2. QED BY <1>2, <2>1 DEF Swap
<1>3. CASE StartFlush
  <2>1. at["flush"] = "idle" /\ at' = [at EXCEPT !["flush"] = "taken"] /\ fd' = fd /\ proc' = "flush"
    BY <1>3 DEF StartFlush
  <2>2. WritersOK'
    BY <2>1 DEF Writer
  <2>3. QED BY <1>3, <2>2 DEF StartFlush
<1>4. ASSUME NEW w \in Writer, Persist(w) PROVE TypeOK'
  <2>1. CASE Snapshot(w)
    <3>1. WritersOK'
      BY <2>1 DEF Snapshot, Writer
    <3>2. QED BY <2>1, <3>1 DEF Snapshot
  <2>2. CASE Create(w)
    <3>1. WritersOK'
      BY <2>2 DEF Create, Inode, NoFile, Writer
    <3>2. QED BY <2>2, <3>1 DEF Create
  <2>3. CASE Write(w)
    <3>1. WritersOK'
      BY <2>3 DEF Write, Writer
    <3>2. content' \in [Inode -> Amounts] /\ blank' \subseteq Inode
      BY <2>3 DEF Write, Inode, NoFile
    <3>3. QED BY <2>3, <3>1, <3>2 DEF Write
  <2>4. ASSUME NEW ok \in BOOLEAN, Return(w, ok),
               fd' = [fd EXCEPT ![w] = NoFile], snap' = [snap EXCEPT ![w] = Zero]
        PROVE  /\ WritersOK' /\ snap' \in [Writer -> Amounts]
               /\ proc' \in {"up", "flush", "ended", "down"}
               /\ dirty' \in BOOLEAN /\ flushOk' \in BOOLEAN
    <3>1. /\ at' = [at EXCEPT ![w] = "idle"]
          /\ w # "flush" => proc' = proc
      BY <2>4 DEF Return
    <3>2. WritersOK'
      BY <2>4, <3>1 DEF Writer
    <3>3. snap' \in [Writer -> Amounts]
      BY <2>4, ZeroType
    <3>4. proc' \in {"up", "flush", "ended", "down"} /\ dirty' \in BOOLEAN /\ flushOk' \in BOOLEAN
      BY <2>4 DEF Return
    <3>5. QED BY <3>2, <3>3, <3>4
  <2>5. CASE Rename(w)
    <3>1. PICK ok \in BOOLEAN : Return(w, ok)
      BY <2>5 DEF Rename
    <3>2. path' \in Inode \cup {NoFile} /\ tmp' \in Inode \cup {NoFile}
      BY <2>5 DEF Rename
    <3>3. fd' = [fd EXCEPT ![w] = NoFile] /\ snap' = [snap EXCEPT ![w] = Zero]
      BY <2>5 DEF Rename
    <3>4. UNCHANGED <<emit, sent, mem, content, blank, runs, fails, overlapped>>
      BY <2>5 DEF Rename
    <3>5. /\ WritersOK' /\ snap' \in [Writer -> Amounts]
          /\ proc' \in {"up", "flush", "ended", "down"}
          /\ dirty' \in BOOLEAN /\ flushOk' \in BOOLEAN
      BY <2>4, <3>1, <3>3
    <3>6. QED BY <3>2, <3>4, <3>5
  <2>6. CASE IoError(w)
    <3>1. /\ Return(w, FALSE)
          /\ fd' = [fd EXCEPT ![w] = NoFile] /\ snap' = [snap EXCEPT ![w] = Zero]
          /\ fails' = fails + 1
          /\ UNCHANGED <<emit, sent, mem, content, blank, path, tmp, runs, overlapped>>
      BY <2>6 DEF IoError
    <3>2. /\ WritersOK' /\ snap' \in [Writer -> Amounts]
          /\ proc' \in {"up", "flush", "ended", "down"}
          /\ dirty' \in BOOLEAN /\ flushOk' \in BOOLEAN
      BY <2>4, <3>1
    <3>3. QED BY <3>1, <3>2
  <2>7. QED BY <1>4, <2>1, <2>2, <2>3, <2>5, <2>6 DEF Persist
<1>5. CASE Crash
  <2>1. /\ at' = [v \in Writer |-> "idle"] /\ fd' = [v \in Writer |-> NoFile]
        /\ snap' = [v \in Writer |-> Zero]
    BY <1>5 DEF Crash
  <2>2. WritersOK'
    BY <2>1 DEF Writer
  <2>3. snap' \in [Writer -> Amounts]
    BY <2>1, ZeroType
  <2>4. proc' \in {"up", "flush", "ended", "down"} /\ emit' \in [Peer -> {"idle", "sent", "inserted"}]
    BY <1>5 DEF Crash
  <2>5. QED BY <1>5, <2>2, <2>3, <2>4 DEF Crash
<1>6. CASE Open
  <2>1. mem' = Disk /\ at' = at /\ fd' = fd /\ at["flush"] = "idle"
    BY <1>6 DEF Open, Writer
  <2>2. WritersOK' /\ mem' \in Amounts
    BY <2>1, DiskType
  <2>3. /\ proc' = "up" /\ runs' = runs + 1
        /\ UNCHANGED <<emit, sent, snap, content, blank, path, tmp, fails, overlapped>>
    BY <1>6 DEF Open
  <2>4. dirty' \in BOOLEAN /\ flushOk' \in BOOLEAN
    BY <1>6 DEF Open
  <2>5. QED BY <2>2, <2>3, <2>4
<1>7. CASE UNCHANGED vars
  BY <1>7 DEF vars
<1>8. QED BY <1>1, <1>2, <1>3, <1>4, <1>5, <1>6, <1>7 DEF Next

\* Every reachable state of the ledger is well typed.
THEOREM TypeCorrect == Spec => []TypeOK
  BY TypeInit, TypeNext, PTL DEF Spec

-----------------------------------------------------------------------------
(* The dirty protocol.                                                     *)

\* A map that is behind the memory is behind only in entries that are marked
\* or about to be.
Covered(m) == \A p \in Peer : m[p] = mem[p] \/ dirty \/ emit[p] = "inserted"

\* While the run is up only the persister writes: its snapshot, and when it
\* is idle the file, is covered by the marks; the file it renames is the one
\* it wrote.
TickInv ==
    proc = "up" =>
        /\ at["flush"] = "idle"
        /\ at["tick"] = "idle" => Covered(Disk)
        /\ at["tick"] \in {"create", "write", "rename"} => Covered(snap["tick"])
        /\ at["tick"] \in {"write", "rename"} => tmp = fd["tick"]
        /\ at["tick"] = "rename" => /\ content[tmp] = snap["tick"]
                                    /\ tmp \notin blank

LEMMA TickInit == Init => TickInv
  BY DEF Init, TickInv, Covered, Disk, Load, Zero, NoFile, Writer

LEMMA TickNext == TypeOK /\ TickInv /\ [Next]_vars => TickInv'
<1> SUFFICES ASSUME TypeOK, TickInv, [Next]_vars PROVE TickInv'
  OBVIOUS
<1> USE DEF TickInv, Covered, Disk, Load, writerVars, fileVars
<1>1. ASSUME NEW p \in Peer, Emission(p) PROVE TickInv'
  <2>1. CASE Send(p)
    BY <2>1 DEF Send, TypeOK
  <2>2. CASE SendFailed(p)
    BY <2>2 DEF SendFailed, TypeOK
  <2>3. CASE Insert(p)
    BY <2>3 DEF Insert, TypeOK, Amounts
  <2>4. CASE Mark(p)
    BY <2>4 DEF Mark, TypeOK
  <2>5. QED BY <1>1, <2>1, <2>2, <2>3, <2>4 DEF Emission
<1>2. CASE Swap
  BY <1>2 DEF Swap, TypeOK, Writer
<1>3. CASE StartFlush
  BY <1>3 DEF StartFlush
<1>4. ASSUME NEW w \in Writer, Persist(w), proc' = "up" PROVE TickInv'
  <2>0. proc = "up" /\ w = "tick" /\ at[w] # "idle"
    BY <1>4 DEF Persist, Snapshot, Create, Write, Rename, IoError, Return, Writer
  <2>1. CASE Snapshot(w)
    BY <2>0, <2>1 DEF Snapshot, TypeOK, Writer
  <2>2. CASE Create(w)
    BY <2>0, <2>2 DEF Create, TypeOK, Writer
  <2>3. CASE Write(w)
    BY <2>0, <2>3 DEF Write, TypeOK, Writer
  <2>4. CASE Rename(w)
    <3>1. tmp # NoFile
      BY <2>0, <2>4 DEF Rename, TypeOK
    <3>2. path' = tmp /\ content' = content /\ blank' = blank
      BY <2>4, <3>1 DEF Rename
    <3>3. at'["tick"] = "idle" /\ at'["flush"] = "idle" /\ mem' = mem /\ emit' = emit
          /\ dirty' = dirty
      BY <2>0, <2>4, <3>1 DEF Rename, Return, TypeOK, Writer
    <3>4. QED BY <2>0, <2>4, <3>1, <3>2, <3>3 DEF Rename
  <2>5. CASE IoError(w)
    BY <2>0, <2>5 DEF IoError, Return, TypeOK, Writer
  <2>6. QED BY <1>4, <2>1, <2>2, <2>3, <2>4, <2>5 DEF Persist
<1>5. CASE Crash
  BY <1>5 DEF Crash
<1>6. CASE Open
  BY <1>6 DEF Open, TypeOK, Writer
<1>7. CASE UNCHANGED vars
  BY <1>7 DEF vars
<1>8. QED BY <1>1, <1>2, <1>3, <1>4, <1>5, <1>6, <1>7 DEF Next

\* An unmarked, idle ledger is on disk: no interleaving of records with the
\* persister's swap, snapshot, create, write and rename, and no file error,
\* loses a recorded cheque.
THEOREM DirtyProtocol == Spec => []CleanMeansSaved
<1>1. Init => TypeOK /\ TickInv
  BY TypeInit, TickInit
<1>2. TypeOK /\ TickInv /\ [Next]_vars => (TypeOK /\ TickInv)'
  BY TypeNext, TickNext
<1>3. TypeOK /\ TickInv => CleanMeansSaved
  BY DEF TickInv, Covered, CleanMeansSaved
<1>4. QED BY <1>1, <1>2, <1>3, PTL DEF Spec

-----------------------------------------------------------------------------
(* One writer at a time.                                                   *)

\* Without overlap the writers take turns, each renames the inode it wrote,
\* and the ledger's name and the temporary name never share an inode.
OneWriter ==
    /\ at["tick"] = "idle" \/ at["flush"] = "idle"
    /\ proc # "up" => \A p \in Peer : emit[p] = "idle"
    /\ at["flush"] # "idle" => proc = "flush"
    /\ proc \in {"flush", "ended"} => at["tick"] = "idle" /\ ~dirty
    /\ \A w \in Writer :
          /\ at[w] \in {"write", "rename"} => tmp = fd[w]
          /\ at[w] = "rename" => content[tmp] = snap[w] /\ tmp \notin blank
    /\ tmp = NoFile \/ tmp # path
    /\ path \notin blank
    /\ at["flush"] \in {"create", "write", "rename"} => snap["flush"] = mem
    /\ proc = "ended" /\ flushOk => Disk = mem

LEMMA OneWriterInit == Init => OneWriter
  BY DEF Init, OneWriter, NoFile, Writer

LEMMA OneWriterNext ==
  TypeOK /\ OneWriter /\ ~overlapped' /\ [Next]_vars => OneWriter'
<1> SUFFICES ASSUME TypeOK, OneWriter, ~overlapped', [Next]_vars PROVE OneWriter'
  OBVIOUS
<1> USE DEF OneWriter, Disk, Load, writerVars, fileVars
<1>1. ASSUME NEW p \in Peer, Emission(p) PROVE OneWriter'
  <2>1. CASE Send(p)
    BY <2>1 DEF Send, TypeOK
  <2>2. CASE SendFailed(p) \/ Insert(p) \/ Mark(p)
    <3>1. proc = "up" /\ proc' = proc
      BY <2>2 DEF SendFailed, Insert, Mark, TypeOK
    <3>2. QED BY <2>2, <3>1 DEF SendFailed, Insert, Mark, TypeOK
  <2>3. QED BY <1>1, <2>1, <2>2 DEF Emission
<1>2. CASE Swap
  BY <1>2 DEF Swap, TypeOK, Writer
<1>3. CASE StartFlush
  BY <1>3 DEF StartFlush, TypeOK, Writer
<1>4. ASSUME NEW w \in Writer, Persist(w) PROVE OneWriter'
  <2>1. CASE Snapshot(w)
    BY <2>1 DEF Snapshot, TypeOK, Writer
  <2>2. CASE Create(w)
    <3>1. PICK n \in Inode : /\ IF tmp # NoFile THEN n = tmp ELSE NextFree(n)
                             /\ tmp' = n /\ fd' = [fd EXCEPT ![w] = n]
                             /\ blank' = blank \cup {n}
      BY <2>2 DEF Create
    <3>2. n # path
      BY <3>1 DEF NextFree, Free
    <3>3. QED BY <2>2, <3>1, <3>2 DEF Create, TypeOK, Writer
  <2>3. CASE Write(w)
    <3>1. fd[w] = tmp /\ fd[w] # path /\ fd[w] \in Inode
      BY <2>3 DEF Write, TypeOK
    <3>2. QED BY <2>3, <3>1 DEF Write, TypeOK, Writer
  <2>4. CASE Rename(w)
    <3>1. tmp # NoFile /\ tmp \in Inode
      BY <2>4 DEF Rename, TypeOK
    <3>2. path' = tmp /\ tmp' = NoFile /\ content' = content /\ blank' = blank
      BY <2>4, <3>1 DEF Rename
    <3>3. Return(w, TRUE)
      BY <2>4, <3>1 DEF Rename
    <3>4. Disk' = snap[w]
      BY <2>4, <3>1, <3>2 DEF Rename, NoFile
    <3>5. QED BY <2>4, <3>1, <3>2, <3>3, <3>4 DEF Rename, Return, TypeOK, Writer
  <2>5. CASE IoError(w)
    BY <2>5 DEF IoError, Return, TypeOK, Writer
  <2>6. QED BY <1>4, <2>1, <2>2, <2>3, <2>4, <2>5 DEF Persist
<1>5. CASE Crash
  BY <1>5 DEF Crash, TypeOK, Writer
<1>6. CASE Open
  BY <1>6 DEF Open, TypeOK, Writer
<1>7. CASE UNCHANGED vars
  BY <1>7 DEF vars
<1>8. QED BY <1>1, <1>2, <1>3, <1>4, <1>5, <1>6, <1>7 DEF Next

\* The history variable never goes back.
LEMMA OverlapSticks == TypeOK /\ [Next]_vars /\ ~overlapped' => ~overlapped
<1> SUFFICES ASSUME TypeOK, [Next]_vars, ~overlapped' PROVE ~overlapped
  OBVIOUS
<1>1. CASE StartFlush
  BY <1>1 DEF StartFlush
<1>2. CASE \E p \in Peer : Emission(p)
  BY <1>2 DEF Emission, Send, SendFailed, Insert, Mark
<1>3. CASE \E w \in Writer : Persist(w)
  BY <1>3 DEF Persist, Snapshot, Create, Write, Rename, IoError
<1>4. CASE Swap \/ Crash \/ Open \/ UNCHANGED vars
  BY <1>4 DEF Swap, Crash, Open, vars
<1>5. QED BY <1>1, <1>2, <1>3, <1>4 DEF Next

LEMMA TurnsNext ==
  TypeOK /\ (~overlapped => OneWriter) /\ [Next]_vars => (~overlapped => OneWriter)'
  BY OneWriterNext, OverlapSticks

\* As long as no final flush met a rewrite of the persister, the rewrite is
\* atomic: at no step, and so after no crash, is the ledger a blank file.
THEOREM RewriteAtomic == Spec => []NeverTorn
<1>1. Init => TypeOK /\ (~overlapped => OneWriter)
  BY TypeInit, OneWriterInit
<1>2. TypeOK /\ (~overlapped => OneWriter) /\ [Next]_vars
          => (TypeOK /\ (~overlapped => OneWriter))'
  BY TypeNext, TurnsNext
<1>3. (~overlapped => OneWriter) => NeverTorn
  BY DEF OneWriter, NeverTorn
<1>4. QED BY <1>1, <1>2, <1>3, PTL DEF Spec

\* As long as no final flush met a rewrite of the persister, a flush that
\* returned Ok leaves the whole map on disk.
THEOREM CleanRun == Spec => []CleanRunPersisted
<1>1. Init => TypeOK /\ (~overlapped => OneWriter)
  BY TypeInit, OneWriterInit
<1>2. TypeOK /\ (~overlapped => OneWriter) /\ [Next]_vars
          => (TypeOK /\ (~overlapped => OneWriter))'
  BY TypeNext, TurnsNext
<1>3. (~overlapped => OneWriter) => CleanRunPersisted
  BY DEF OneWriter, CleanRunPersisted
<1>4. QED BY <1>1, <1>2, <1>3, PTL DEF Spec

-----------------------------------------------------------------------------
(* The file never goes back.                                               *)

\* The file is behind every snapshot under way, a snapshot behind the map,
\* and the map behind the wire; one cheque further while one is on it.
Ahead ==
    /\ \A p \in Peer : Disk[p] <= sent[p]
    /\ proc # "down" => \A p \in Peer : Disk[p] <= mem[p] /\ mem[p] <= sent[p]
    /\ \A p \in Peer : emit[p] = "sent" => mem[p] + 1 <= sent[p]
    /\ \A w \in Writer : at[w] \in {"create", "write", "rename"} =>
          \A p \in Peer : Disk[p] <= snap[w][p] /\ snap[w][p] <= mem[p]
    /\ proc = "down" => \A w \in Writer : at[w] = "idle"

LEMMA AheadInit == Init => Ahead
  BY DEF Init, Ahead, Disk, Load, Zero, NoFile, Writer

\* Only a rename moves what the ledger's name shows.
LEMMA DiskStays ==
  ASSUME TypeOK, OneWriter, [Next]_vars, \A w \in Writer : ~Rename(w)
  PROVE  Disk' = Disk
<1> USE DEF Disk, Load, fileVars
<1>1. ASSUME NEW p \in Peer, Emission(p) PROVE Disk' = Disk
  BY <1>1 DEF Emission, Send, SendFailed, Insert, Mark
<1>2. CASE Swap \/ StartFlush \/ Crash \/ Open
  BY <1>2 DEF Swap, StartFlush, Crash, Open
<1>3. ASSUME NEW w \in Writer, Persist(w) PROVE Disk' = Disk
  <2>1. CASE Snapshot(w) \/ IoError(w)
    BY <2>1 DEF Snapshot, IoError
  <2>2. CASE Create(w)
    <3>1. PICK n \in Inode : /\ IF tmp # NoFile THEN n = tmp ELSE NextFree(n)
                             /\ blank' = blank \cup {n}
      BY <2>2 DEF Create
    <3>2. n # path
      BY <3>1 DEF NextFree, Free, OneWriter
    <3>3. QED BY <2>2, <3>1, <3>2 DEF Create
  <2>3. CASE Write(w)
    <3>1. fd[w] = tmp /\ fd[w] # path /\ fd[w] \in Inode
      BY <2>3 DEF Write, TypeOK, OneWriter
    <3>2. QED BY <2>3, <3>1 DEF Write, TypeOK
  <2>4. QED BY <1>3, <2>1, <2>2, <2>3 DEF Persist
<1>4. CASE UNCHANGED vars
  BY <1>4 DEF vars
<1>5. QED BY <1>1, <1>2, <1>3, <1>4 DEF Next

\* A rename shows the renaming writer's snapshot.
LEMMA DiskRenamed ==
  ASSUME TypeOK, OneWriter, NEW w \in Writer, Rename(w)
  PROVE  Disk' = snap[w] /\ tmp # NoFile /\ Return(w, TRUE)
<1>1. tmp # NoFile /\ tmp \in Inode
  BY DEF Rename, TypeOK, OneWriter
<1>2. path' = tmp /\ content' = content /\ blank' = blank /\ Return(w, TRUE)
  BY <1>1 DEF Rename
<1>3. content[tmp] = snap[w] /\ tmp \notin blank
  BY DEF Rename, OneWriter
<1>4. QED BY <1>1, <1>2, <1>3 DEF Disk, Load, NoFile

LEMMA AheadNext ==
  TypeOK /\ OneWriter /\ Ahead /\ [Next]_vars => Ahead'
<1> SUFFICES ASSUME TypeOK, OneWriter, Ahead, [Next]_vars PROVE Ahead'
  OBVIOUS
<1>d. Disk \in Amounts
  BY DiskType
<1>t. sent \in Amounts /\ mem \in Amounts /\ snap \in [Writer -> Amounts]
  BY DEF TypeOK
<1> USE DEF Ahead, Amounts, writerVars, fileVars
<1>1. ASSUME NEW w \in Writer, Rename(w) PROVE Ahead'
  <2>1. Disk' = snap[w] /\ at' = [at EXCEPT ![w] = "idle"] /\ proc # "down"
    <3>1. proc # "down"
      BY <1>1 DEF Rename, TypeOK, OneWriter, Writer
    <3>2. QED BY <1>1, <3>1, DiskRenamed DEF Return
  <2>2. emit' = emit /\ sent' = sent /\ mem' = mem
    BY <1>1 DEF Rename
  <2>3. \A p \in Peer : snap[w][p] <= mem[p] /\ mem[p] <= sent[p]
    BY <1>1, <2>1 DEF Rename
  <2>4. \A v \in Writer : at'[v] = "idle"
    BY <1>1, <2>1 DEF Rename, TypeOK, OneWriter, Writer
  <2>5. \A p \in Peer : Disk'[p] <= sent'[p] /\ Disk'[p] <= mem'[p] /\ mem'[p] <= sent'[p]
    BY <2>1, <2>2, <2>3, <1>t
  <2>6. \A p \in Peer : emit'[p] = "sent" => mem'[p] + 1 <= sent'[p]
    BY <2>2
  <2>7. proc' # "down"
    BY <1>1, <2>1, DiskRenamed DEF Return
  <2>8. QED BY <2>4, <2>5, <2>6, <2>7
<1>2. CASE \A w \in Writer : ~Rename(w)
  <2>0. Disk' = Disk
    BY <1>2, DiskStays
  <2>1. ASSUME NEW q \in Peer, Emission(q) PROVE Ahead'
    <3>0. proc' = proc /\ at' = at /\ snap' = snap /\ emit \in [Peer -> {"idle", "sent", "inserted"}]
      BY <2>1 DEF Emission, Send, SendFailed, Insert, Mark, TypeOK
    <3>1. CASE Send(q)
      BY <2>0, <3>0, <3>1, <1>d, <1>t DEF Send, Higher
    <3>2. CASE SendFailed(q)
      BY <2>0, <3>0, <3>2, <1>d, <1>t DEF SendFailed
    <3>3. CASE Insert(q)
      BY <2>0, <3>0, <3>3, <1>d, <1>t DEF Insert
    <3>4. CASE Mark(q)
      BY <2>0, <3>0, <3>4, <1>d, <1>t DEF Mark
    <3>5. QED BY <2>1, <3>1, <3>2, <3>3, <3>4 DEF Emission
  <2>2. CASE Swap
    BY <2>0, <2>2 DEF Swap, TypeOK, Writer
  <2>3. CASE StartFlush
    BY <2>0, <2>3 DEF StartFlush, TypeOK, Writer
  <2>4. ASSUME NEW w \in Writer, Snapshot(w) PROVE Ahead'
    BY <2>0, <2>4, <1>d, <1>t DEF Snapshot, TypeOK, OneWriter, Writer
  <2>5. ASSUME NEW w \in Writer, Create(w) PROVE Ahead'
    BY <2>0, <2>5 DEF Create, TypeOK, Writer
  <2>6. ASSUME NEW w \in Writer, Write(w) PROVE Ahead'
    BY <2>0, <2>6 DEF Write, TypeOK, Writer
  <2>7. ASSUME NEW w \in Writer, IoError(w) PROVE Ahead'
    BY <2>0, <2>7 DEF IoError, Return, TypeOK, OneWriter, Writer
  <2>8. CASE Crash
    BY <2>0, <2>8 DEF Crash
  <2>9. CASE Open
    BY <2>0, <2>9, <1>d, <1>t DEF Open, TypeOK, OneWriter
  <2>10. CASE UNCHANGED vars
    BY <2>0, <2>10 DEF vars
  <2>11. QED
    BY <1>2, <2>1, <2>2, <2>3, <2>4, <2>5, <2>6, <2>7, <2>8, <2>9, <2>10 DEF Next, Persist
<1>3. QED BY <1>1, <1>2

\* As long as no final flush met a rewrite of the persister, no step lowers a
\* persisted cumulative, and none puts one on disk that was not on the wire.
THEOREM DiskNeverBack == Spec => DiskMonotone
<1> DEFINE Inv == TypeOK /\ (~overlapped => OneWriter /\ Ahead)
           Kept == ~overlapped' => \A p \in Peer : Disk[p] <= Disk'[p] /\ Disk'[p] <= sent'[p]
<1>1. Init => Inv
  BY TypeInit, OneWriterInit, AheadInit
<1>2. Inv /\ [Next]_vars => Inv'
  BY TypeNext, OverlapSticks, OneWriterNext, AheadNext
<1>3. Inv /\ [Next]_vars => [Kept]_vars
  <2> SUFFICES ASSUME Inv, [Next]_vars, ~overlapped' PROVE
                 \A p \in Peer : Disk[p] <= Disk'[p] /\ Disk'[p] <= sent'[p]
    OBVIOUS
  <2>1. TypeOK /\ OneWriter /\ Ahead /\ Ahead'
    BY <1>2, OverlapSticks
  <2>2. Disk \in Amounts /\ snap \in [Writer -> Amounts]
    BY <2>1, DiskType DEF TypeOK
  <2>3. ASSUME NEW w \in Writer, Rename(w)
        PROVE  \A p \in Peer : Disk[p] <= Disk'[p]
    <3>1. Disk' = snap[w]
      BY <2>1, <2>3, DiskRenamed
    <3>2. \A p \in Peer : Disk[p] <= snap[w][p]
      BY <2>1, <2>3 DEF Rename, Ahead
    <3>3. QED BY <3>1, <3>2
  <2>4. ASSUME \A w \in Writer : ~Rename(w)
        PROVE  \A p \in Peer : Disk[p] <= Disk'[p]
    <3>1. Disk' = Disk
      BY <2>1, <2>4, DiskStays
    <3>2. \A p \in Peer : Disk[p] <= Disk[p]
      BY <2>2 DEF Amounts
    <3>3. QED BY <3>1, <3>2
  <2>5. \A p \in Peer : Disk[p] <= Disk'[p]
    BY <2>3, <2>4
  <2>6. QED BY <2>1, <2>5 DEF Ahead
<1>4. QED BY <1>1, <1>2, <1>3, PTL DEF Spec, DiskMonotone
=============================================================================
