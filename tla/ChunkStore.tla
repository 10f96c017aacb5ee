----------------------------- MODULE ChunkStore -----------------------------
(***************************************************************************)
(* The chunk store of ds-net/src/store.rs over several process lives: an   *)
(* append-only data file, an index in memory and its sidecar on disk.      *)
(* Connections put chunks under the store's mutex, so put and flush are    *)
(* atomic; what is not atomic is the disk.  A write may stop half way, a   *)
(* process may be killed at any point, and a power failure may also take   *)
(* away or scramble what was not synced.  Between two iterations           *)
(* `fetch-direct --repeat` clears the store by removing its two files.     *)
(*                                                                         *)
(* The data file is a sequence of bytes; byte k of chunk a is <<a, k>>.    *)
(* A kill in the middle of put or flush is a failing put or flush followed *)
(* by the kill: the error's only reader is the process that died.          *)
(* File removal and rename are taken to survive a power failure.           *)
(***************************************************************************)
EXTENDS Integers, Sequences

CONSTANTS
    Chunk,       \* chunk addresses
    Size,        \* the wire length of each chunk
    FlushEvery,  \* FLUSH_EVERY, 2048 in the code
    MaxLives, MaxStoreFails, MaxClears   \* bounds

ASSUME StoreAssumption ==
    /\ Size \in [Chunk -> Nat \ {0}]
    /\ FlushEvery \in Nat \ {0}
    /\ MaxLives \in Nat /\ MaxStoreFails \in Nat /\ MaxClears \in Nat

VARIABLES
    data,            \* the data file
    idx,             \* the index file, as a function; <<>> when absent or empty
    safe,            \* bytes of the data file known to be on the medium
    open,            \* the store is open
    end, index, dirty,       \* Inner
    clearing,        \* the data file is removed and the index file is next
    lives, storeFails, clears    \* counters of the bounds

VARIABLES          \* history
    kept,        \* chunks of the last index that reached the disk
    orphan       \* an index file has outlived the data file it describes

memVars   == <<open, end, index, dirty>>
bounds    == <<lives, storeFails, clears>>
storeVars == <<data, idx, safe, memVars, clearing, bounds, kept, orphan>>

-----------------------------------------------------------------------------
Junk == <<"junk", 0>>

Wire(a) == [k \in 1..Size[a] |-> <<a, k>>]

\* seek(off); write_all(w).
WriteAt(file, off, w) ==
    [i \in 1..(IF Len(file) > off + Len(w) THEN Len(file) ELSE off + Len(w)) |->
        IF i \in (off + 1)..(off + Len(w)) THEN w[i - off] ELSE file[i]]

\* get: the bytes an index entry points at.
get(a) == SubSeq(data, index[a][1] + 1, index[a][1] + index[a][2])

contains(a) == a \in DOMAIN index

\* Mutant: an entry that ends with the file is taken for torn.
load_index_strict(dataEnd) ==
    [a \in {b \in DOMAIN idx : idx[b][1] + idx[b][2] < dataEnd} |-> idx[a]]

\* An entry past the end of a shorter data file is skipped.
load_index(dataEnd) ==
    [a \in {b \in DOMAIN idx : idx[b][1] + idx[b][2] <= dataEnd} |-> idx[a]]

StoreInit ==
    /\ data = <<>> /\ idx = <<>> /\ safe = 0
    /\ open = FALSE /\ end = 0 /\ index = <<>> /\ dirty = 0
    /\ clearing = FALSE
    /\ lives = 0 /\ storeFails = 0 /\ clears = 0
    /\ kept = {} /\ orphan = FALSE

-----------------------------------------------------------------------------
Open ==
    /\ ~open /\ ~clearing /\ lives < MaxLives
    /\ open' = TRUE /\ lives' = lives + 1
    /\ end' = Len(data) /\ index' = load_index(Len(data)) /\ dirty' = 0
    /\ UNCHANGED <<data, idx, safe, clearing, storeFails, clears, kept, orphan>>

\* flush_locked: sync the data, write and sync a temporary file, rename it.
Flushed(ix, e) ==
    /\ safe' = e /\ idx' = ix /\ dirty' = 0
    /\ kept' = DOMAIN ix

\* flush_locked stops at an error, before or after the data was synced.
FlushStops(e) ==
    /\ storeFails < MaxStoreFails /\ storeFails' = storeFails + 1
    /\ safe' \in {safe, e}
    /\ UNCHANGED <<idx, dirty, kept>>

\* Mutant: the file is opened for appending: bytes go behind what a failed write left.
PutAppends(a) ==
    /\ open /\ ~contains(a)
    /\ data' = data \o Wire(a)
    /\ end' = end + Size[a]
    /\ index' = [b \in DOMAIN index \cup {a} |->
                   IF b = a THEN <<end, Size[a]>> ELSE index[b]]
    /\ IF dirty + 1 < FlushEvery
       THEN dirty' = dirty + 1 /\ UNCHANGED <<safe, idx, storeFails, kept>>
       ELSE \/ Flushed(index', end') /\ UNCHANGED storeFails
            \/ /\ storeFails < MaxStoreFails /\ storeFails' = storeFails + 1
               /\ safe' \in {safe, end'} /\ dirty' = dirty + 1
               /\ UNCHANGED <<idx, kept>>
    /\ UNCHANGED <<open, clearing, lives, clears, orphan>>

\* put: a chunk that is indexed is left alone; the entry is made only after
\* the write, and every FlushEvery entries the index is flushed, errors of
\* that flush ignored.
Put(a) ==
    /\ open /\ ~contains(a)
    /\ data' = WriteAt(data, end, Wire(a))
    /\ end' = end + Size[a]
    /\ index' = [b \in DOMAIN index \cup {a} |->
                   IF b = a THEN <<end, Size[a]>> ELSE index[b]]
    /\ IF dirty + 1 < FlushEvery
       THEN dirty' = dirty + 1 /\ UNCHANGED <<safe, idx, storeFails, kept>>
       ELSE \/ Flushed(index', end') /\ UNCHANGED storeFails
            \/ /\ storeFails < MaxStoreFails /\ storeFails' = storeFails + 1
               /\ safe' \in {safe, end'} /\ dirty' = dirty + 1
               /\ UNCHANGED <<idx, kept>>
    /\ UNCHANGED <<open, clearing, lives, clears, orphan>>

\* The write stops half way: its bytes stay behind the end and the next put
\* overwrites them.
PutStops(a) ==
    /\ open /\ ~contains(a) /\ storeFails < MaxStoreFails /\ storeFails' = storeFails + 1
    /\ \E n \in 0..(Size[a] - 1) : data' = WriteAt(data, end, SubSeq(Wire(a), 1, n))
    /\ UNCHANGED <<idx, safe, memVars, clearing, lives, clears, kept, orphan>>

Flush ==
    /\ open
    /\ \/ Flushed(index, end) /\ UNCHANGED storeFails
       \/ FlushStops(end)
    /\ UNCHANGED <<data, open, end, index, clearing, lives, clears, orphan>>

\* The process ends or is killed; the files are as they are.
StoreKilled ==
    /\ open \/ clearing
    /\ open' = FALSE /\ clearing' = FALSE /\ end' = 0 /\ index' = <<>> /\ dirty' = 0
    /\ orphan' = (orphan \/ clearing)
    /\ UNCHANGED <<data, idx, safe, bounds, kept>>

\* Unsynced bytes are lost, or survive as the length without the contents.
StoreLosesPower ==
    /\ open
    /\ \E n \in safe..Len(data) :
          \/ data' = SubSeq(data, 1, n)
          \/ data' = [i \in 1..n |-> IF i > safe THEN Junk ELSE data[i]]
    /\ open' = FALSE /\ end' = 0 /\ index' = <<>> /\ dirty' = 0
    /\ UNCHANGED <<idx, safe, clearing, bounds, kept, orphan>>

\* Cold store per iteration: the fetch has returned and dropped its store.
ClearData ==
    /\ open /\ clears < MaxClears /\ clears' = clears + 1
    /\ open' = FALSE /\ end' = 0 /\ index' = <<>> /\ dirty' = 0
    /\ data' = <<>> /\ safe' = 0 /\ kept' = {}
    /\ clearing' = TRUE
    /\ UNCHANGED <<idx, lives, storeFails, orphan>>

\* The result of removing the index is ignored too.
ClearIndex ==
    /\ clearing /\ clearing' = FALSE
    /\ \/ idx' = <<>> /\ orphan' = FALSE /\ UNCHANGED storeFails
       \/ /\ storeFails < MaxStoreFails /\ storeFails' = storeFails + 1
          /\ orphan' = TRUE /\ UNCHANGED idx
    /\ UNCHANGED <<data, safe, memVars, lives, clears, kept>>

StoreEnded == ~open /\ ~clearing /\ lives = MaxLives /\ UNCHANGED storeVars

StoreNext == \/ Open \/ Flush \/ StoreKilled \/ StoreLosesPower
             \/ ClearData \/ ClearIndex \/ StoreEnded
             \/ \E a \in Chunk : Put(a) \/ PutStops(a)

StoreSpec == StoreInit /\ [][StoreNext]_storeVars

-----------------------------------------------------------------------------
Entries(ix) ==
    /\ DOMAIN ix \subseteq Chunk
    /\ \A a \in DOMAIN ix : ix[a][1] \in Nat /\ ix[a][2] = Size[a]

\* Every variable has its type, and an open store never points past its end.
StoreTypeOK ==
    /\ data \in Seq((Chunk \X Nat) \cup {Junk})
    /\ Entries(idx) /\ Entries(index)
    /\ safe \in 0..Len(data) /\ end \in Nat /\ dirty \in Nat
    /\ \A a \in DOMAIN index : index[a][1] + index[a][2] <= end
    /\ open \in BOOLEAN /\ clearing \in BOOLEAN /\ orphan \in BOOLEAN
    /\ lives \in 0..MaxLives /\ storeFails \in 0..MaxStoreFails /\ clears \in 0..MaxClears
    /\ kept \subseteq Chunk

\* What get returns for an indexed chunk is that chunk, after any sequence of
\* failing writes, kills, power failures and restarts (store.rs flush_locked
\* syncs the data before the index; put writes at its own end, not at the
\* file's).  Resume skips indexed chunks and the joiner reads them unchecked.
ReadsBack ==
    ~orphan => \A a \in DOMAIN index : get(a) = Wire(a)

\* A chunk whose index reached the disk is found by every later life until
\* the store is cleared: resume never loses a flushed chunk.
FlushedKept == open => kept \subseteq DOMAIN index

\* Every indexed chunk reads back as itself, with no exception for a clear
\* that was interrupted: what "skip entries past its end" is meant to give.
ReadsBackAlways == \A a \in DOMAIN index : get(a) = Wire(a)
=============================================================================
