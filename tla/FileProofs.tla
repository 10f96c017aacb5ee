----------------------------- MODULE FileProofs -----------------------------
(***************************************************************************)
(* Proofs for the two components that keep bytes in a file over several    *)
(* process lives.                                                          *)
(*                                                                         *)
(* ResumableFetch, for any roots, lengths and commit intervals, and any    *)
(* number of runs, failures, kills and power failures: as long as no run   *)
(* over another root's sidecar ended without replacing it, the sidecar     *)
(* only vouches for bytes of its root that are on the medium, and a fetch  *)
(* that returns Ok leaves exactly the file behind its root.                *)
(*                                                                         *)
(* ChunkStore, for any set of chunks of any sizes, any flush interval and  *)
(* any number of lives, failing writes and clears: an indexed chunk reads  *)
(* back as itself unless an index outlived its data file, and a chunk      *)
(* whose index reached the disk is found by every later life.              *)
(***************************************************************************)
EXTENDS ResumableFetch, ChunkStore, SequenceTheorems, TLAPS

-----------------------------------------------------------------------------
(* The resumed fetch: its inductive invariant.                             *)

Byte == (Root \X Nat) \cup {Zero}

SidecarState == {NoState} \cup [root : Root, offset : Nat]

\* The first n bytes of the file are those of root r.
BytesOf(r, n) == \A i \in 1..n : file[i] = <<r, i>>

InBody == pc \in {"body", "commit", "last"}

Typed ==
    /\ file \in Seq(Byte) /\ synced \in Nat /\ synced <= Len(file)
    /\ sidecar \in SidecarState
    /\ pc \in {"idle", "root", "body", "commit", "last"}
    /\ root \in Root /\ written \in Nat
    /\ outcome \in {"none", "ok", "failed"} /\ crossed \in BOOLEAN

\* A run stands where the file ends, on bytes of its own root, and rewrites
\* the sidecar only after a sync.
Running ==
    /\ InBody => /\ Len(file) = written /\ written <= Span[root]
                 /\ ~crossed => BytesOf(root, written)
    /\ pc \in {"commit", "last"} => synced = written

\* A state that vouches for the file as it is.
Vouches(s) ==
    /\ s.offset <= synced /\ s.offset <= Span[s.root]
    /\ BytesOf(s.root, s.offset)
    /\ Len(file) <= Span[s.root]

Honest ==
    (~crossed /\ sidecar # NoState /\ (~InBody \/ sidecar.root = root)) => Vouches(sidecar)

Returned ==
    outcome = "ok" => /\ pc = "idle"
                      /\ ~crossed => Len(file) = Span[root] /\ BytesOf(root, Span[root])

Inv == Typed /\ Running /\ Honest /\ Returned

-----------------------------------------------------------------------------
(* Facts about the operators.                                              *)

LEMMA SpanType == \A r \in Root : Span[r] \in Nat
  BY FetchAssumption

\* A torn sidecar does not parse, or has the same root and a smaller offset.
LEMMA CutsShrink ==
  ASSUME NEW s \in SidecarState, NEW t \in Cuts(s), t # NoState
  PROVE  /\ t \in SidecarState /\ t.root = s.root
         /\ t.offset \in Nat /\ s.offset \in Nat /\ t.offset <= s.offset
<1>1. PICK m \in LeadingDigits(s.offset) : t = [s EXCEPT !.offset = m]
  BY DEF Cuts
<1>2. s.offset \in Nat
  BY DEF SidecarState, NoState
<1>3. m \in 0..s.offset
  BY <1>1 DEF LeadingDigits
<1>4. CASE s \in [root : Root, offset : Nat]
  <2>1. t = [root |-> s.root, offset |-> m]
    BY <1>1, <1>4
  <2>2. QED BY <1>2, <1>3, <1>4, <2>1 DEF SidecarState
<1>5. CASE s = NoState
  <2>1. t = [root |-> "none", offset |-> m] /\ s.offset = 0 /\ m = 0
    BY <1>1, <1>2, <1>3, <1>5 DEF NoState
  <2>2. QED BY <2>1 DEF NoState
<1>6. QED BY <1>4, <1>5 DEF SidecarState

LEMMA SetLenKeeps ==
  ASSUME NEW f \in Seq(Byte), NEW n \in Nat, n <= Len(f)
  PROVE  /\ SetLen(f, n) \in Seq(Byte) /\ Len(SetLen(f, n)) = n
         /\ \A i \in 1..n : SetLen(f, n)[i] = f[i]
<1>1. SetLen(f, n) = [i \in 1..n |-> IF i <= Len(f) THEN f[i] ELSE Zero]
  BY DEF SetLen
<1>2. \A i \in 1..n : (IF i <= Len(f) THEN f[i] ELSE Zero) \in Byte
  BY DEF Byte
<1>3. SetLen(f, n) \in [1..n -> Byte]
  BY <1>1, <1>2
<1>4. SetLen(f, n) \in Seq(Byte) /\ Len(SetLen(f, n)) = n
  BY <1>3
<1>5. QED BY <1>1, <1>4

\* A cut state vouches for what the whole one vouched for.
LEMMA CutVouches ==
  ASSUME Typed, NEW s \in SidecarState, NEW t \in Cuts(s), t # NoState, Vouches(s)
  PROVE  Vouches(t)
<1>1. /\ t.root = s.root /\ t.offset \in Nat /\ s.offset \in Nat /\ t.offset <= s.offset
      /\ t \in SidecarState
  BY CutsShrink
<1>2. t.root \in Root /\ Span[t.root] \in Nat
  BY <1>1, SpanType DEF SidecarState
<1>3. QED BY <1>1, <1>2 DEF Vouches, BytesOf, Typed

-----------------------------------------------------------------------------
(* Every action keeps the invariant.                                       *)

LEMMA InvInit == Init => Inv
<1>1. SUFFICES ASSUME Init PROVE Inv
  OBVIOUS
<1>2. /\ file = <<>> /\ synced = 0 /\ sidecar = NoState /\ pc = "idle" /\ root \in Root
      /\ written = 0 /\ outcome = "none" /\ crossed = FALSE
  BY <1>1 DEF Init
<1>3. file \in Seq(Byte) /\ Len(file) = 0
  BY <1>2
<1>4. Typed
  <2>1. synced \in Nat /\ synced <= Len(file) /\ written \in Nat
    BY <1>2, <1>3
  <2>2. sidecar \in SidecarState
    BY <1>2 DEF SidecarState
  <2>3. QED BY <1>2, <1>3, <2>1, <2>2 DEF Typed
<1>5. Running /\ Honest /\ Returned
  BY <1>2 DEF Running, Honest, Returned, InBody
<1>6. QED BY <1>4, <1>5 DEF Inv

LEMMA BeginInv == ASSUME Inv, NEW r \in Root, Begin(r) PROVE Inv'
<1>1. /\ pc = "idle" /\ pc' = "root" /\ root' = r /\ written' = 0 /\ outcome' = "none"
      /\ UNCHANGED <<file, synced, sidecar, crossed>>
  BY DEF Begin, diskVars
<1>2. Typed' /\ Running' /\ Returned'
  BY <1>1 DEF Inv, Typed, Running, Returned, InBody
<1>3. Honest'
  BY <1>1 DEF Inv, Honest, InBody, Vouches, BytesOf
<1>4. QED BY <1>2, <1>3 DEF Inv

\* A run that ends without returning Ok: its sidecar is of its own root and
\* vouches for the file, or the run has crossed another root's.
LEMMA EndInv ==
  ASSUME Inv, pc' = "idle", Crosses, root' = root, written' = written,
         outcome' \in {"none", "failed"}, file' \in Seq(Byte), synced' \in Nat,
         synced' <= Len(file'), sidecar' \in SidecarState,
         (~crossed /\ sidecar' # NoState /\ (pc = "root" \/ sidecar'.root = root))
             => Vouches(sidecar)'
  PROVE  Inv'
<1>1. crossed' = (crossed \/ (pc # "root" /\ sidecar' # NoState /\ sidecar'.root # root))
  BY DEF Crosses
<1>2. Typed' /\ Running' /\ Returned'
  BY <1>1 DEF Inv, Typed, Running, Returned, InBody
<1>3. Honest'
  BY <1>1 DEF Honest
<1>4. QED BY <1>2, <1>3 DEF Inv

\* The same when neither the file nor the sidecar changed.
LEMMA LeaveInv ==
  ASSUME Inv, pc # "idle", pc' = "idle", Crosses, root' = root, written' = written,
         outcome' \in {"none", "failed"}, UNCHANGED <<file, synced, sidecar>>
  PROVE  Inv'
<1>1. /\ file' \in Seq(Byte) /\ synced' \in Nat /\ synced' <= Len(file')
      /\ sidecar' \in SidecarState
  BY DEF Inv, Typed
<1>2. ASSUME ~crossed, sidecar' # NoState, pc = "root" \/ sidecar'.root = root
      PROVE  Vouches(sidecar)'
  BY <1>2 DEF Inv, Honest, InBody, Vouches, BytesOf
<1>3. QED BY <1>1, <1>2, EndInv

\* The same when the sidecar was being rewritten.
LEMMA TornInv ==
  ASSUME Inv, pc \in {"commit", "last"}, pc' = "idle", Crosses, root' = root,
         written' = written, outcome' \in {"none", "failed"},
         UNCHANGED <<file, synced>>, sidecar' \in Cuts(State) \cup {State}
  PROVE  Inv'
<1>1. /\ Typed /\ InBody /\ synced = written /\ Len(file) = written
      /\ written <= Span[root] /\ root \in Root /\ written \in Nat
      /\ ~crossed => BytesOf(root, written)
  BY DEF Inv, Typed, Running, InBody
<1>2. State \in SidecarState /\ State.root = root /\ State.offset = written
  BY <1>1 DEF State, SidecarState
<1>3. sidecar' \in SidecarState
  BY <1>2, CutsShrink DEF SidecarState
<1>4. ASSUME ~crossed, sidecar' # NoState PROVE Vouches(sidecar)'
  <2>1. Vouches(State)
    BY <1>1, <1>2, <1>4 DEF Vouches
  <2>2. ASSUME NEW t, t = sidecar' PROVE Vouches(t)
    BY <1>1, <1>2, <1>4, <2>1, <2>2, CutVouches
  <2>3. QED BY <2>2 DEF Vouches, BytesOf
<1>5. file' \in Seq(Byte) /\ synced' \in Nat /\ synced' <= Len(file')
  BY <1>1 DEF Typed
<1>6. QED BY <1>3, <1>4, <1>5, EndInv

LEMMA RetryInv == ASSUME Inv, Retry PROVE Inv'
<1>1. UNCHANGED <<file, synced, sidecar, pc, root, written, outcome, crossed>>
  BY DEF Retry, diskVars
<1>2. QED
  BY <1>1 DEF Inv, Typed, Running, Honest, Returned, InBody, Vouches, BytesOf

LEMMA FailInv ==
  ASSUME Inv, RootFails \/ SinkFails \/ CommitFails PROVE Inv'
<1>1. /\ pc' = "idle" /\ Crosses /\ root' = root /\ written' = written
      /\ outcome' \in {"none", "failed"} /\ synced' = synced /\ pc # "idle"
  BY DEF RootFails, SinkFails, CommitFails, Fails, runVars, diskVars
<1>2. CASE UNCHANGED <<file, synced, sidecar>>
  BY <1>1, <1>2, LeaveInv
<1>3. CASE CommitFails
  <2>1. pc \in {"commit", "last"} /\ UNCHANGED file /\ sidecar' \in {sidecar} \cup Cuts(State)
    BY <1>3 DEF CommitFails
  <2>2. QED BY <1>1, <1>2, <2>1, TornInv
<1>4. CASE /\ pc = "body" /\ written < Span[root] /\ sidecar' = sidecar
           /\ file' = Append(file, <<root, written + 1>>)
  <2>1. /\ Typed /\ Len(file) = written /\ written \in Nat /\ root \in Root /\ Span[root] \in Nat
        /\ ~crossed => BytesOf(root, written)
    BY <1>4, SpanType DEF Inv, Typed, Running, InBody
  <2>2. file \in Seq(Byte) /\ <<root, written + 1>> \in Byte
    BY <2>1 DEF Typed, Byte
  <2>3. /\ file' \in Seq(Byte) /\ Len(file') = written + 1
        /\ \A i \in 1..written : file'[i] = file[i]
    BY <1>4, <2>1, <2>2
  <2>4. synced' \in Nat /\ synced' <= Len(file') /\ sidecar' \in SidecarState
    BY <1>1, <1>4, <2>1, <2>3 DEF Typed
  <2>5. ASSUME ~crossed, sidecar' # NoState, pc = "root" \/ sidecar'.root = root
        PROVE  Vouches(sidecar)'
    <3>1. Vouches(sidecar) /\ sidecar.root = root
      BY <1>4, <2>5 DEF Inv, Honest
    <3>2. sidecar.offset \in Nat /\ sidecar.offset <= written
      BY <2>1, <3>1 DEF Vouches, Typed, SidecarState, NoState
    <3>3. QED BY <1>1, <1>4, <2>1, <2>3, <3>1, <3>2 DEF Vouches, BytesOf
  <2>6. QED BY <1>1, <2>3, <2>4, <2>5, EndInv
<1>5. QED BY <1>2, <1>3, <1>4 DEF RootFails, SinkFails, diskVars

\* The file is cut to the resume offset, for which the sidecar vouches.
LEMMA RootFetchedInv == ASSUME Inv, RootFetched PROVE Inv'
<1> DEFINE at == read_resume_offset(root)
<1>1. /\ pc = "root" /\ UNCHANGED <<root, crossed>> /\ Typed /\ outcome # "ok"
      /\ root \in Root /\ Span[root] \in Nat
  BY SpanType DEF RootFetched, Inv, Typed, Returned
<1>2. sidecar = NoState \/ (sidecar.root \in Root /\ sidecar.offset \in Nat)
  BY <1>1 DEF Typed, SidecarState
<1>3. at \in Nat /\ at <= Span[root]
  BY <1>1, <1>2 DEF read_resume_offset, NoState
<1>4. ASSUME ~crossed
      PROVE  at <= synced /\ BytesOf(root, at) /\ (at > 0 => Len(file) <= Span[root])
  <2>1. CASE sidecar # NoState /\ sidecar.root = root /\ sidecar.offset <= Span[root]
    <3>1. at = sidecar.offset
      BY <2>1 DEF read_resume_offset
    <3>2. Vouches(sidecar)
      BY <1>1, <1>4, <2>1 DEF Inv, Honest, InBody
    <3>3. QED BY <2>1, <3>1, <3>2 DEF Vouches
  <2>2. CASE ~(sidecar # NoState /\ sidecar.root = root /\ sidecar.offset <= Span[root])
    <3>1. at = 0
      BY <2>2 DEF read_resume_offset, NoState
    <3>2. QED BY <1>1, <3>1 DEF BytesOf, Typed
  <2>3. QED BY <2>1, <2>2
<1>5. CASE Span[root] > 0 /\ at >= Span[root]
  <2>1. /\ pc' = "idle" /\ outcome' = "ok" /\ sidecar' \in {NoState, sidecar}
        /\ UNCHANGED <<file, synced, written>>
    BY <1>5 DEF RootFetched
  <2>2. at = Span[root]
    BY <1>1, <1>3, <1>5
  <2>3. Typed' /\ Running'
    BY <1>1, <2>1 DEF Typed, Running, InBody, SidecarState
  <2>4. Honest'
    BY <1>1, <2>1 DEF Inv, Honest, InBody, Vouches, BytesOf
  <2>5. ASSUME ~crossed PROVE Len(file) = Span[root] /\ BytesOf(root, Span[root])
    BY <1>1, <1>4, <1>5, <2>2, <2>5 DEF Typed
  <2>6. Returned'
    BY <1>1, <2>1, <2>5 DEF Returned, BytesOf
  <2>7. QED BY <2>3, <2>4, <2>6 DEF Inv
<1>6. CASE ~(Span[root] > 0 /\ at >= Span[root])
  <2>1. /\ pc' = "body" /\ written' = at /\ UNCHANGED <<sidecar, outcome>>
        /\ file' = SetLen(file, at) /\ synced' = Least(synced, at)
    BY <1>6 DEF RootFetched
  <2>2. file' \in Seq(Byte) /\ Len(file') = at
    <3>1. file' = [i \in 1..at |-> IF i <= Len(file) THEN file[i] ELSE Zero]
      BY <2>1 DEF SetLen
    <3>2. \A i \in 1..at : (IF i <= Len(file) THEN file[i] ELSE Zero) \in Byte
      BY <1>1, <1>3 DEF Typed, Byte
    <3>3. file' \in [1..at -> Byte]
      BY <3>1, <3>2
    <3>4. QED BY <1>3, <3>3
  <2>3. ASSUME ~crossed PROVE \A i \in 1..at : file'[i] = <<root, i>>
    <3>1. at <= Len(file)
      BY <1>1, <1>3, <1>4, <2>3 DEF Typed
    <3>2. \A i \in 1..at : file'[i] = file[i]
      BY <1>1, <1>3, <2>1, <3>1, SetLenKeeps DEF Typed
    <3>3. QED BY <1>4, <2>3, <3>2 DEF BytesOf
  <2>4. synced' \in Nat /\ synced' <= at /\ (~crossed => synced' = at)
    BY <1>1, <1>3, <1>4, <2>1 DEF Typed, Least
  <2>5. Typed'
    BY <1>1, <1>3, <2>1, <2>2, <2>4 DEF Typed
  <2>6. Running'
    BY <1>1, <1>3, <2>1, <2>2, <2>3 DEF Running, InBody, BytesOf
  <2>7. Honest'
    <3>1. SUFFICES ASSUME ~crossed, sidecar # NoState, sidecar.root = root
                   PROVE  Vouches(sidecar)'
      BY <1>1, <2>1 DEF Honest, InBody
    <3>2. Vouches(sidecar)
      BY <1>1, <3>1 DEF Inv, Honest, InBody
    <3>3. at = sidecar.offset
      BY <3>1, <3>2 DEF Vouches, read_resume_offset
    <3>4. /\ sidecar.offset <= synced' /\ sidecar.offset <= Span[root]
          /\ \A i \in 1..at : file'[i] = <<root, i>> /\ Len(file') <= Span[root]
      BY <1>3, <2>2, <2>3, <2>4, <3>1, <3>3
    <3>5. Len(file') <= Span[root]
      BY <1>3, <2>2
    <3>6. QED BY <2>1, <3>1, <3>3, <3>4, <3>5 DEF Vouches, BytesOf
  <2>8. Returned'
    BY <1>1, <2>1 DEF Returned
  <2>9. QED BY <2>5, <2>6, <2>7, <2>8 DEF Inv
<1>7. QED BY <1>5, <1>6

LEMMA WriteInv == ASSUME Inv, Write PROVE Inv'
<1>1. /\ pc = "body" /\ written < Span[root] /\ written' = written + 1
      /\ file' = Append(file, <<root, written + 1>>)
      /\ UNCHANGED <<sidecar, root, outcome, crossed>>
      /\ (pc' = "commit" /\ synced' = written') \/ (pc' = pc /\ synced' = synced)
  BY DEF Write
<1>2. /\ Typed /\ Len(file) = written /\ written \in Nat /\ root \in Root /\ Span[root] \in Nat
      /\ ~crossed => BytesOf(root, written)
  BY <1>1, SpanType DEF Inv, Typed, Running, InBody
<1>3. file \in Seq(Byte) /\ <<root, written + 1>> \in Byte
  BY <1>2 DEF Typed, Byte
<1>4. /\ file' \in Seq(Byte) /\ Len(file') = written + 1
      /\ \A i \in 1..written : file'[i] = file[i]
      /\ file'[written + 1] = <<root, written + 1>>
  BY <1>1, <1>2, <1>3
<1>5. synced' \in Nat /\ synced' <= Len(file') /\ synced <= synced'
  BY <1>1, <1>2, <1>4 DEF Typed
<1>6. Typed'
  BY <1>1, <1>2, <1>4, <1>5 DEF Typed
<1>7. Running'
  <2>1. ASSUME ~crossed PROVE \A i \in 1..(written + 1) : file'[i] = <<root, i>>
    BY <1>2, <1>4, <2>1 DEF BytesOf
  <2>2. QED BY <1>1, <1>2, <1>4, <2>1 DEF Running, InBody, BytesOf
<1>8. Honest'
  <2>1. SUFFICES ASSUME ~crossed, sidecar # NoState, sidecar.root = root
                 PROVE  Vouches(sidecar)'
    BY <1>1 DEF Honest, InBody
  <2>2. Vouches(sidecar)
    BY <2>1 DEF Inv, Honest
  <2>3. sidecar.offset \in Nat /\ sidecar.offset <= written /\ sidecar.offset <= synced'
    BY <1>2, <1>5, <2>2 DEF Vouches, Typed, SidecarState, NoState
  <2>4. QED BY <1>1, <1>2, <1>4, <2>1, <2>2, <2>3 DEF Vouches, BytesOf
<1>9. Returned'
  BY <1>1 DEF Inv, Returned
<1>10. QED BY <1>6, <1>7, <1>8, <1>9 DEF Inv

LEMMA CommitInv == ASSUME Inv, commit_sidecar PROVE Inv'
<1>1. pc \in {"commit", "last"} /\ sidecar' = State /\ UNCHANGED <<file, synced>>
  BY DEF commit_sidecar
<1>2. CASE pc = "last" /\ Fails
  BY <1>1, <1>2, TornInv DEF Fails, runVars
<1>3. CASE pc = "commit" /\ pc' = "body" /\ UNCHANGED <<outcome, root, written, crossed>>
  <2>1. /\ Typed /\ synced = written /\ Len(file) = written /\ root \in Root
        /\ written <= Span[root] /\ written \in Nat /\ outcome # "ok"
        /\ ~crossed => BytesOf(root, written)
    BY <1>3 DEF Inv, Typed, Running, InBody, Returned
  <2>2. sidecar' \in SidecarState /\ sidecar'.root = root /\ sidecar'.offset = written
    BY <1>1, <2>1 DEF State, SidecarState
  <2>3. Typed' /\ Running' /\ Returned'
    BY <1>1, <1>3, <2>1, <2>2 DEF Typed, Running, Returned, InBody, BytesOf
  <2>4. Honest'
    BY <1>1, <1>3, <2>1, <2>2 DEF Honest, Vouches, BytesOf
  <2>5. QED BY <2>3, <2>4 DEF Inv
<1>4. QED BY <1>2, <1>3 DEF commit_sidecar

LEMMA JoinFailsInv == ASSUME Inv, JoinFails PROVE Inv'
<1>1. /\ pc = "body" /\ pc' = "last" /\ synced' = written
      /\ UNCHANGED <<file, sidecar, root, written, outcome, crossed>>
  BY DEF JoinFails, runVars
<1>2. Typed /\ Len(file) = written /\ written \in Nat /\ outcome # "ok"
  BY <1>1 DEF Inv, Typed, Running, InBody, Returned
<1>3. Typed' /\ Running' /\ Returned'
  BY <1>1, <1>2 DEF Inv, Typed, Running, Returned, InBody, BytesOf
<1>4. Honest'
  <2>1. SUFFICES ASSUME ~crossed, sidecar # NoState, sidecar.root = root
                 PROVE  Vouches(sidecar)'
    BY <1>1 DEF Honest, InBody
  <2>2. Vouches(sidecar) /\ sidecar.offset \in Nat
    BY <1>2, <2>1 DEF Inv, Honest, Typed, SidecarState, NoState
  <2>3. sidecar.offset <= written
    BY <1>2, <2>2 DEF Vouches, Typed
  <2>4. QED BY <1>1, <2>2, <2>3 DEF Vouches, BytesOf
<1>5. QED BY <1>3, <1>4 DEF Inv

LEMMA FinishInv == ASSUME Inv, Finish PROVE Inv'
<1>1. /\ pc = "body" /\ written = Span[root] /\ synced' = written /\ pc' = "idle"
      /\ outcome' = "ok" /\ UNCHANGED <<file, root, written>>
      /\ sidecar' \in {NoState, sidecar}
      /\ crossed' = (crossed \/ (sidecar' # NoState /\ sidecar'.root # root))
  BY DEF Finish, runVars, Crosses
<1>2. /\ Typed /\ Len(file) = written /\ written \in Nat
      /\ ~crossed => BytesOf(root, written)
  BY <1>1 DEF Inv, Typed, Running, InBody
<1>3. Typed' /\ Running'
  BY <1>1, <1>2 DEF Typed, Running, InBody, SidecarState
<1>4. Returned'
  BY <1>1, <1>2 DEF Returned, BytesOf
<1>5. Honest'
  <2>1. SUFFICES ASSUME ~crossed', sidecar' # NoState PROVE Vouches(sidecar)'
    BY DEF Honest
  <2>2. sidecar' = sidecar /\ sidecar.root = root /\ ~crossed /\ sidecar # NoState
    BY <1>1, <2>1
  <2>3. Vouches(sidecar) /\ sidecar.offset \in Nat
    BY <1>2, <2>2 DEF Inv, Honest, Typed, SidecarState, NoState
  <2>4. sidecar.offset <= written
    BY <1>1, <2>2, <2>3 DEF Vouches
  <2>5. QED BY <1>1, <2>2, <2>3, <2>4 DEF Vouches, BytesOf
<1>6. QED BY <1>3, <1>4, <1>5 DEF Inv

LEMMA KillInv == ASSUME Inv, Kill PROVE Inv'
<1>1. /\ pc # "idle" /\ pc' = "idle" /\ outcome' = "none" /\ Crosses
      /\ root' = root /\ written' = written /\ UNCHANGED <<file, synced>>
  BY DEF Kill, runVars
<1>2. CASE sidecar' = sidecar
  BY <1>1, <1>2, LeaveInv
<1>3. CASE pc \in {"commit", "last"} /\ sidecar' \in Cuts(State)
  BY <1>1, <1>3, TornInv
<1>4. QED BY <1>2, <1>3 DEF Kill

LEMMA PowerInv == ASSUME Inv, PowerFails PROVE Inv'
<1>1. /\ pc # "idle" /\ pc' = "idle" /\ outcome' = "none" /\ Crosses
      /\ root' = root /\ written' = written /\ synced' = synced /\ sidecar' \in Cuts(sidecar)
  BY DEF PowerFails, runVars
<1>2. PICK n \in synced..Len(file) :
         file' = [i \in 1..n |-> IF i > synced THEN Zero ELSE file[i]]
  BY DEF PowerFails
<1>3. Typed /\ file \in Seq(Byte) /\ synced \in Nat /\ sidecar \in SidecarState /\ Len(file) \in Nat
  BY DEF Inv, Typed
<1>4. \A i \in 1..n : (IF i > synced THEN Zero ELSE file[i]) \in Byte
  BY <1>2, <1>3 DEF Byte
<1>5. file' \in [1..n -> Byte] /\ \A i \in 1..synced : file'[i] = file[i]
  BY <1>2, <1>3, <1>4
<1>6. file' \in Seq(Byte) /\ Len(file') = n
  BY <1>2, <1>3, <1>5
<1>7. sidecar' \in SidecarState
  BY <1>1, <1>3, CutsShrink DEF SidecarState
<1>8. ASSUME ~crossed, sidecar' # NoState, pc = "root" \/ sidecar'.root = root
      PROVE  Vouches(sidecar)'
  <2>1. /\ sidecar'.root = sidecar.root /\ sidecar'.offset \in Nat /\ sidecar.offset \in Nat
        /\ sidecar'.offset <= sidecar.offset
    BY <1>1, <1>3, <1>8, CutsShrink
  <2>2. sidecar # NoState
    <3>1. ASSUME sidecar = NoState PROVE sidecar' = NoState
      BY <1>1, <3>1 DEF Cuts, LeadingDigits, NoState
    <3>2. QED BY <1>8, <3>1
  <2>3. Vouches(sidecar)
    BY <1>8, <2>1, <2>2 DEF Inv, Honest, InBody
  <2>4. sidecar.root \in Root /\ Span[sidecar.root] \in Nat
    BY <1>3, <2>2, SpanType DEF SidecarState
  <2>5. /\ sidecar'.offset <= synced /\ sidecar'.offset <= Span[sidecar.root]
        /\ Len(file') <= Span[sidecar.root]
    BY <1>2, <1>3, <1>6, <2>1, <2>3, <2>4 DEF Vouches
  <2>6. \A i \in 1..sidecar'.offset : file'[i] = <<sidecar.root, i>>
    BY <1>3, <1>5, <2>1, <2>3, <2>5 DEF Vouches, BytesOf
  <2>7. QED BY <1>1, <2>1, <2>5, <2>6 DEF Vouches, BytesOf
<1>9. synced' \in Nat /\ synced' <= Len(file')
  BY <1>1, <1>2, <1>3, <1>6
<1>10. QED BY <1>1, <1>6, <1>7, <1>8, <1>9, EndInv

LEMMA InvNext == Inv /\ [Next]_vars => Inv'
<1>1. SUFFICES ASSUME Inv, [Next]_vars PROVE Inv'
  OBVIOUS
<1>2. ASSUME UNCHANGED vars PROVE Inv'
  <2>1. UNCHANGED <<file, synced, sidecar, pc, root, written, outcome, crossed>>
    BY <1>2 DEF vars, diskVars, runVars
  <2>2. QED
    BY <1>1, <2>1 DEF Inv, Typed, Running, Honest, Returned, InBody, Vouches, BytesOf
<1>3. CASE \E r \in Root : Begin(r)
  BY <1>1, <1>3, BeginInv
<1>4. CASE Step
  BY <1>1, <1>4, RetryInv, RootFetchedInv, WriteInv, CommitInv, FinishInv DEF Step
<1>5. CASE RootFails \/ SinkFails \/ CommitFails
  BY <1>1, <1>5, FailInv
<1>6. CASE JoinFails \/ Kill \/ PowerFails
  BY <1>1, <1>6, JoinFailsInv, KillInv, PowerInv
<1>7. CASE Ended
  BY <1>2, <1>7 DEF Ended
<1>8. QED BY <1>1, <1>2, <1>3, <1>4, <1>5, <1>6, <1>7 DEF Next

LEMMA InvAlways == Spec => []Inv
  BY InvInit, InvNext, PTL DEF Spec

-----------------------------------------------------------------------------
(* Theorems.                                                               *)

LEMMA BodyType ==
  ASSUME NEW r \in Root
  PROVE  /\ Body(r) \in Seq(Byte) /\ Len(Body(r)) = Span[r]
         /\ \A i \in 1..Span[r] : Body(r)[i] = <<r, i>>
  BY SpanType DEF Body, Byte

\* For any lengths and commit intervals the sidecar, whole or torn, vouches
\* only for synced bytes of its root, after any failures, kills and power
\* failures, as long as no run over another root's sidecar died.
THEOREM SidecarAlwaysHonest == Spec => []SidecarHonest
<1>1. Inv => SidecarHonest
  <2>1. SUFFICES ASSUME Inv, ~crossed, sidecar # NoState,
                        pc \in {"idle", "root"} \/ sidecar.root = root
                 PROVE  sidecar.offset <= synced /\ Matches(sidecar)
    BY DEF SidecarHonest
  <2>2. Vouches(sidecar)
    BY <2>1 DEF Inv, Honest, InBody
  <2>3. /\ sidecar.root \in Root /\ sidecar.offset \in Nat /\ file \in Seq(Byte)
        /\ Span[sidecar.root] \in Nat /\ synced <= Len(file) /\ synced \in Nat
    BY <2>1, SpanType DEF Inv, Typed, SidecarState
  <2>4. sidecar.offset <= Len(file) /\ sidecar.offset <= Span[sidecar.root]
    BY <2>2, <2>3 DEF Vouches
  <2>5. /\ Body(sidecar.root) \in Seq(Byte) /\ Len(Body(sidecar.root)) = Span[sidecar.root]
        /\ \A i \in 1..Span[sidecar.root] : Body(sidecar.root)[i] = <<sidecar.root, i>>
    BY <2>3, BodyType
  <2>6. SubSeq(file, 1, sidecar.offset) = [i \in 1..sidecar.offset |-> file[i]]
    BY <2>3, <2>4
  <2>7. SubSeq(Body(sidecar.root), 1, sidecar.offset)
            = [i \in 1..sidecar.offset |-> Body(sidecar.root)[i]]
    BY <2>3, <2>4, <2>5
  <2>8. \A i \in 1..sidecar.offset : file[i] = Body(sidecar.root)[i]
    <3>1. TAKE i \in 1..sidecar.offset
    <3>2. file[i] = <<sidecar.root, i>>
      BY <2>2 DEF Vouches, BytesOf
    <3>3. i \in 1..Span[sidecar.root]
      BY <2>3, <2>4
    <3>4. QED BY <2>5, <3>2, <3>3
  <2>9. QED BY <2>2, <2>6, <2>7, <2>8 DEF Vouches, Matches
<1>2. QED BY <1>1, InvAlways, PTL

\* A fetch that returns Ok leaves exactly the file behind its root, after any
\* number of failed, killed and resumed runs of this and other roots, with
\* the same exception.
THEOREM OutputAsFetched == Spec => []OutputExact
<1>1. Inv => OutputExact
  <2>1. SUFFICES ASSUME Inv, outcome = "ok", ~crossed PROVE file = Body(root)
    BY DEF OutputExact
  <2>2. /\ root \in Root /\ file \in Seq(Byte) /\ Len(file) = Span[root]
        /\ \A i \in 1..Span[root] : file[i] = <<root, i>>
    BY <2>1 DEF Inv, Typed, Returned, BytesOf
  <2>3. QED BY <2>2, BodyType, SeqEqual
<1>2. QED BY <1>1, InvAlways, PTL

-----------------------------------------------------------------------------
(* The chunk store: its inductive invariant.                               *)

Cell == (Chunk \X Nat) \cup {Junk}

Within(ix, n) == \A a \in DOMAIN ix : ix[a][1] + Size[a] <= n

Holds(ix) == \A a \in DOMAIN ix : \A k \in 1..Size[a] : data[ix[a][1] + k] = <<a, k>>

\* What is synced is in the file, and an open store writes behind it.
Lengths ==
    /\ data \in Seq(Cell) /\ Entries(idx) /\ Entries(index)
    /\ safe \in Nat /\ end \in Nat /\ safe <= Len(data)
    /\ open => safe <= end /\ end <= Len(data)
    /\ Within(index, end)

Modes ==
    /\ ~open => DOMAIN index = {}
    /\ clearing => ~open /\ kept = {}

\* The flushed chunks are in the synced part, and in memory.
Flushes ==
    /\ \A a \in kept : a \in DOMAIN idx /\ idx[a][1] + Size[a] <= safe
    /\ open => kept \subseteq DOMAIN index

\* The index in memory is right about the file, and so is the one on disk,
\* which only speaks of the synced part.
Right ==
    ~orphan => /\ Holds(index)
               /\ ~clearing => Within(idx, safe) /\ Holds(idx)

StoreInv == Lengths /\ Modes /\ Flushes /\ Right

-----------------------------------------------------------------------------
(* Facts about the file operations.                                        *)

LEMMA SizeType == \A a \in Chunk : Size[a] \in Nat /\ Size[a] > 0
  BY StoreAssumption

LEMMA WireType ==
  ASSUME NEW a \in Chunk
  PROVE  /\ Wire(a) \in Seq(Cell) /\ Len(Wire(a)) = Size[a]
         /\ \A k \in 1..Size[a] : Wire(a)[k] = <<a, k>>
  BY SizeType DEF Wire, Cell

\* A write at an offset within the file keeps what is before the offset.
LEMMA WriteKeeps ==
  ASSUME NEW f \in Seq(Cell), NEW off \in Nat, off <= Len(f), NEW w \in Seq(Cell)
  PROVE  /\ WriteAt(f, off, w) \in Seq(Cell)
         /\ Len(WriteAt(f, off, w)) >= Len(f)
         /\ Len(WriteAt(f, off, w)) >= off + Len(w)
         /\ \A i \in 1..off : WriteAt(f, off, w)[i] = f[i]
         /\ \A k \in 1..Len(w) : WriteAt(f, off, w)[off + k] = w[k]
<1> DEFINE n == IF Len(f) > off + Len(w) THEN Len(f) ELSE off + Len(w)
           g == WriteAt(f, off, w)
<1>1. n \in Nat /\ n >= Len(f) /\ n >= off + Len(w)
  OBVIOUS
<1>2. g = [i \in 1..n |-> IF i \in (off + 1)..(off + Len(w)) THEN w[i - off] ELSE f[i]]
  BY DEF WriteAt
<1>3. \A i \in 1..n : (IF i \in (off + 1)..(off + Len(w)) THEN w[i - off] ELSE f[i]) \in Cell
  OBVIOUS
<1> HIDE DEF n
<1>4. g \in [1..n -> Cell]
  BY <1>2, <1>3
<1>5. g \in Seq(Cell) /\ Len(g) = n
  BY <1>1, <1>4
<1>6. \A i \in 1..off : g[i] = f[i]
  BY <1>1, <1>2
<1>7. \A k \in 1..Len(w) : g[off + k] = w[k]
  BY <1>1, <1>2
<1>8. QED BY <1>1, <1>5, <1>6, <1>7

-----------------------------------------------------------------------------
(* Every action keeps the invariant.                                       *)

LEMMA StoreInvInit == StoreInit => StoreInv
<1>1. SUFFICES ASSUME StoreInit PROVE StoreInv
  OBVIOUS
<1>2. data = <<>> /\ idx = <<>> /\ index = <<>> /\ safe = 0 /\ end = 0 /\ kept = {} /\ ~open
      /\ ~clearing
  BY <1>1 DEF StoreInit
<1>3. DOMAIN idx = {} /\ DOMAIN index = {} /\ data \in Seq(Cell) /\ Len(data) = 0
  BY <1>2
<1>4. QED BY <1>2, <1>3 DEF StoreInv, Lengths, Modes, Flushes, Right, Entries, Within, Holds

LEMMA OpenInv == ASSUME StoreInv, Open PROVE StoreInv'
<1>1. /\ index' = [a \in {b \in DOMAIN idx : idx[b][1] + idx[b][2] <= Len(data)} |-> idx[a]]
      /\ end' = Len(data) /\ open' = TRUE /\ ~clearing
      /\ UNCHANGED <<data, idx, safe, clearing, kept, orphan>>
  BY DEF Open, load_index
<1>2. /\ \A a \in DOMAIN index' : a \in DOMAIN idx /\ index'[a] = idx[a]
                                  /\ idx[a][1] + Size[a] <= Len(data)
      /\ \A a \in DOMAIN idx : idx[a][1] + Size[a] <= Len(data) => a \in DOMAIN index'
  BY <1>1 DEF StoreInv, Lengths, Entries
<1>3. Lengths'
  BY <1>1, <1>2 DEF StoreInv, Lengths, Entries, Within
<1>4. Modes'
  BY <1>1 DEF Modes
<1>5. Flushes'
  <2>1. \A a \in kept : a \in DOMAIN index'
    <3>1. SUFFICES ASSUME NEW a \in kept PROVE idx[a][1] + Size[a] <= Len(data)
      BY <1>2 DEF StoreInv, Flushes
    <3>2. /\ idx[a][1] \in Nat /\ Size[a] \in Nat /\ Len(data) \in Nat /\ safe \in Nat
          /\ idx[a][1] + Size[a] <= safe /\ safe <= Len(data)
      BY SizeType DEF StoreInv, Lengths, Flushes, Entries
    <3>3. QED BY <3>2
  <2>2. QED BY <1>1, <2>1 DEF StoreInv, Flushes
<1>6. Right'
  BY <1>1, <1>2 DEF StoreInv, Right, Holds, Within
<1>7. QED BY <1>3, <1>4, <1>5, <1>6 DEF StoreInv

\* What put does to the file and the index in memory, whatever follows.
LEMMA PutFile ==
  ASSUME StoreInv, NEW a \in Chunk, open, ~contains(a),
         data' = WriteAt(data, end, Wire(a)), end' = end + Size[a],
         index' = [b \in DOMAIN index \cup {a} |->
                     IF b = a THEN <<end, Size[a]>> ELSE index[b]]
  PROVE  /\ data' \in Seq(Cell) /\ Entries(index') /\ end' \in Nat
         /\ end <= end' /\ end' <= Len(data') /\ safe <= end /\ safe <= Len(data')
         /\ Within(index', end') /\ DOMAIN index \subseteq DOMAIN index'
         /\ ~orphan => Holds(index)'
         /\ ~orphan => \A b \in DOMAIN idx : \A k \in 1..Size[b] :
                          data'[idx[b][1] + k] = <<b, k>>
         /\ ~clearing
<1>1. /\ data \in Seq(Cell) /\ Wire(a) \in Seq(Cell) /\ Len(Wire(a)) = Size[a]
      /\ Size[a] \in Nat /\ end \in Nat /\ end <= Len(data) /\ safe \in Nat /\ safe <= end
      /\ Entries(index) /\ Entries(idx) /\ Within(index, end) /\ ~clearing
  BY WireType, SizeType DEF StoreInv, Lengths, Modes
<1>2. /\ data' \in Seq(Cell) /\ Len(data') >= end + Size[a]
      /\ \A i \in 1..end : data'[i] = data[i]
      /\ \A k \in 1..Size[a] : data'[end + k] = <<a, k>>
  <2>1. /\ data' \in Seq(Cell) /\ Len(data') >= end + Len(Wire(a))
        /\ \A i \in 1..end : data'[i] = data[i]
        /\ \A k \in 1..Len(Wire(a)) : data'[end + k] = Wire(a)[k]
    BY <1>1, WriteKeeps
  <2>2. QED BY <1>1, <2>1, WireType
<1>3. /\ DOMAIN index' = DOMAIN index \cup {a} /\ index'[a] = <<end, Size[a]>>
      /\ \A b \in DOMAIN index : b # a /\ index'[b] = index[b]
  BY DEF contains
<1>4. Entries(index')
  BY <1>1, <1>3 DEF Entries
<1>5. Within(index', end')
  <2>1. SUFFICES ASSUME NEW b \in DOMAIN index' PROVE index'[b][1] + Size[b] <= end'
    BY DEF Within
  <2>2. CASE b = a
    BY <1>1, <1>3, <2>2
  <2>3. CASE b \in DOMAIN index
    <3>1. index[b][1] \in Nat /\ Size[b] \in Nat /\ index[b][1] + Size[b] <= end
      BY <1>1, <2>3, SizeType DEF Entries, Within
    <3>2. QED BY <1>1, <1>3, <2>3, <3>1
  <2>4. QED BY <1>3, <2>2, <2>3
<1>6. ASSUME ~orphan PROVE Holds(index)'
  <2>1. SUFFICES ASSUME NEW b \in DOMAIN index', NEW k \in 1..Size[b]
                 PROVE  data'[index'[b][1] + k] = <<b, k>>
    BY DEF Holds
  <2>2. CASE b = a
    BY <1>1, <1>2, <1>3, <2>2
  <2>3. CASE b \in DOMAIN index
    <3>1. index[b][1] \in Nat /\ Size[b] \in Nat /\ index[b][1] + Size[b] <= end
      BY <1>1, <2>3, SizeType DEF Entries, Within
    <3>2. index[b][1] + k \in 1..end
      <4>1. k \in Nat /\ 1 <= k /\ k <= Size[b] /\ end \in Nat
        BY <1>1, <3>1
      <4>2. QED BY <3>1, <4>1
    <3>3. data[index[b][1] + k] = <<b, k>>
      BY <1>6, <2>3 DEF StoreInv, Right, Holds
    <3>4. QED BY <1>2, <1>3, <2>3, <3>2, <3>3
  <2>4. QED BY <1>3, <2>2, <2>3
<1>7. ASSUME ~orphan, NEW b \in DOMAIN idx, NEW k \in 1..Size[b]
      PROVE  data'[idx[b][1] + k] = <<b, k>>
  <2>1. idx[b][1] \in Nat /\ Size[b] \in Nat /\ idx[b][1] + Size[b] <= safe
    BY <1>1, <1>7, SizeType DEF StoreInv, Right, Entries, Within
  <2>2. idx[b][1] + k \in 1..end
    BY <1>1, <2>1
  <2>3. data[idx[b][1] + k] = <<b, k>>
    BY <1>1, <1>7 DEF StoreInv, Right, Holds
  <2>4. QED BY <1>2, <2>2, <2>3
<1>8. /\ end' \in Nat /\ end <= end' /\ end' <= Len(data') /\ safe <= end
      /\ safe <= Len(data') /\ DOMAIN index \subseteq DOMAIN index'
  BY <1>1, <1>2, <1>3
<1>9. QED BY <1>1, <1>2, <1>4, <1>5, <1>6, <1>7, <1>8

LEMMA PutInv == ASSUME StoreInv, NEW a \in Chunk, Put(a) PROVE StoreInv'
<1>1. /\ open /\ open' = open /\ ~contains(a) /\ UNCHANGED <<clearing, orphan>>
      /\ data' = WriteAt(data, end, Wire(a)) /\ end' = end + Size[a]
      /\ index' = [b \in DOMAIN index \cup {a} |->
                     IF b = a THEN <<end, Size[a]>> ELSE index[b]]
  BY DEF Put
<1>2. /\ data' \in Seq(Cell) /\ Entries(index') /\ end' \in Nat
      /\ end <= end' /\ end' <= Len(data') /\ safe <= end /\ safe <= Len(data')
      /\ Within(index', end') /\ DOMAIN index \subseteq DOMAIN index'
      /\ ~clearing
      /\ ~orphan => Holds(index)'
  BY <1>1, PutFile
<1>3. ~orphan => \A b \in DOMAIN idx : \A k \in 1..Size[b] : data'[idx[b][1] + k] = <<b, k>>
  BY <1>1, PutFile
<1>4. safe \in Nat /\ end \in Nat /\ Entries(idx)
  BY DEF StoreInv, Lengths
<1>5. Modes'
  BY <1>1, <1>2 DEF Modes
<1>6. CASE Flushed(index', end')
  <2>1. safe' = end' /\ idx' = index' /\ kept' = DOMAIN index'
    BY <1>6 DEF Flushed
  <2>2. Lengths'
    BY <1>1, <1>2, <2>1 DEF Lengths
  <2>3. Flushes'
    BY <1>1, <1>2, <2>1 DEF Flushes, Within
  <2>4. Right'
    BY <1>1, <1>2, <2>1 DEF Right, Holds
  <2>5. QED BY <1>5, <2>2, <2>3, <2>4 DEF StoreInv
<1>7. CASE safe' \in {safe, end'} /\ UNCHANGED <<idx, kept>>
  <2>1. safe <= safe' /\ safe' \in Nat /\ safe' <= end' /\ safe' <= Len(data') /\ idx' = idx
    BY <1>2, <1>4, <1>7
  <2>2. Lengths'
    BY <1>1, <1>2, <1>4, <2>1 DEF Lengths
  <2>3. Flushes'
    <3>1. ASSUME NEW b \in kept PROVE b \in DOMAIN idx /\ idx[b][1] + Size[b] <= safe'
      <4>1. b \in DOMAIN idx /\ idx[b][1] + Size[b] <= safe
        BY <3>1 DEF StoreInv, Flushes
      <4>2. idx[b][1] \in Nat /\ Size[b] \in Nat
        BY <1>4, <4>1, SizeType DEF Entries
      <4>3. QED BY <1>4, <2>1, <4>1, <4>2
    <3>2. kept \subseteq DOMAIN index'
      BY <1>1, <1>2 DEF StoreInv, Flushes
    <3>3. QED BY <1>7, <3>1, <3>2 DEF Flushes
  <2>4. Right'
    <3>1. ASSUME ~orphan PROVE Within(idx, safe')
      <4>1. SUFFICES ASSUME NEW b \in DOMAIN idx PROVE idx[b][1] + Size[b] <= safe'
        BY DEF Within
      <4>2. idx[b][1] + Size[b] <= safe
        BY <1>2, <3>1 DEF StoreInv, Right, Within
      <4>3. idx[b][1] \in Nat /\ Size[b] \in Nat
        BY <1>4, SizeType DEF Entries
      <4>4. QED BY <1>4, <2>1, <4>2, <4>3
    <3>2. QED BY <1>1, <1>2, <1>3, <2>1, <3>1 DEF Right, Holds
  <2>5. QED BY <1>5, <2>2, <2>3, <2>4 DEF StoreInv
<1>8. QED BY <1>6, <1>7 DEF Put

LEMMA PutStopsInv == ASSUME StoreInv, NEW a \in Chunk, PutStops(a) PROVE StoreInv'
<1>1. PICK n \in 0..(Size[a] - 1) : data' = WriteAt(data, end, SubSeq(Wire(a), 1, n))
  BY DEF PutStops
<1>2. /\ data \in Seq(Cell) /\ open /\ end \in Nat /\ end <= Len(data) /\ safe <= end
      /\ safe \in Nat /\ Size[a] \in Nat
      /\ Wire(a) \in Seq(Cell) /\ Len(Wire(a)) = Size[a]
  BY SizeType, WireType DEF StoreInv, Lengths, PutStops
<1> DEFINE w == SubSeq(Wire(a), 1, n)
<1>3. w \in Seq(Cell) /\ data' = WriteAt(data, end, w)
  BY <1>1, <1>2
<1> HIDE DEF w
<1>4. /\ data' \in Seq(Cell) /\ Len(data') >= Len(data)
      /\ \A i \in 1..end : data'[i] = data[i]
  BY <1>2, <1>3, WriteKeeps
<1>5. UNCHANGED <<idx, safe, open, end, index, clearing, kept, orphan>>
  BY DEF PutStops, memVars
<1>6. Lengths'
  <2>1. safe <= Len(data') /\ end <= Len(data')
    BY <1>2, <1>4
  <2>2. QED BY <1>4, <1>5, <2>1 DEF StoreInv, Lengths
<1>7. Modes' /\ Flushes'
  BY <1>5 DEF StoreInv, Modes, Flushes
<1>8. Right'
  <2>1. SUFFICES ASSUME ~orphan
                 PROVE  Holds(index)' /\ (~clearing => Within(idx, safe) /\ Holds(idx)')
    BY <1>5 DEF Right, Within
  <2>2. \A b \in DOMAIN index : \A k \in 1..Size[b] : index[b][1] + k \in 1..end
    BY <1>2, SizeType DEF StoreInv, Lengths, Within, Entries
  <2>3. Holds(index)'
    BY <1>4, <1>5, <2>1, <2>2 DEF StoreInv, Right, Holds
  <2>4. ASSUME ~clearing PROVE Within(idx, safe) /\ Holds(idx)'
    <3>1. Within(idx, safe) /\ Holds(idx)
      BY <2>1, <2>4 DEF StoreInv, Right
    <3>2. \A b \in DOMAIN idx : \A k \in 1..Size[b] : idx[b][1] + k \in 1..end
      BY <1>2, <3>1, SizeType DEF StoreInv, Lengths, Within, Entries
    <3>3. QED BY <1>4, <1>5, <3>1, <3>2 DEF Holds
  <2>5. QED BY <2>3, <2>4
<1>9. QED BY <1>6, <1>7, <1>8 DEF StoreInv

LEMMA FlushInv == ASSUME StoreInv, Flush PROVE StoreInv'
<1>1. open /\ UNCHANGED <<data, open, end, index, clearing, orphan>>
  BY DEF Flush
<1>2. /\ safe \in Nat /\ end \in Nat /\ safe <= end /\ end <= Len(data) /\ ~clearing
      /\ data \in Seq(Cell) /\ Entries(idx) /\ Entries(index) /\ Within(index, end)
  BY <1>1 DEF StoreInv, Lengths, Modes
<1>3. Modes'
  BY <1>1, <1>2 DEF Modes
<1>4. CASE Flushed(index, end)
  <2>1. safe' = end /\ idx' = index /\ kept' = DOMAIN index
    BY <1>4 DEF Flushed
  <2>2. Lengths' /\ Flushes'
    BY <1>1, <1>2, <2>1 DEF Lengths, Flushes, Within
  <2>3. Right'
    BY <1>1, <1>2, <2>1 DEF StoreInv, Right, Holds
  <2>4. QED BY <1>3, <2>2, <2>3 DEF StoreInv
<1>5. CASE FlushStops(end)
  <2>1. safe <= safe' /\ safe' \in Nat /\ safe' <= end /\ UNCHANGED <<idx, kept>>
    BY <1>2, <1>5 DEF FlushStops
  <2>2. safe' <= Len(data)
    BY <1>2, <2>1
  <2>3. Lengths'
    BY <1>1, <1>2, <2>1, <2>2 DEF Lengths
  <2>4. \A b \in DOMAIN idx : idx[b][1] + Size[b] <= safe => idx[b][1] + Size[b] <= safe'
    BY <1>2, <2>1, SizeType DEF Entries
  <2>5. Flushes'
    BY <1>1, <2>1, <2>4 DEF StoreInv, Flushes
  <2>6. Right'
    BY <1>1, <2>1, <2>4 DEF StoreInv, Right, Holds, Within
  <2>7. QED BY <1>3, <2>3, <2>5, <2>6 DEF StoreInv
<1>6. QED BY <1>4, <1>5 DEF Flush

LEMMA StoreKilledInv == ASSUME StoreInv, StoreKilled PROVE StoreInv'
<1>1. /\ UNCHANGED <<data, idx, safe, kept>> /\ index' = <<>> /\ end' = 0
      /\ ~open' /\ ~clearing' /\ orphan' = (orphan \/ clearing)
  BY DEF StoreKilled
<1>2. DOMAIN index' = {}
  BY <1>1
<1>3. Lengths' /\ Modes' /\ Flushes'
  BY <1>1, <1>2 DEF StoreInv, Lengths, Modes, Flushes, Entries, Within
<1>4. Right'
  BY <1>1, <1>2 DEF StoreInv, Right, Holds, Within
<1>5. QED BY <1>3, <1>4 DEF StoreInv

\* The bytes up to safe survive, whatever becomes of the others.
LEMMA StorePowerInv == ASSUME StoreInv, StoreLosesPower PROVE StoreInv'
<1>1. /\ UNCHANGED <<idx, safe, kept, clearing, orphan>> /\ index' = <<>> /\ end' = 0
      /\ ~open' /\ ~clearing
  BY DEF StoreLosesPower, StoreInv, Modes
<1>2. /\ data \in Seq(Cell) /\ safe \in Nat /\ safe <= Len(data) /\ Len(data) \in Nat
  BY DEF StoreInv, Lengths
<1>3. PICK n \in safe..Len(data) :
          \/ data' = SubSeq(data, 1, n)
          \/ data' = [i \in 1..n |-> IF i > safe THEN Junk ELSE data[i]]
  BY DEF StoreLosesPower
<1>4. data' \in Seq(Cell) /\ Len(data') = n /\ \A i \in 1..safe : data'[i] = data[i]
  <2>1. CASE data' = SubSeq(data, 1, n)
    BY <1>2, <1>3, <2>1
  <2>2. CASE data' = [i \in 1..n |-> IF i > safe THEN Junk ELSE data[i]]
    <3>1. \A i \in 1..n : (IF i > safe THEN Junk ELSE data[i]) \in Cell
      BY <1>2, <1>3 DEF Cell
    <3>2. data' \in [1..n -> Cell]
      BY <2>2, <3>1
    <3>3. data' \in Seq(Cell) /\ Len(data') = n
      BY <1>2, <1>3, <3>2
    <3>4. QED BY <1>2, <1>3, <2>2, <3>3
  <2>3. QED BY <1>3, <2>1, <2>2
<1>5. DOMAIN index' = {}
  BY <1>1
<1>6. Lengths' /\ Modes' /\ Flushes'
  <2>1. safe <= Len(data')
    BY <1>2, <1>3, <1>4
  <2>2. QED
    BY <1>1, <1>4, <1>5, <2>1 DEF StoreInv, Lengths, Modes, Flushes, Entries, Within
<1>7. Right'
  <2>1. SUFFICES ASSUME ~orphan PROVE Within(idx, safe) /\ Holds(idx)'
    BY <1>1, <1>5 DEF Right, Holds, Within
  <2>2. Within(idx, safe) /\ Holds(idx)
    BY <1>1, <2>1 DEF StoreInv, Right
  <2>3. \A b \in DOMAIN idx : \A k \in 1..Size[b] : idx[b][1] + k \in 1..safe
    BY <1>2, <2>2, SizeType DEF StoreInv, Lengths, Within, Entries
  <2>4. QED BY <1>1, <1>4, <2>2, <2>3 DEF Holds
<1>8. QED BY <1>6, <1>7 DEF StoreInv

LEMMA ClearInv == ASSUME StoreInv, ClearData \/ ClearIndex PROVE StoreInv'
<1>1. CASE ClearData
  <2>1. /\ data' = <<>> /\ index' = <<>> /\ end' = 0 /\ safe' = 0 /\ kept' = {}
        /\ ~open' /\ clearing' /\ UNCHANGED <<idx, orphan>>
    BY <1>1 DEF ClearData
  <2>2. DOMAIN index' = {} /\ data' \in Seq(Cell) /\ Len(data') = 0
    BY <2>1
  <2>3. QED BY <2>1, <2>2 DEF StoreInv, Lengths, Modes, Flushes, Right, Entries, Within, Holds
<1>2. CASE ClearIndex
  <2>1. /\ UNCHANGED <<data, safe, open, end, index, kept>> /\ ~clearing' /\ kept = {}
        /\ ~open /\ DOMAIN index = {}
        /\ (idx' = <<>> /\ orphan' = FALSE) \/ (orphan' = TRUE /\ idx' = idx)
    BY <1>2 DEF ClearIndex, memVars, StoreInv, Modes
  <2>2. CASE idx' = <<>> /\ orphan' = FALSE
    <3>1. DOMAIN idx' = {}
      BY <2>2
    <3>2. QED
      BY <2>1, <3>1 DEF StoreInv, Lengths, Modes, Flushes, Right, Entries, Within, Holds
  <2>3. CASE orphan' = TRUE /\ idx' = idx
    BY <2>1, <2>3 DEF StoreInv, Lengths, Modes, Flushes, Right, Entries, Within
  <2>4. QED BY <2>1, <2>2, <2>3
<1>3. QED BY <1>1, <1>2

LEMMA StoreInvNext == StoreInv /\ [StoreNext]_storeVars => StoreInv'
<1>1. SUFFICES ASSUME StoreInv, [StoreNext]_storeVars PROVE StoreInv'
  OBVIOUS
<1>2. ASSUME UNCHANGED storeVars PROVE StoreInv'
  <2>1. UNCHANGED <<data, idx, safe, open, end, index, clearing, kept, orphan>>
    BY <1>2 DEF storeVars, memVars
  <2>2. QED BY <1>1, <2>1 DEF StoreInv, Lengths, Modes, Flushes, Right, Entries, Within, Holds
<1>3. CASE \E a \in Chunk : Put(a) \/ PutStops(a)
  BY <1>1, <1>3, PutInv, PutStopsInv
<1>4. CASE Open \/ Flush \/ StoreKilled \/ StoreLosesPower
  BY <1>1, <1>4, OpenInv, FlushInv, StoreKilledInv, StorePowerInv
<1>5. CASE ClearData \/ ClearIndex
  BY <1>1, <1>5, ClearInv
<1>6. CASE StoreEnded
  BY <1>2, <1>6 DEF StoreEnded
<1>7. QED BY <1>1, <1>2, <1>3, <1>4, <1>5, <1>6 DEF StoreNext

LEMMA StoreInvAlways == StoreSpec => []StoreInv
  BY StoreInvInit, StoreInvNext, PTL DEF StoreSpec

-----------------------------------------------------------------------------
(* Theorems.                                                               *)

\* What get returns for an indexed chunk is that chunk, for any chunk sizes
\* and any sequence of puts, torn writes, failing flushes, kills, power
\* failures and restarts, unless an interrupted clear left an index behind.
THEOREM IndexedReadsBack == StoreSpec => []ReadsBack
<1>1. StoreInv => ReadsBack
  <2>1. SUFFICES ASSUME StoreInv, ~orphan, NEW a \in DOMAIN index PROVE get(a) = Wire(a)
    BY DEF ReadsBack
  <2>2. /\ a \in Chunk /\ index[a][1] \in Nat /\ index[a][2] = Size[a] /\ Size[a] \in Nat
        /\ data \in Seq(Cell) /\ index[a][1] + Size[a] <= Len(data)
    <3>1. /\ a \in Chunk /\ index[a][1] \in Nat /\ index[a][2] = Size[a]
          /\ data \in Seq(Cell) /\ end \in Nat /\ end <= Len(data)
          /\ index[a][1] + Size[a] <= end
      BY <2>1 DEF StoreInv, Lengths, Modes, Entries, Within
    <3>2. QED BY <3>1, SizeType
  <2>3. \A k \in 1..Size[a] : data[index[a][1] + k] = <<a, k>>
    BY <2>1 DEF StoreInv, Right, Holds
  <2>4. get(a) = SubSeq(data, index[a][1] + 1, index[a][1] + Size[a])
    BY <2>2 DEF get
  <2>5. get(a) = [k \in 1..Size[a] |-> data[index[a][1] + k]]
    BY <2>2, <2>4
  <2>6. QED BY <2>3, <2>5 DEF Wire
<1>2. QED BY <1>1, StoreInvAlways, PTL

\* A chunk whose index reached the disk is in the index of every later life
\* until the store is cleared: resume loses no flushed chunk.
THEOREM FlushedStaysFound == StoreSpec => []FlushedKept
<1>1. StoreInv => FlushedKept
  BY DEF StoreInv, Flushes, FlushedKept
<1>2. QED BY <1>1, StoreInvAlways, PTL
=============================================================================
