--------------------------- MODULE ResumableFetch ---------------------------
(***************************************************************************)
(* fetch_to_file of ds-net/src/fetch.rs with its sidecar (ds-core          *)
(* resume.rs) and the chunk fetcher of bee_api.rs, over several runs into  *)
(* one output path.  The joiner produces the body from the resume offset   *)
(* on, the sink writes it and commits the sidecar every CommitInterval     *)
(* bytes, after a sync.  The sidecar is rewritten in place and never       *)
(* synced: a kill during the rewrite, or a power failure later, may leave  *)
(* any prefix of its text (names and lengths reach the medium in order).   *)
(* Runs end, fail, are killed and are started again, with the same root or *)
(* with another one.                                                       *)
(*                                                                         *)
(* Byte k of the file behind root r is <<r, k>>; one chunk is one byte.    *)
(***************************************************************************)
EXTENDS Integers, Sequences

CONSTANTS
    Root,            \* root references
    Span,            \* total_span of each
    CommitInterval,  \* COMMIT_INTERVAL, 8 MiB in the code
    Attempts,        \* ATTEMPTS of the bee fetcher
    Base,            \* offsets are written in this base, 10 in the code
    MaxRuns, MaxFails    \* bounds

ASSUME FetchAssumption ==
    /\ Span \in [Root -> Nat]
    /\ CommitInterval \in Nat \ {0} /\ Attempts \in Nat \ {0}
    /\ Base \in Nat /\ Base >= 2
    /\ MaxRuns \in Nat /\ MaxFails \in Nat

VARIABLES
    file,        \* the output file
    synced,      \* bytes of it that a power failure cannot take
    sidecar,     \* its text, parsed; NoState when absent or unreadable
    pc,          \* idle, root, body; commit and last while the sidecar is
                 \* rewritten, by the sink and after a failed join
    root, start, written, lastCommit,   \* the run
    attempt,     \* failed attempts for the chunk being fetched
    outcome,     \* of the last run: none, ok, failed
    runs, fails  \* counters of the bounds

VARIABLE crossed \* history: a run over another root's sidecar ended without replacing it

runVars  == <<root, start, written, lastCommit, attempt>>
diskVars == <<file, synced, sidecar>>
vars     == <<diskVars, pc, runVars, outcome, runs, fails, crossed>>

-----------------------------------------------------------------------------
NoState == [root |-> "none", offset |-> 0]

Zero == <<"zero", 0>>

Body(r) == [k \in 1..Span[r] |-> <<r, k>>]

\* ResumeState::parse of the text of s cut at any point: without its last
\* line's first digit it does not parse, with fewer digits it is smaller.
LeadingDigits(n) == {m \in 0..n : \E j \in 0..n : m = n \div Base ^ j}

Cuts(s) == {NoState} \cup {[s EXCEPT !.offset = m] : m \in LeadingDigits(s.offset)}

\* read_resume_offset: the state must be of this root and within its span.
read_resume_offset(r) ==
    IF sidecar.root = r /\ sidecar.offset <= Span[r] THEN sidecar.offset ELSE 0

\* set_len cuts the file, or extends it with zeros.
SetLen(f, n) == [i \in 1..n |-> IF i <= Len(f) THEN f[i] ELSE Zero]

Least(m, n) == IF m < n THEN m ELSE n

Init ==
    /\ file = <<>> /\ synced = 0 /\ sidecar = NoState
    /\ pc = "idle" /\ root \in Root
    /\ start = 0 /\ written = 0 /\ lastCommit = 0 /\ attempt = 0
    /\ outcome = "none" /\ runs = 0 /\ fails = 0
    /\ crossed = FALSE

-----------------------------------------------------------------------------
Begin(r) ==
    /\ pc = "idle" /\ runs < MaxRuns
    /\ pc' = "root" /\ root' = r /\ runs' = runs + 1
    /\ attempt' = 0 /\ outcome' = "none"
    /\ start' = 0 /\ written' = 0 /\ lastCommit' = 0
    /\ UNCHANGED <<diskVars, fails, crossed>>

\* The sidecar at the end of a run is of a root whose bytes the run replaced.
Crosses == crossed' = (crossed \/ (pc # "root" /\ sidecar' # NoState /\ sidecar'.root # root))

Fails ==
    /\ pc' = "idle" /\ outcome' = "failed" /\ Crosses
    /\ UNCHANGED <<runVars, runs>>

MayFail == fails < MaxFails /\ fails' = fails + 1

\* BeeApiFetcher::fetch: transport errors, HTTP errors and cut bodies are
\* tried again, up to Attempts times; a body that does not hash to the
\* address fails the chunk at once.
Fetching == pc = "root" \/ (pc = "body" /\ written < Span[root])

Retry ==
    /\ Fetching /\ attempt + 1 < Attempts
    /\ attempt' = attempt + 1
    /\ UNCHANGED <<diskVars, pc, root, start, written, lastCommit, outcome, runs, fails, crossed>>

\* The root cannot be fetched, or is shorter than a span header.
RootFails ==
    /\ pc = "root" /\ MayFail
    /\ UNCHANGED diskVars
    /\ Fails

\* Mutant: the last byte's offset is taken for the length.
RootFetchedShort ==
    /\ pc = "root"
    /\ LET at == read_resume_offset(root)
       IN  IF Span[root] > 0 /\ at >= Span[root] - 1
           THEN /\ pc' = "idle" /\ outcome' = "ok" /\ start' = at
                /\ sidecar' \in {NoState, sidecar}
                /\ UNCHANGED <<file, synced, written, lastCommit>>
           ELSE /\ pc' = "body" /\ start' = at /\ written' = at /\ lastCommit' = at
                /\ file' = SetLen(file, at) /\ synced' = Least(synced, at)
                /\ UNCHANGED <<sidecar, outcome>>
    /\ attempt' = 0
    /\ UNCHANGED <<root, runs, fails, crossed>>

\* The root is there.  A finished file only loses its sidecar (if that can be
\* removed); any other is cut back to the resume offset.
RootFetched ==
    /\ pc = "root"
    /\ LET at == read_resume_offset(root)
       IN  IF Span[root] > 0 /\ at >= Span[root]
           THEN /\ pc' = "idle" /\ outcome' = "ok" /\ start' = at
                /\ sidecar' \in {NoState, sidecar}
                /\ UNCHANGED <<file, synced, written, lastCommit>>
           ELSE /\ pc' = "body" /\ start' = at /\ written' = at /\ lastCommit' = at
                /\ file' = SetLen(file, at) /\ synced' = Least(synced, at)
                /\ UNCHANGED <<sidecar, outcome>>
    /\ attempt' = 0
    /\ UNCHANGED <<root, runs, fails, crossed>>

\* Mutant: the commit does not wait for the sync.
WriteUnsynced ==
    /\ pc = "body" /\ written < Span[root]
    /\ file' = Append(file, <<root, written + 1>>) /\ written' = written + 1
    /\ attempt' = 0
    /\ pc' = IF written' - lastCommit >= CommitInterval THEN "commit" ELSE "body"
    /\ UNCHANGED <<synced, sidecar, root, start, lastCommit, outcome, runs, fails, crossed>>

\* One buffer reaches the sink; a commit is due CommitInterval bytes after
\* the last one, and starts with a sync of the data.
Write ==
    /\ pc = "body" /\ written < Span[root]
    /\ file' = Append(file, <<root, written + 1>>) /\ written' = written + 1
    /\ attempt' = 0
    /\ IF written' - lastCommit >= CommitInterval
       THEN pc' = "commit" /\ synced' = written'
       ELSE UNCHANGED <<pc, synced>>
    /\ UNCHANGED <<sidecar, root, start, lastCommit, outcome, runs, fails, crossed>>

State == [root |-> root, offset |-> written]

commit_sidecar ==
    /\ pc \in {"commit", "last"}
    /\ sidecar' = State
    /\ \/ /\ pc = "commit" /\ pc' = "body" /\ lastCommit' = written
          /\ UNCHANGED <<outcome, root, start, written, attempt, runs, crossed>>
       \/ pc = "last" /\ Fails
    /\ UNCHANGED <<file, synced, fails>>

\* The sink fails to write or to sync, with some of a buffer in the file and
\* not counted; the sidecar is not touched.
SinkFails ==
    /\ pc = "body" /\ MayFail
    /\ \/ UNCHANGED file
       \/ written < Span[root] /\ file' = Append(file, <<root, written + 1>>)
    /\ UNCHANGED <<synced, sidecar>>
    /\ Fails

\* The sidecar cannot be written, or not all of it.
CommitFails ==
    /\ pc \in {"commit", "last"} /\ MayFail
    /\ sidecar' \in {sidecar} \cup Cuts(State)
    /\ UNCHANGED <<file, synced>>
    /\ Fails

\* The join dies: the sink drains and syncs, and its offset is committed.
JoinFails ==
    /\ pc = "body" /\ written < Span[root] /\ MayFail
    /\ synced' = written /\ pc' = "last"
    /\ UNCHANGED <<file, sidecar, runVars, outcome, runs, crossed>>

\* The body is complete: sync, and remove the sidecar if that can be done.
Finish ==
    /\ pc = "body" /\ written = Span[root]
    /\ synced' = written
    /\ \/ sidecar' = NoState /\ UNCHANGED fails
       \/ MayFail /\ UNCHANGED sidecar
    /\ pc' = "idle" /\ outcome' = "ok" /\ Crosses
    /\ UNCHANGED <<file, runVars, runs>>

Kill ==
    /\ pc # "idle" /\ MayFail
    /\ pc' = "idle" /\ outcome' = "none"
    /\ sidecar' \in {sidecar} \cup (IF pc \in {"commit", "last"} THEN Cuts(State) ELSE {})
    /\ Crosses
    /\ UNCHANGED <<file, synced, runVars, runs>>

\* Unsynced bytes are lost or scrambled, those of the sidecar included.
PowerFails ==
    /\ pc # "idle" /\ MayFail
    /\ pc' = "idle" /\ outcome' = "none"
    /\ \E n \in synced..Len(file) :
          file' = [i \in 1..n |-> IF i > synced THEN Zero ELSE file[i]]
    /\ sidecar' \in Cuts(sidecar)
    /\ Crosses
    /\ UNCHANGED <<synced, runVars, runs>>

Ended == pc = "idle" /\ runs = MaxRuns /\ UNCHANGED vars

Step == \/ Retry \/ RootFetched \/ Write \/ commit_sidecar \/ Finish

Next == \/ \E r \in Root : Begin(r)
        \/ Step \/ RootFails \/ SinkFails \/ CommitFails \/ JoinFails
        \/ Kill \/ PowerFails \/ Ended

Spec == Init /\ [][Next]_vars

-----------------------------------------------------------------------------
\* Every variable has its type; a run stands where the file ends.
TypeOK ==
    /\ file \in Seq((Root \X Nat) \cup {Zero}) /\ synced \in 0..Len(file)
    /\ sidecar \in {NoState} \cup [root : Root, offset : Nat]
    /\ pc \in {"idle", "root", "body", "commit", "last"}
    /\ root \in Root /\ start \in Nat /\ attempt \in 0..(Attempts - 1)
    /\ pc \in {"body", "commit", "last"} =>
          /\ Len(file) = written /\ written \in start..Span[root]
          /\ lastCommit \in start..written
    /\ outcome \in {"none", "ok", "failed"}
    /\ runs \in 0..MaxRuns /\ fails \in 0..MaxFails /\ crossed \in BOOLEAN

Matches(s) == SubSeq(file, 1, s.offset) = SubSeq(Body(s.root), 1, s.offset)

\* Between runs, and during a run of the same root, the sidecar's offset is
\* covered by bytes of its root that are on the medium, torn sidecars and
\* scrambled files included (fetch.rs syncs before it commits, and set_len
\* cuts the unverified tail).
SidecarHonest ==
    (~crossed /\ sidecar # NoState /\ (pc \in {"idle", "root"} \/ sidecar.root = root))
        => sidecar.offset <= synced /\ Matches(sidecar)

\* A fetch that returns Ok leaves exactly the file behind its root, after any
\* number of failed, killed and resumed runs of this and other roots, as long
\* as no run over another root's sidecar died before it replaced it.
OutputExact == outcome = "ok" /\ ~crossed => file = Body(root)

\* The same without the exception: resume.rs says the sidecar records the
\* offset up to which the output file's contents are flushed and verified.
OutputAlwaysExact == outcome = "ok" => file = Body(root)

=============================================================================
