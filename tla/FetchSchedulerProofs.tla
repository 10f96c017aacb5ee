------------------------ MODULE FetchSchedulerProofs ------------------------
(***************************************************************************)
(* Proofs for FetchScheduler, for any number of chunks, buckets, storers   *)
(* and connections, in layers that each use the ones below:                *)
(*   TypeOK     types;                                                     *)
(*   Books      the dispatcher's books;                                    *)
(*   HandsInv   what a connection can hold at each point of its code;      *)
(*   PhaseInv   what is empty before the routing and after the drain;      *)
(*   DebtInv    where unpaid debt can be, and what a parked peer is;       *)
(*   LostInv    the only two ways a chunk can be let go of;                *)
(* and then OneHand, AccountedFor and DrainedIsFinal are inductive; with a *)
(* store that accepts writes,                                              *)
(*   CountInv   what the counters of the report count.                     *)
(***************************************************************************)
EXTENDS FetchScheduler, FiniteSetTheorems, TLAPS

-----------------------------------------------------------------------------
(* Types, one group of variables at a time.                                *)

LEMMA TypeInit == Init => TypeOK
<1> SUFFICES ASSUME Init PROVE TypeOK
  OBVIOUS
<1>1. RunType
  BY DEF Init, RunType
<1>2. DispType
  BY StorerAssumption, BoundAssumption DEF Init, DispType
<1>3. ChunkType
  BY ChunkAssumption DEF Init, ChunkType
<1>4. HandType
  BY DEF Init, HandType, Where
<1>5. FlagType
  BY StorerAssumption DEF Init, FlagType
<1>6. QED BY <1>1, <1>2, <1>3, <1>4, <1>5 DEF TypeOK

\* Only Dispatch and Join touch the dispatcher's books, and only they start
\* or retire an actor.
LEMMA DispFrame ==
  ASSUME HandType, [Next]_vars
  PROVE  \/ \E b \in Bucket : Dispatch(b)
         \/ \E s \in Storer : Join(s)
         \/ UNCHANGED dispVars /\ \A s \in Storer : pc'[s] = "idle" <=> pc[s] = "idle"
<1> DEFINE Same == UNCHANGED dispVars /\ \A s \in Storer : pc'[s] = "idle" <=> pc[s] = "idle"
<1> USE DEF HandType, connVars, Goto
<1>1. CASE Main
  BY <1>1 DEF Main, NothingNeeded, SetupError, Route, StopDispatch, DrainAll, Finish
<1>2. CASE WindDown
  BY <1>2 DEF WindDown
<1>3. CASE Fallback
  BY <1>3 DEF Fallback, FbRecv, FbOk, FbErr
<1>4. ASSUME NEW s \in Storer, Setup(s) \/ HangUp(s) PROVE Same
  BY <1>4 DEF Setup, SetupFail, SetupOk, Enter, HangUp
<1>5. ASSUME NEW s \in Storer, Measure(s) PROVE Same
  BY <1>5 DEF Measure, MeasurePop, MeasureEnd, MeasureOk, MeasureErr, MeasureSweep
<1>6. ASSUME NEW s \in Storer, Drive(s) PROVE Same
  <2>1. UNCHANGED dispVars
    BY <1>6 DEF Drive, TopDead, TopLive, AdmitStop, AdmitNone, AdmitSkip,
       AdmitRefused, AdmitSpawn, Settle, SweepFail, Close
  <2>2. CASE TopDead(s) \/ TopLive(s)
    BY <2>1, <2>2 DEF TopDead, TopLive
  <2>3. CASE AdmitStop(s) \/ AdmitNone(s)
    BY <2>1, <2>3 DEF AdmitStop, AdmitNone, MayAdmit, Reap
  <2>4. ASSUME NEW i \in Item, AdmitSkip(s, i) \/ AdmitRefused(s, i) \/ AdmitSpawn(s, i)
        PROVE Same
    <3>1. pc[s] = "admit" /\ pc' \in {pc, [pc EXCEPT ![s] = "settle"]}
      BY <2>4 DEF AdmitSkip, AdmitRefused, AdmitSpawn, Popped, MayAdmit, Reap
    <3>2. QED BY <2>1, <3>1
  <2>5. CASE Settle(s)
    BY <2>1, <2>5 DEF Settle, EndOfTurn
  <2>6. CASE SweepFail(s) \/ Close(s)
    BY <2>1, <2>6 DEF SweepFail, Close
  <2>7. QED BY <1>6, <2>2, <2>3, <2>4, <2>5, <2>6 DEF Drive
<1>7. ASSUME NEW s \in Storer, Tasks(s) PROVE Same
  BY <1>7 DEF Tasks, TaskOk, TaskErr
<1>8. CASE Done \/ UNCHANGED vars
  BY <1>8 DEF Done, vars
<1>9. QED BY <1>1, <1>2, <1>3, <1>4, <1>5, <1>6, <1>7, <1>8 DEF Next

LEMMA DispTypeNext == TypeOK /\ [Next]_vars => DispType'
<1> SUFFICES ASSUME TypeOK, [Next]_vars PROVE DispType'
  OBVIOUS
<1>0. DispType
  BY DEF TypeOK
<1>1. ASSUME NEW b \in Bucket, Dispatch(b) PROVE DispType'
  <2>0. CandsNow \in [Bucket -> Seq(Storer)] /\ UsedNow \in [Bucket -> Seq(Storer)]
    BY <1>0 DEF CandsNow, UsedNow, DispType
  <2>1. CandsNow[b] # <<>>
    BY <1>1 DEF Dispatch, Eligible
  <2>2. Head(CandsNow[b]) \in Storer /\ Tail(CandsNow[b]) \in Seq(Storer)
    BY <2>0, <2>1
  <2>3. cands' \in [Bucket -> Seq(Storer)] /\ used' \in [Bucket -> Seq(Storer)]
    BY <1>1, <2>0, <2>2 DEF Dispatch
  <2>4. recycles' \in [Bucket -> 0..MaxRecycles]
    <3>1. \A c \in Refillable : recycles[c] + 1 \in 0..MaxRecycles
      BY <1>0, BoundAssumption DEF Refillable, DispType
    <3>2. recycles' = [c \in Bucket |-> IF c \in Refillable THEN recycles[c] + 1
                                                            ELSE recycles[c]]
      BY <1>1 DEF Dispatch
    <3>3. QED BY <1>0, <3>1, <3>2 DEF DispType
  <2>5. activeN' \in [Bucket -> Nat] /\ activeRate' \in [Bucket -> Nat]
    <3>1. /\ activeN' = [activeN EXCEPT ![b] = @ + 1]
          /\ activeRate' = [activeRate EXCEPT ![b] = @ + AtLeastOne(Rate[Head(CandsNow[b])])]
      BY <1>1 DEF Dispatch
    <3>2. AtLeastOne(Rate[Head(CandsNow[b])]) \in Nat
      BY <2>2, StorerAssumption DEF AtLeastOne
    <3>3. QED BY <1>0, <3>1, <3>2 DEF DispType
  <2>6. QED BY <2>3, <2>4, <2>5 DEF DispType
<1>2. ASSUME NEW s \in Storer, Join(s) PROVE DispType'
  BY <1>0, <1>2, StorerAssumption DEF Join, Monus, AtLeastOne, DispType
<1>3. CASE UNCHANGED dispVars
  BY <1>0, <1>3 DEF dispVars, DispType
<1>4. QED BY <1>1, <1>2, <1>3, DispFrame DEF TypeOK

LEMMA RunTypeNext == TypeOK /\ [Next]_vars => RunType'
<1> SUFFICES ASSUME RunType, ChunkType, [Next]_vars PROVE RunType'
  BY DEF TypeOK
<1> USE DEF RunType, runVars
<1>1. CASE Main
  <2>1. CASE NothingNeeded \/ SetupError
    BY <2>1 DEF NothingNeeded, SetupError
  <2>2. CASE Route
    BY <2>2 DEF Route, Needed
  <2>3. ASSUME NEW b \in Bucket, Dispatch(b) PROVE RunType'
    BY <2>3 DEF Dispatch, Enter
  <2>4. CASE StopDispatch
    BY <2>4 DEF StopDispatch
  <2>5. ASSUME NEW s \in Storer, Join(s) PROVE RunType'
    BY <2>5 DEF Join, Residual
  <2>6. CASE DrainAll
    BY <2>6 DEF DrainAll, ChunkType
  <2>7. CASE Finish
    BY <2>7 DEF Finish
  <2>8. QED BY <1>1, <2>1, <2>2, <2>3, <2>4, <2>5, <2>6, <2>7 DEF Main
<1>2. CASE WindDown
  BY <1>2 DEF WindDown
<1>3. CASE Fallback
  BY <1>3 DEF Fallback, FbRecv, FbOk, FbErr
<1>4. ASSUME NEW s \in Storer, Setup(s) \/ HangUp(s) PROVE RunType'
  BY <1>4 DEF Setup, SetupFail, SetupOk, Enter, HangUp
<1>5. ASSUME NEW s \in Storer, Measure(s) PROVE RunType'
  BY <1>5 DEF Measure, MeasurePop, MeasureEnd, MeasureOk, MeasureErr, MeasureSweep
<1>6. ASSUME NEW s \in Storer, Drive(s) PROVE RunType'
  BY <1>6 DEF Drive, TopDead, TopLive, AdmitStop, AdmitNone, AdmitSkip,
     AdmitRefused, AdmitSpawn, Settle, SweepFail, Close
<1>7. ASSUME NEW s \in Storer, Tasks(s) PROVE RunType'
  BY <1>7 DEF Tasks, TaskOk, TaskErr
<1>8. CASE Done \/ UNCHANGED vars
  BY <1>8 DEF Done, vars
<1>9. QED BY <1>1, <1>2, <1>3, <1>4, <1>5, <1>6, <1>7, <1>8 DEF Next

LEMMA ChunkTypeNext == TypeOK /\ [Next]_vars => ChunkType'
<1> SUFFICES ASSUME ChunkType, HandType, [Next]_vars PROVE ChunkType'
  BY DEF TypeOK
<1> USE ChunkAssumption DEF ChunkType, fbVars
<1>1. CASE Main
  <2>1. CASE NothingNeeded \/ SetupError \/ StopDispatch \/ Finish
    BY <2>1 DEF NothingNeeded, SetupError, StopDispatch, Finish
  <2>2. CASE Route
    BY <2>2 DEF Route, Needed
  <2>3. ASSUME NEW b \in Bucket, Dispatch(b) PROVE ChunkType'
    BY <2>3 DEF Dispatch
  <2>4. ASSUME NEW s \in Storer, Join(s) PROVE ChunkType'
    BY <2>4 DEF Join
  <2>5. CASE DrainAll
    BY <2>5 DEF DrainAll
  <2>6. QED BY <1>1, <2>1, <2>2, <2>3, <2>4, <2>5 DEF Main
<1>2. CASE WindDown
  BY <1>2 DEF WindDown
<1>3. CASE Fallback
  <2> SUFFICES ASSUME NEW i \in Item, FbRecv(i) \/ FbOk(i) \/ FbErr(i) PROVE ChunkType'
    BY <1>3 DEF Fallback
  <2>1. CASE FbRecv(i)
    BY <2>1 DEF FbRecv
  <2>2. CASE FbOk(i)
    BY <2>2 DEF FbOk, Put
  <2>3. CASE FbErr(i)
    BY <2>3 DEF FbErr
  <2>4. QED BY <2>1, <2>2, <2>3
<1>4. ASSUME NEW s \in Storer, Setup(s) \/ HangUp(s) PROVE ChunkType'
  BY <1>4 DEF Setup, SetupFail, SetupOk, HangUp
<1>5. ASSUME NEW s \in Storer, Measure(s) PROVE ChunkType'
  <2>1. ASSUME NEW i \in Item, MeasurePop(s, i) PROVE ChunkType'
    BY <2>1 DEF MeasurePop
  <2>2. ASSUME NEW i \in Item, MeasureOk(s, i) PROVE ChunkType'
    BY <2>2 DEF MeasureOk, Put
  <2>3. ASSUME NEW i \in Item, MeasureErr(s, i) PROVE ChunkType'
    BY <2>3 DEF MeasureErr, Queued
  <2>4. CASE MeasureEnd(s) \/ MeasureSweep(s)
    BY <2>4 DEF MeasureEnd, MeasureSweep
  <2>5. QED BY <1>5, <2>1, <2>2, <2>3, <2>4 DEF Measure
<1>6. ASSUME NEW s \in Storer, Drive(s) PROVE ChunkType'
  <2>1. CASE TopDead(s)
    BY <2>1 DEF TopDead, Leftover, HandType
  <2>2. CASE TopLive(s)
    BY <2>2 DEF TopLive, Leftover, HandType
  <2>3. CASE AdmitStop(s) \/ AdmitNone(s) \/ Settle(s) \/ SweepFail(s) \/ Close(s)
    BY <2>3 DEF AdmitStop, AdmitNone, Settle, SweepFail, Close
  <2>4. ASSUME NEW i \in Item, AdmitSkip(s, i) \/ AdmitRefused(s, i) \/ AdmitSpawn(s, i)
        PROVE ChunkType'
    BY <2>4 DEF AdmitSkip, AdmitRefused, AdmitSpawn, Popped
  <2>5. QED BY <1>6, <2>1, <2>2, <2>3, <2>4 DEF Drive
<1>7. ASSUME NEW s \in Storer, Tasks(s) PROVE ChunkType'
  <2>1. ASSUME NEW i \in Item, TaskOk(s, i) PROVE ChunkType'
    BY <2>1 DEF TaskOk, Put
  <2>2. ASSUME NEW i \in Item, TaskErr(s, i) PROVE ChunkType'
    BY <2>2 DEF TaskErr, Queued
  <2>3. QED BY <1>7, <2>1, <2>2 DEF Tasks
<1>8. CASE Done \/ UNCHANGED vars
  BY <1>8 DEF Done, vars
<1>9. QED BY <1>1, <1>2, <1>3, <1>4, <1>5, <1>6, <1>7, <1>8 DEF Next

\* The candidate a dispatch hands out is a storer.
LEMMA HeadIsStorer ==
  ASSUME DispType, NEW b \in Bucket, Dispatch(b)
  PROVE  Head(CandsNow[b]) \in Storer
<1>1. CandsNow[b] \in Seq(Storer) /\ CandsNow[b] # <<>>
  BY DEF Dispatch, Eligible, CandsNow, DispType
<1>2. QED BY <1>1

LEMMA HandTypeNext == TypeOK /\ [Next]_vars => HandType'
<1> SUFFICES ASSUME HandType, DispType, [Next]_vars PROVE HandType'
  BY DEF TypeOK
<1> USE DEF HandType, Where, connVars, Goto
<1>1. CASE Main
  <2>1. CASE NothingNeeded \/ SetupError \/ StopDispatch \/ Finish \/ Route \/ DrainAll
    BY <2>1 DEF NothingNeeded, SetupError, StopDispatch, Finish, Route, DrainAll
  <2>2. ASSUME NEW b \in Bucket, Dispatch(b) PROVE HandType'
    BY <2>2, HeadIsStorer DEF Dispatch, Enter
  <2>3. ASSUME NEW s \in Storer, Join(s) PROVE HandType'
    BY <2>3 DEF Join
  <2>4. QED BY <1>1, <2>1, <2>2, <2>3 DEF Main
<1>2. CASE WindDown
  BY <1>2 DEF WindDown
<1>3. CASE Fallback
  BY <1>3 DEF Fallback, FbRecv, FbOk, FbErr
<1>4. ASSUME NEW s \in Storer, Setup(s) \/ HangUp(s) PROVE HandType'
  BY <1>4 DEF Setup, SetupFail, SetupOk, Enter, HangUp
<1>5. ASSUME NEW s \in Storer, Measure(s) PROVE HandType'
  <2>1. ASSUME NEW i \in Item, MeasurePop(s, i) PROVE HandType'
    BY <2>1 DEF MeasurePop
  <2>2. ASSUME NEW i \in Item, MeasureOk(s, i) \/ MeasureErr(s, i) PROVE HandType'
    BY <2>2 DEF MeasureOk, MeasureErr
  <2>3. CASE MeasureEnd(s) \/ MeasureSweep(s)
    BY <2>3 DEF MeasureEnd, MeasureSweep
  <2>4. QED BY <1>5, <2>1, <2>2, <2>3 DEF Measure
<1>6. ASSUME NEW s \in Storer, Drive(s) PROVE HandType'
  <2>1. CASE TopDead(s)
    BY <2>1 DEF TopDead
  <2>2. CASE TopLive(s)
    BY <2>2 DEF TopLive
  <2>3. CASE AdmitStop(s) \/ AdmitNone(s)
    BY <2>3 DEF AdmitStop, AdmitNone, Reap
  <2>4. ASSUME NEW i \in Item, AdmitSkip(s, i) PROVE HandType'
    BY <2>4 DEF AdmitSkip
  <2>5. ASSUME NEW i \in Item, AdmitRefused(s, i) PROVE HandType'
    BY <2>5 DEF AdmitRefused, Reap
  <2>6. ASSUME NEW i \in Item, AdmitSpawn(s, i) PROVE HandType'
    BY <2>6 DEF AdmitSpawn
  <2>7. CASE Settle(s)
    BY <2>7 DEF Settle, EndOfTurn
  <2>8. CASE SweepFail(s) \/ Close(s)
    BY <2>8 DEF SweepFail, Close
  <2>9. QED BY <1>6, <2>1, <2>2, <2>3, <2>4, <2>5, <2>6, <2>7, <2>8 DEF Drive
<1>7. ASSUME NEW s \in Storer, Tasks(s) PROVE HandType'
  BY <1>7 DEF Tasks, TaskOk, TaskErr
<1>8. CASE Done \/ UNCHANGED vars
  BY <1>8 DEF Done, vars
<1>9. QED BY <1>1, <1>2, <1>3, <1>4, <1>5, <1>6, <1>7, <1>8 DEF Next

LEMMA FlagTypeNext == TypeOK /\ [Next]_vars => FlagType'
<1> SUFFICES ASSUME FlagType, DispType, [Next]_vars PROVE FlagType'
  BY DEF TypeOK
<1> USE DEF FlagType, connVars, loopVars
<1>1. CASE Main
  <2>1. CASE NothingNeeded \/ SetupError \/ StopDispatch \/ Finish \/ Route \/ DrainAll
    BY <2>1 DEF NothingNeeded, SetupError, StopDispatch, Finish, Route, DrainAll
  <2>2. ASSUME NEW b \in Bucket, Dispatch(b) PROVE FlagType'
    BY <2>2 DEF Dispatch, Enter
  <2>3. ASSUME NEW s \in Storer, Join(s) PROVE FlagType'
    BY <2>3 DEF Join
  <2>4. QED BY <1>1, <2>1, <2>2, <2>3 DEF Main
<1>2. CASE WindDown
  BY <1>2 DEF WindDown
<1>3. CASE Fallback
  BY <1>3 DEF Fallback, FbRecv, FbOk, FbErr
<1>4. ASSUME NEW s \in Storer, Setup(s) \/ HangUp(s) PROVE FlagType'
  BY <1>4 DEF Setup, SetupFail, SetupOk, Enter, HangUp
<1>5. ASSUME NEW s \in Storer, Measure(s) PROVE FlagType'
  BY <1>5 DEF Measure, MeasurePop, MeasureEnd, MeasureOk, MeasureErr, MeasureSweep
<1>6. ASSUME NEW s \in Storer, Drive(s) PROVE FlagType'
  <2>1. CASE TopDead(s) \/ AdmitStop(s) \/ AdmitNone(s)
    BY <2>1 DEF TopDead, AdmitStop, AdmitNone
  <2>2. CASE TopLive(s)
    BY <2>2 DEF TopLive
  <2>3. ASSUME NEW i \in Item, AdmitSkip(s, i) \/ AdmitRefused(s, i) \/ AdmitSpawn(s, i)
        PROVE FlagType'
    BY <2>3 DEF AdmitSkip, AdmitRefused, AdmitSpawn
  <2>4. CASE Settle(s)
    BY <2>4 DEF Settle, EndOfTurn
  <2>5. CASE SweepFail(s)
    BY <2>5 DEF SweepFail
  <2>6. CASE Close(s)
    BY <2>6 DEF Close
  <2>7. QED BY <1>6, <2>1, <2>2, <2>3, <2>4, <2>5, <2>6 DEF Drive
<1>7. ASSUME NEW s \in Storer, Tasks(s) PROVE FlagType'
  BY <1>7 DEF Tasks, TaskOk, TaskErr
<1>8. CASE Done \/ UNCHANGED vars
  BY <1>8 DEF Done, vars
<1>9. QED BY <1>1, <1>2, <1>3, <1>4, <1>5, <1>6, <1>7, <1>8 DEF Next

LEMMA TypeNext == TypeOK /\ [Next]_vars => TypeOK'
<1>1. TypeOK' <=> RunType' /\ DispType' /\ ChunkType' /\ HandType' /\ FlagType'
  BY DEF TypeOK
<1>2. QED BY <1>1, RunTypeNext, DispTypeNext, ChunkTypeNext, HandTypeNext, FlagTypeNext

\* Every reachable state of the scheduler is well typed: no counter of the
\* dispatcher underflows and no bucket is recycled more than MaxRecycles times.
THEOREM TypeCorrect == Spec => []TypeOK
  BY TypeInit, TypeNext, PTL DEF Spec

-----------------------------------------------------------------------------
(* The dispatcher's books.                                                 *)

Serving(b) == {s \in Inflight : Prefix[s] = b}

\* Candidates are idle members of their bucket, each listed once, and none
\* is in the used list too; active_n counts the bucket's actors.
Books ==
    /\ \A b \in Bucket : \A k \in DOMAIN cands[b] :
          pc[cands[b][k]] = "idle" /\ Prefix[cands[b][k]] = b
    /\ \A b \in Bucket : \A k \in DOMAIN used[b] : Prefix[used[b][k]] = b
    /\ \A b \in Bucket : \A k, l \in DOMAIN cands[b] :
          cands[b][k] = cands[b][l] => k = l
    /\ \A b \in Bucket : \A k, l \in DOMAIN used[b] :
          used[b][k] = used[b][l] => k = l
    /\ \A b \in Bucket : \A k \in DOMAIN cands[b], l \in DOMAIN used[b] :
          cands[b][k] # used[b][l]
    /\ \A b \in Bucket : activeN[b] = Cardinality(Serving(b))

LEMMA ServingFinite == \A b : IsFiniteSet(Serving(b)) /\ Cardinality(Serving(b)) \in Nat
<1> SUFFICES ASSUME NEW b PROVE IsFiniteSet(Serving(b)) /\ Cardinality(Serving(b)) \in Nat
  OBVIOUS
<1>1. Serving(b) \in SUBSET Storer
  BY DEF Serving, Inflight
<1>2. IsFiniteSet(Serving(b))
  BY <1>1, StorerAssumption, FS_Subset
<1>3. QED BY <1>2, FS_CardinalityType

LEMMA BooksInit == Init => Books
<1> SUFFICES ASSUME Init PROVE Books
  OBVIOUS
<1>1. \A b \in Bucket : Serving(b) = {}
  BY DEF Init, Serving, Inflight
<1>2. \A b \in Bucket : activeN[b] = Cardinality(Serving(b))
  BY <1>1, FS_EmptySet DEF Init
<1>3. QED
  BY <1>2, StorerAssumption DEF Init, Books

\* The candidate a dispatch hands out is idle: a recycled list belongs to a
\* bucket nobody serves.
LEMMA CandidateIdle ==
  ASSUME TypeOK, Books, NEW b \in Bucket, NEW k \in DOMAIN CandsNow[b]
  PROVE  pc[CandsNow[b][k]] = "idle" /\ Prefix[CandsNow[b][k]] = b
<1>1. CASE b \notin Refillable
  BY <1>1 DEF CandsNow, Books
<1>2. CASE b \in Refillable
  <2>1. Serving(b) = {}
    BY <1>2, ServingFinite, FS_EmptySet DEF Refillable, Books
  <2>2. CandsNow[b] = used[b]
    BY <1>2 DEF CandsNow
  <2>3. used[b][k] \in Storer /\ Prefix[used[b][k]] = b
    BY <2>2 DEF TypeOK, DispType, Books
  <2>4. QED BY <2>1, <2>2, <2>3 DEF Serving, Inflight
<1>3. QED BY <1>1, <1>2

LEMMA DispatchHead ==
  ASSUME TypeOK, Books, NEW b \in Bucket, Dispatch(b)
  PROVE  LET s == Head(CandsNow[b])
         IN /\ s \in Storer /\ pc[s] = "idle" /\ Prefix[s] = b
            /\ pc' = [pc EXCEPT ![s] = pc'[s]] /\ pc'[s] \in {"setup", "measure", "top"}
<1>1. CandsNow[b] \in Seq(Storer) /\ CandsNow[b] # <<>>
  BY DEF Dispatch, Eligible, CandsNow, TypeOK, DispType
<1>2. 1 \in DOMAIN CandsNow[b] /\ Head(CandsNow[b]) = CandsNow[b][1]
  BY <1>1
<1>3. QED BY <1>1, <1>2, CandidateIdle DEF Dispatch, Enter, TypeOK, HandType

LEMMA BooksDispatch ==
  ASSUME TypeOK, Books, NEW b \in Bucket, Dispatch(b) PROVE Books'
<1> DEFINE s == Head(CandsNow[b])
           C == CandsNow[b]
<1>1. /\ s \in Storer /\ pc[s] = "idle" /\ Prefix[s] = b
      /\ pc' = [pc EXCEPT ![s] = pc'[s]] /\ pc'[s] # "idle"
  BY DispatchHead
<1>2. C \in Seq(Storer) /\ C # <<>>
  BY DEF Dispatch, Eligible, CandsNow, TypeOK, DispType
<1>3. /\ cands' = [CandsNow EXCEPT ![b] = Tail(@)]
      /\ used' = [UsedNow EXCEPT ![b] = Append(@, s)]
      /\ activeN' = [activeN EXCEPT ![b] = @ + 1]
  BY DEF Dispatch
<1>4. /\ CandsNow \in [Bucket -> Seq(Storer)] /\ UsedNow \in [Bucket -> Seq(Storer)]
      /\ activeN \in [Bucket -> Nat] /\ pc \in [Storer -> Where]
  BY DEF CandsNow, UsedNow, TypeOK, DispType, HandType
<1>5. \A c \in Bucket :
        /\ \A k, l \in DOMAIN CandsNow[c] : CandsNow[c][k] = CandsNow[c][l] => k = l
        /\ \A k, l \in DOMAIN UsedNow[c] : UsedNow[c][k] = UsedNow[c][l] => k = l
        /\ \A k \in DOMAIN UsedNow[c] : Prefix[UsedNow[c][k]] = c
        /\ \A k \in DOMAIN CandsNow[c], l \in DOMAIN UsedNow[c] :
              CandsNow[c][k] # UsedNow[c][l]
  BY DEF CandsNow, UsedNow, Books
<1>6. \A c \in Bucket : \A k \in DOMAIN CandsNow[c] :
        pc[CandsNow[c][k]] = "idle" /\ Prefix[CandsNow[c][k]] = c
  BY CandidateIdle
<1>7. /\ \A k \in DOMAIN Tail(C) : k \in Nat /\ k + 1 \in DOMAIN C /\ Tail(C)[k] = C[k + 1]
      /\ 1 \in DOMAIN C /\ s = C[1]
  BY <1>2
<1>8. \A k \in DOMAIN Tail(C) : Tail(C)[k] # s
  BY <1>5, <1>7
<1>9. \A c \in Bucket : \A k \in DOMAIN cands'[c] :
         pc'[cands'[c][k]] = "idle" /\ Prefix[cands'[c][k]] = c
  <2> SUFFICES ASSUME NEW c \in Bucket, NEW k \in DOMAIN cands'[c]
               PROVE pc'[cands'[c][k]] = "idle" /\ Prefix[cands'[c][k]] = c
    OBVIOUS
  <2>1. CASE c = b
    <3>1. cands'[c] = Tail(C)
      BY <2>1, <1>3, <1>4
    <3>2. QED BY <2>1, <3>1, <1>1, <1>4, <1>6, <1>7, <1>8
  <2>2. CASE c # b
    <3>1. cands'[c] = CandsNow[c]
      BY <2>2, <1>3, <1>4
    <3>2. CandsNow[c][k] # s
      BY <3>1, <2>2, <1>1, <1>6
    <3>3. QED BY <3>1, <3>2, <1>1, <1>4, <1>6
  <2>3. QED BY <2>1, <2>2
<1>10. \A c \in Bucket :
        /\ \A k, l \in DOMAIN cands'[c] : cands'[c][k] = cands'[c][l] => k = l
        /\ \A k, l \in DOMAIN used'[c] : used'[c][k] = used'[c][l] => k = l
        /\ \A k \in DOMAIN used'[c] : Prefix[used'[c][k]] = c
        /\ \A k \in DOMAIN cands'[c], l \in DOMAIN used'[c] : cands'[c][k] # used'[c][l]
  <2> SUFFICES ASSUME NEW c \in Bucket
               PROVE
        /\ \A k, l \in DOMAIN cands'[c] : cands'[c][k] = cands'[c][l] => k = l
        /\ \A k, l \in DOMAIN used'[c] : used'[c][k] = used'[c][l] => k = l
        /\ \A k \in DOMAIN used'[c] : Prefix[used'[c][k]] = c
        /\ \A k \in DOMAIN cands'[c], l \in DOMAIN used'[c] : cands'[c][k] # used'[c][l]
    OBVIOUS
  <2>1. CASE c # b
    <3>1. cands'[c] = CandsNow[c] /\ used'[c] = UsedNow[c]
      BY <2>1, <1>3, <1>4
    <3>2. QED BY <3>1, <1>5
  <2>2. CASE c = b
    <3> DEFINE U == UsedNow[b]
    <3>1. cands'[c] = Tail(C) /\ used'[c] = Append(U, s) /\ U \in Seq(Storer)
      BY <2>2, <1>3, <1>4
    <3>2. \A k \in DOMAIN Append(U, s) :
             \/ k \in DOMAIN U /\ Append(U, s)[k] = U[k]
             \/ k = Len(U) + 1 /\ Append(U, s)[k] = s
      BY <3>1, <1>1
    <3>3. \A k \in DOMAIN U : U[k] # s
      BY <1>5, <1>7
    <3>4. \A k, l \in DOMAIN Tail(C) : Tail(C)[k] = Tail(C)[l] => k = l
      <4> SUFFICES ASSUME NEW k \in DOMAIN Tail(C), NEW l \in DOMAIN Tail(C),
                          Tail(C)[k] = Tail(C)[l]
                   PROVE k = l
        OBVIOUS
      <4>1. C[k + 1] = C[l + 1] /\ k + 1 \in DOMAIN C /\ l + 1 \in DOMAIN C
        BY <1>7
      <4>2. k + 1 = l + 1
        BY <4>1, <1>5
      <4>3. QED BY <4>2, <1>7
    <3>5. \A k, l \in DOMAIN Append(U, s) : Append(U, s)[k] = Append(U, s)[l] => k = l
      BY <3>2, <3>3, <1>5
    <3>6. \A k \in DOMAIN Append(U, s) : Prefix[Append(U, s)[k]] = b
      BY <3>2, <1>1, <1>5
    <3>7. \A k \in DOMAIN Tail(C), l \in DOMAIN Append(U, s) : Tail(C)[k] # Append(U, s)[l]
      BY <3>2, <1>5, <1>7, <1>8
    <3>8. QED BY <2>2, <3>1, <3>4, <3>5, <3>6, <3>7
  <2>3. QED BY <2>1, <2>2
<1>11. \A c \in Bucket : activeN'[c] = Cardinality(Serving(c)')
  <2>1. Serving(b)' = Serving(b) \cup {s} /\ s \notin Serving(b)
    BY <1>1, <1>4 DEF Serving, Inflight
  <2>2. \A c \in Bucket \ {b} : Serving(c)' = Serving(c)
    BY <1>1, <1>4 DEF Serving, Inflight
  <2>3. Cardinality(Serving(b)') = Cardinality(Serving(b)) + 1
    BY <2>1, ServingFinite, FS_AddElement
  <2>4. QED BY <2>2, <2>3, <1>3, <1>4 DEF Books
<1>12. QED BY <1>9, <1>10, <1>11 DEF Books

LEMMA BooksJoin ==
  ASSUME TypeOK, Books, NEW s \in Storer, Join(s) PROVE Books'
<1> DEFINE b == Prefix[s]
<1>1. /\ pc[s] = "returned" /\ pc' = [pc EXCEPT ![s] = "idle"]
      /\ activeN' = [activeN EXCEPT ![b] = Monus(@, 1)]
      /\ cands' = cands /\ used' = used
  BY DEF Join
<1>2. /\ b \in Bucket /\ pc \in [Storer -> Where] /\ activeN \in [Bucket -> Nat]
      /\ cands \in [Bucket -> Seq(Storer)]
  BY StorerAssumption DEF TypeOK, DispType, HandType
<1>3. Serving(b)' = Serving(b) \ {s} /\ s \in Serving(b)
  BY <1>1, <1>2 DEF Serving, Inflight
<1>4. \A c \in Bucket \ {b} : Serving(c)' = Serving(c)
  BY <1>1, <1>2 DEF Serving, Inflight
<1>5. Cardinality(Serving(b)') = Cardinality(Serving(b)) - 1 /\ Cardinality(Serving(b)) > 0
  BY <1>3, ServingFinite, FS_RemoveElement, FS_EmptySet
<1>6. \A c \in Bucket : activeN'[c] = Cardinality(Serving(c)')
  BY <1>1, <1>2, <1>4, <1>5 DEF Books, Monus
<1>7. \A c \in Bucket : \A k \in DOMAIN cands'[c] : pc'[cands'[c][k]] = "idle"
  BY <1>1, <1>2 DEF Books
<1>8. QED BY <1>1, <1>6, <1>7 DEF Books

LEMMA BooksNext == TypeOK /\ Books /\ [Next]_vars => Books'
<1> SUFFICES ASSUME TypeOK, Books, [Next]_vars PROVE Books'
  OBVIOUS
<1>1. CASE UNCHANGED dispVars /\ \A s \in Storer : pc'[s] = "idle" <=> pc[s] = "idle"
  <2>1. \A b \in Bucket : Serving(b)' = Serving(b)
    BY <1>1 DEF Serving, Inflight
  <2>2. \A b \in Bucket : \A k \in DOMAIN cands[b] : cands[b][k] \in Storer
    BY DEF TypeOK, DispType
  <2>3. QED BY <1>1, <2>1, <2>2 DEF Books, dispVars
<1>2. QED BY <1>1, BooksDispatch, BooksJoin, DispFrame DEF TypeOK

\* The dispatcher's books match the actors in every reachable state, for any
\* number of buckets and storers and any ranking: active_n is exact, so the
\* Monus in Join never hides an underflow, and a recycled member is never
\* one that is still running.
THEOREM BooksCorrect == Spec => []DispatchConsistent
<1>1. Init => TypeOK /\ Books
  BY TypeInit, BooksInit
<1>2. TypeOK /\ Books /\ [Next]_vars => (TypeOK /\ Books)'
  BY TypeNext, BooksNext
<1>3. TypeOK /\ Books => DispatchConsistent
  BY DEF Books, Serving, DispatchConsistent
<1>4. QED BY <1>1, <1>2, <1>3, PTL DEF Spec

-----------------------------------------------------------------------------
(* What a connection holds.                                                *)

\* Points of an actor's code where no retrieval is under way.
NoFlight == {"idle", "setup", "measure", "sweep", "closing", "returned"}

\* Points of an actor's code inside drive, and just after it.
InDrive == {"top", "admit", "settle", "closing"}

Holds(s) ==
    /\ pc[s] \in NoFlight => flight[s] = {}
    /\ pc[s] \in NoFlight \cup {"probe"} => pending[s] = {}
    /\ pc[s] # "probe" => flight[s] \subseteq tasks[s]
    /\ s \in finishing => pending[s] = {} /\ flight[s] = {}
    /\ s \in drained \cup finishing => pc[s] \in InDrive
    /\ \A i, j \in pending[s] : i = j
    /\ pc[s] = "probe" => \A i, j \in flight[s] : i = j

HandsInv == \A s \in Storer : Holds(s)

\* A step that leaves a connection's own variables alone.
Same(r) == /\ pc'[r] = pc[r] /\ flight'[r] = flight[r]
           /\ pending'[r] = pending[r] /\ tasks'[r] = tasks[r]
           /\ r \in finishing' <=> r \in finishing
           /\ r \in drained' <=> r \in drained

LEMMA HoldsFrame == ASSUME NEW r, Holds(r), Same(r) PROVE Holds(r)'
  BY DEF Holds, Same

LEMMA HandsInit == Init => HandsInv
  BY DEF Init, HandsInv, Holds, NoFlight

\* A connection's step leaves the others alone.
LEMMA OthersSame ==
  ASSUME HandType, NEW s \in Storer, NEW r \in Storer, r # s,
         Setup(s) \/ HangUp(s) \/ Measure(s) \/ Drive(s) \/ Tasks(s)
  PROVE  Same(r)
<1> USE DEF HandType, Same, Goto, loopVars
<1>1. CASE Setup(s) \/ HangUp(s)
  BY <1>1 DEF Setup, SetupFail, SetupOk, Enter, HangUp
<1>2. CASE Measure(s)
  BY <1>2 DEF Measure, MeasurePop, MeasureEnd, MeasureOk, MeasureErr, MeasureSweep
<1>3. CASE Tasks(s)
  BY <1>3 DEF Tasks, TaskOk, TaskErr
<1>4. CASE TopDead(s) \/ TopLive(s)
  BY <1>4 DEF TopDead, TopLive
<1>5. CASE AdmitStop(s) \/ AdmitNone(s)
  BY <1>5 DEF AdmitStop, AdmitNone, Reap
<1>6. ASSUME NEW i \in Item, AdmitSkip(s, i) \/ AdmitRefused(s, i) \/ AdmitSpawn(s, i)
      PROVE Same(r)
  BY <1>6 DEF AdmitSkip, AdmitRefused, AdmitSpawn, Reap
<1>7. CASE Settle(s)
  BY <1>7 DEF Settle, EndOfTurn
<1>8. CASE SweepFail(s) \/ Close(s)
  BY <1>8 DEF SweepFail, Close
<1>9. QED BY <1>1, <1>2, <1>3, <1>4, <1>5, <1>6, <1>7, <1>8 DEF Drive

LEMMA HoldsMeasure ==
  ASSUME HandType, NEW s \in Storer, Holds(s), Setup(s) \/ HangUp(s) \/ Measure(s)
  PROVE  Holds(s)'
<1> USE DEF HandType, Holds, NoFlight, InDrive, Goto, loopVars
<1>1. CASE SetupFail(s)
  BY <1>1 DEF SetupFail
<1>2. CASE SetupOk(s)
  BY <1>2 DEF SetupOk, Enter
<1>3. CASE HangUp(s)
  BY <1>3 DEF HangUp
<1>4. ASSUME NEW i \in Item, MeasurePop(s, i) PROVE Holds(s)'
  BY <1>4 DEF MeasurePop
<1>5. ASSUME NEW i \in Item, MeasureOk(s, i) PROVE Holds(s)'
  BY <1>5 DEF MeasureOk
<1>6. ASSUME NEW i \in Item, MeasureErr(s, i) PROVE Holds(s)'
  BY <1>6 DEF MeasureErr
<1>7. CASE MeasureEnd(s)
  BY <1>7 DEF MeasureEnd
<1>8. CASE MeasureSweep(s)
  BY <1>8 DEF MeasureSweep
<1>9. QED BY <1>1, <1>2, <1>3, <1>4, <1>5, <1>6, <1>7, <1>8 DEF Setup, Measure

LEMMA HoldsDrive ==
  ASSUME HandType, NEW s \in Storer, Holds(s), Drive(s) \/ Tasks(s)
  PROVE  Holds(s)'
<1> USE DEF HandType, Holds, NoFlight, InDrive, Goto, loopVars
<1>1. CASE TopDead(s)
  BY <1>1 DEF TopDead, TasksJoined
<1>2. CASE TopLive(s)
  BY <1>2 DEF TopLive
<1>3. CASE AdmitStop(s)
  BY <1>3 DEF AdmitStop, Reap
<1>4. CASE AdmitNone(s)
  BY <1>4 DEF AdmitNone, MayAdmit, Reap
<1>5. ASSUME NEW i \in Item, AdmitSkip(s, i) PROVE Holds(s)'
  BY <1>5 DEF AdmitSkip
<1>6. ASSUME NEW i \in Item, AdmitRefused(s, i) PROVE Holds(s)'
  BY <1>6 DEF AdmitRefused, Popped, MayAdmit, Reap
<1>7. ASSUME NEW i \in Item, AdmitSpawn(s, i) PROVE Holds(s)'
  BY <1>7 DEF AdmitSpawn, Popped, MayAdmit
<1>8. CASE Settle(s)
  BY <1>8 DEF Settle, EndOfTurn
<1>9. CASE SweepFail(s)
  BY <1>9 DEF SweepFail
<1>10. CASE Close(s)
  BY <1>10 DEF Close
<1>11. ASSUME NEW i \in Item, TaskOk(s, i) \/ TaskErr(s, i) PROVE Holds(s)'
  BY <1>11 DEF TaskOk, TaskErr
<1>12. QED BY <1>1, <1>2, <1>3, <1>4, <1>5, <1>6, <1>7, <1>8, <1>9, <1>10, <1>11
          DEF Drive, Tasks

LEMMA HandsNext == TypeOK /\ Books /\ HandsInv /\ [Next]_vars => HandsInv'
<1> SUFFICES ASSUME TypeOK, Books, HandsInv, [Next]_vars, NEW r \in Storer PROVE Holds(r)'
  BY DEF HandsInv
<1>0. HandType /\ Holds(r)
  BY DEF TypeOK, HandsInv
<1>1. CASE Main
  <2>1. CASE NothingNeeded \/ SetupError \/ StopDispatch \/ Finish \/ Route \/ DrainAll
    <3>1. Same(r)
      BY <2>1 DEF NothingNeeded, SetupError, StopDispatch, Finish, Route, DrainAll, Same,
         connVars, loopVars
    <3>2. QED BY <3>1, <1>0, HoldsFrame
  <2>2. ASSUME NEW b \in Bucket, Dispatch(b) PROVE Holds(r)'
    <3> DEFINE s == Head(CandsNow[b])
    <3>1. /\ s \in Storer /\ pc[s] = "idle"
          /\ pc' = [pc EXCEPT ![s] = pc'[s]] /\ pc'[s] \in {"setup", "measure", "top"}
      BY <2>2, DispatchHead
    <3>2. UNCHANGED <<pending, flight, tasks, drained, finishing>>
      BY <2>2 DEF Dispatch, loopVars
    <3> HIDE DEF s
    <3>3. QED BY <3>1, <3>2, <1>0 DEF Holds, HandType, NoFlight, InDrive
  <2>3. ASSUME NEW s \in Storer, Join(s) PROVE Holds(r)'
    BY <2>3, <1>0 DEF Join, Holds, HandType, NoFlight, InDrive, loopVars
  <2>4. QED BY <1>1, <2>1, <2>2, <2>3 DEF Main
<1>2. CASE WindDown \/ Fallback \/ Done \/ UNCHANGED vars
  <2>1. Same(r)
    BY <1>2 DEF WindDown, Fallback, FbRecv, FbOk, FbErr, Done, vars, Same, connVars, loopVars
  <2>2. QED BY <2>1, <1>0, HoldsFrame
<1>3. ASSUME NEW s \in Storer, Setup(s) \/ Measure(s) \/ Drive(s) \/ Tasks(s) \/ HangUp(s)
      PROVE Holds(r)'
  BY <1>3, <1>0, OthersSame, HoldsFrame, HoldsMeasure, HoldsDrive
<1>4. QED BY <1>1, <1>2, <1>3 DEF Next

-----------------------------------------------------------------------------
(* The phases of fetch_scheduled.                                          *)

\* Before the routing nothing has begun; after the last join nobody runs and
\* the buckets are empty; after the report the fallback is idle too.
PhaseInv ==
    /\ phase = "start" => /\ needed = {} /\ pool = {} /\ dropped = {} /\ lost = {}
                          /\ fbq = {} /\ fbTasks = {} /\ failed = {} /\ owes = {}
    /\ phase \in {"start", "tail", "done"} => \A s \in Storer : pc[s] = "idle"
    /\ phase \in {"tail", "done"} => pool = {}
    /\ phase = "done" => fbq = {} /\ fbTasks = {}
    /\ phase # "done" => outcome = "none"

\* An actor that is not running takes no step.
LEMMA IdleIsStill ==
  ASSUME NEW s \in Storer, Holds(s), Setup(s) \/ Measure(s) \/ Drive(s) \/ Tasks(s)
  PROVE  pc[s] # "idle"
<1>1. CASE Setup(s)
  BY <1>1 DEF Setup, SetupFail, SetupOk
<1>2. CASE Measure(s)
  BY <1>2 DEF Measure, MeasurePop, MeasureEnd, MeasureOk, MeasureErr, MeasureSweep
<1>3. CASE Drive(s)
  BY <1>3 DEF Drive, TopDead, TopLive, AdmitStop, AdmitNone, AdmitSkip,
     AdmitRefused, AdmitSpawn, Popped, MayAdmit, Settle, SweepFail, Close
<1>4. CASE Tasks(s)
  BY <1>4 DEF Tasks, TaskOk, TaskErr, Holds, NoFlight
<1>5. QED BY <1>1, <1>2, <1>3, <1>4

\* Only fetch_scheduled itself moves from phase to phase.
LEMMA PhaseFrame ==
  ASSUME NEW s \in Storer, Setup(s) \/ Measure(s) \/ Drive(s) \/ Tasks(s)
  PROVE  phase' = phase /\ outcome' = outcome
<1>1. CASE Setup(s)
  BY <1>1 DEF Setup, SetupFail, SetupOk, runVars
<1>2. CASE Measure(s)
  BY <1>2 DEF Measure, MeasurePop, MeasureEnd, MeasureOk, MeasureErr, MeasureSweep, runVars
<1>3. CASE Drive(s)
  BY <1>3 DEF Drive, TopDead, TopLive, AdmitStop, AdmitNone, AdmitSkip,
     AdmitRefused, AdmitSpawn, Settle, SweepFail, Close, runVars
<1>4. CASE Tasks(s)
  BY <1>4 DEF Tasks, TaskOk, TaskErr, runVars
<1>5. QED BY <1>1, <1>2, <1>3, <1>4

LEMMA PhaseInit == Init => PhaseInv
  BY DEF Init, PhaseInv

LEMMA PhaseNext == TypeOK /\ HandsInv /\ PhaseInv /\ [Next]_vars => PhaseInv'
<1> SUFFICES ASSUME TypeOK, HandsInv, PhaseInv, [Next]_vars PROVE PhaseInv'
  OBVIOUS
<1>0. RunType
  BY DEF TypeOK
<1>1. CASE Main
  <2>1. CASE NothingNeeded \/ SetupError
    BY <2>1 DEF NothingNeeded, SetupError, PhaseInv, connVars, fbVars
  <2>2. CASE Route \/ StopDispatch
    BY <2>2 DEF Route, StopDispatch, PhaseInv
  <2>3. ASSUME NEW b \in Bucket, Dispatch(b) PROVE PhaseInv'
    BY <2>3 DEF Dispatch, PhaseInv
  <2>4. ASSUME NEW s \in Storer, Join(s) PROVE PhaseInv'
    BY <2>4 DEF Join, PhaseInv
  <2>5. CASE DrainAll
    BY <2>5 DEF DrainAll, Inflight, PhaseInv, connVars
  <2>6. CASE Finish
    BY <2>6 DEF Finish, FallbackIdle, PhaseInv, connVars, fbVars
  <2>7. QED BY <1>1, <2>1, <2>2, <2>3, <2>4, <2>5, <2>6 DEF Main
<1>2. CASE WindDown
  BY <1>2 DEF WindDown, PhaseInv
<1>3. CASE Fallback
  BY <1>3 DEF Fallback, FbRecv, FbOk, FbErr, PhaseInv, runVars, connVars
<1>4. ASSUME NEW s \in Storer, HangUp(s) PROVE PhaseInv'
  BY <1>4 DEF HangUp, PhaseInv, runVars, fbVars
<1>5. ASSUME NEW s \in Storer, Setup(s) \/ Measure(s) \/ Drive(s) \/ Tasks(s)
      PROVE PhaseInv'
  <2>1. pc[s] # "idle"
    BY <1>5, IdleIsStill DEF HandsInv
  <2>2. phase \in {"refill", "join"} /\ phase' = phase /\ outcome' = outcome
    BY <1>0, <1>5, <2>1, PhaseFrame DEF PhaseInv, RunType
  <2>3. QED BY <2>2 DEF PhaseInv
<1>6. CASE Done \/ UNCHANGED vars
  BY <1>6 DEF Done, vars, PhaseInv, runVars, connVars, fbVars
<1>7. QED BY <1>1, <1>2, <1>3, <1>4, <1>5, <1>6 DEF Next

-----------------------------------------------------------------------------
(* Debt.                                                                   *)

\* Debt of an actor that was joined is in the residual; a parked connection
\* is settled and nobody works it.
DebtInv ==
    /\ \A s \in owes : pc[s] \in {"idle", "setup"} => residual
    /\ \A s \in parked : s \notin owes /\ pc[s] \in {"idle", "returned"}

LEMMA DebtInit == Init => DebtInv
  BY StorerAssumption DEF Init, DebtInv

LEMMA DebtNext == TypeOK /\ Books /\ HandsInv /\ DebtInv /\ [Next]_vars => DebtInv'
<1> SUFFICES ASSUME TypeOK, Books, HandsInv, DebtInv, [Next]_vars PROVE DebtInv'
  OBVIOUS
<1>0. HandType /\ FlagType
  BY DEF TypeOK
<1> USE DEF HandType, FlagType, Goto
<1>1. CASE Main
  <2>1. CASE NothingNeeded \/ SetupError \/ StopDispatch \/ Finish \/ Route \/ DrainAll
    BY <2>1 DEF NothingNeeded, SetupError, StopDispatch, Finish, Route, DrainAll,
       DebtInv, connVars
  <2>2. ASSUME NEW b \in Bucket, Dispatch(b) PROVE DebtInv'
    <3> DEFINE s == Head(CandsNow[b])
    <3>1. /\ s \in Storer /\ pc[s] = "idle"
          /\ pc' = [pc EXCEPT ![s] = pc'[s]] /\ pc'[s] \in {"setup", "measure", "top"}
      BY <2>2, DispatchHead
    <3>2. parked' = parked \ {s} /\ residual' = residual
      BY <2>2 DEF Dispatch
    <3>3. owes' \in {owes, owes \ {s}}
      BY <2>2 DEF Dispatch, Enter
    <3> HIDE DEF s
    <3>4. QED BY <3>1, <3>2, <3>3, <1>0 DEF DebtInv
  <2>3. ASSUME NEW s \in Storer, Join(s) PROVE DebtInv'
    BY <2>3, <1>0 DEF Join, Residual, DebtInv
  <2>4. QED BY <1>1, <2>1, <2>2, <2>3 DEF Main
<1>2. CASE WindDown \/ Fallback \/ Done \/ UNCHANGED vars
  BY <1>2 DEF WindDown, Fallback, FbRecv, FbOk, FbErr, Done, vars, DebtInv, connVars, runVars
<1>3. ASSUME NEW s \in Storer, Setup(s) \/ HangUp(s) PROVE DebtInv'
  BY <1>3, <1>0 DEF Setup, SetupFail, SetupOk, Enter, HangUp, DebtInv, runVars
<1>4. ASSUME NEW s \in Storer, Measure(s) PROVE DebtInv'
  BY <1>4, <1>0 DEF Measure, MeasurePop, MeasureEnd, MeasureOk, MeasureErr, MeasureSweep,
     DebtInv, runVars
<1>5. ASSUME NEW s \in Storer, Drive(s) PROVE DebtInv'
  <2>1. CASE TopDead(s) \/ TopLive(s) \/ AdmitStop(s) \/ AdmitNone(s)
    BY <2>1, <1>0 DEF TopDead, TopLive, AdmitStop, AdmitNone, MayAdmit, Reap, DebtInv, runVars
  <2>2. ASSUME NEW i \in Item, AdmitSkip(s, i) \/ AdmitRefused(s, i) \/ AdmitSpawn(s, i)
        PROVE DebtInv'
    BY <2>2, <1>0 DEF AdmitSkip, AdmitRefused, AdmitSpawn, Popped, MayAdmit, Reap, DebtInv,
       runVars
  <2>3. CASE Settle(s)
    BY <2>3, <1>0 DEF Settle, EndOfTurn, DebtInv, runVars
  <2>4. CASE SweepFail(s)
    BY <2>4, <1>0 DEF SweepFail, DebtInv, runVars
  <2>5. CASE Close(s)
    BY <2>5, <1>0 DEF Close, Parkable, DebtInv, runVars
  <2>6. QED BY <1>5, <2>1, <2>2, <2>3, <2>4, <2>5 DEF Drive
<1>6. ASSUME NEW s \in Storer, Tasks(s) PROVE DebtInv'
  <2>1. pc[s] \notin NoFlight
    BY <1>6 DEF Tasks, TaskOk, TaskErr, HandsInv, Holds
  <2>2. QED BY <1>6, <2>1 DEF Tasks, TaskOk, TaskErr, DebtInv, NoFlight, runVars
<1>7. QED BY <1>1, <1>2, <1>3, <1>4, <1>5, <1>6 DEF Next

-----------------------------------------------------------------------------
(* Chunks let go of.                                                       *)

LostInv ==
    /\ \A s \in Storer : pc[s] \in {"measure", "probe", "sweep"} => MeasureLambda
    /\ lost # {} => MeasureLambda \/ PutMayFail

LEMMA LostInit == Init => LostInv
  BY DEF Init, LostInv

LEMMA LostNext == TypeOK /\ Books /\ LostInv /\ [Next]_vars => LostInv'
<1> SUFFICES ASSUME TypeOK, Books, LostInv, [Next]_vars PROVE LostInv'
  OBVIOUS
<1>0. HandType
  BY DEF TypeOK
<1> USE DEF HandType, Goto
<1>1. CASE Main
  <2>1. CASE NothingNeeded \/ SetupError \/ StopDispatch \/ Finish \/ Route \/ DrainAll
    BY <2>1 DEF NothingNeeded, SetupError, StopDispatch, Finish, Route, DrainAll,
       LostInv, connVars
  <2>2. ASSUME NEW b \in Bucket, Dispatch(b) PROVE LostInv'
    <3> DEFINE s == Head(CandsNow[b])
    <3>1. /\ s \in Storer /\ pc' = [pc EXCEPT ![s] = pc'[s]]
      BY <2>2, DispatchHead
    <3>2. pc'[s] = "measure" => MeasureLambda
      BY <2>2, <1>0, <3>1 DEF Dispatch, Enter
    <3>3. pc'[s] \in {"setup", "measure", "top"} /\ lost' = lost
      BY <2>2, DispatchHead DEF Dispatch
    <3> HIDE DEF s
    <3>4. QED BY <3>1, <3>2, <3>3, <1>0 DEF LostInv
  <2>3. ASSUME NEW s \in Storer, Join(s) PROVE LostInv'
    BY <2>3, <1>0 DEF Join, LostInv
  <2>4. QED BY <1>1, <2>1, <2>2, <2>3 DEF Main
<1>2. CASE WindDown \/ Done \/ UNCHANGED vars
  BY <1>2 DEF WindDown, Done, vars, LostInv, connVars
<1>3. CASE Fallback
  BY <1>3 DEF Fallback, FbRecv, FbOk, FbErr, Put, LostInv, connVars
<1>4. ASSUME NEW s \in Storer, Setup(s) \/ HangUp(s) PROVE LostInv'
  BY <1>4, <1>0 DEF Setup, SetupFail, SetupOk, Enter, HangUp, LostInv
<1>5. ASSUME NEW s \in Storer, Measure(s) PROVE LostInv'
  <2>1. MeasureLambda
    BY <1>5 DEF Measure, MeasurePop, MeasureEnd, MeasureOk, MeasureErr, MeasureSweep, LostInv
  <2>2. QED BY <2>1 DEF LostInv
<1>6. ASSUME NEW s \in Storer, Drive(s) PROVE LostInv'
  <2>1. CASE TopDead(s) \/ TopLive(s) \/ AdmitStop(s) \/ AdmitNone(s)
    BY <2>1, <1>0 DEF TopDead, TopLive, AdmitStop, AdmitNone, Reap, LostInv
  <2>2. ASSUME NEW i \in Item, AdmitSkip(s, i) \/ AdmitRefused(s, i) \/ AdmitSpawn(s, i)
        PROVE LostInv'
    BY <2>2, <1>0 DEF AdmitSkip, AdmitRefused, AdmitSpawn, Reap, LostInv
  <2>3. CASE Settle(s)
    BY <2>3, <1>0 DEF Settle, EndOfTurn, LostInv
  <2>4. CASE SweepFail(s) \/ Close(s)
    BY <2>4, <1>0 DEF SweepFail, Close, LostInv
  <2>5. QED BY <1>6, <2>1, <2>2, <2>3, <2>4 DEF Drive
<1>7. ASSUME NEW s \in Storer, Tasks(s) PROVE LostInv'
  BY <1>7 DEF Tasks, TaskOk, TaskErr, Put, LostInv
<1>8. QED BY <1>1, <1>2, <1>3, <1>4, <1>5, <1>6, <1>7 DEF Next

-----------------------------------------------------------------------------
(* No chunk is in two hands.                                               *)

LEMMA OneHandInit == Init => OneHand
  BY DEF Init, OneHand

LEMMA OneHandMain ==
  ASSUME TypeOK, HandsInv, PhaseInv, OneHand, Main PROVE OneHand'
<1>0. HandType
  BY DEF TypeOK
<1> USE DEF HandType, fbVars, connVars
<1>1. CASE NothingNeeded \/ SetupError \/ StopDispatch \/ Finish
  BY <1>1 DEF NothingNeeded, SetupError, StopDispatch, Finish, OneHand
<1>2. CASE Route
  <2>1. \A s \in Storer : pending[s] = {} /\ flight[s] = {}
    BY <1>2 DEF Route, PhaseInv, HandsInv, Holds, NoFlight
  <2>2. fbTasks = {} /\ failed = {} /\ lost = {}
    BY <1>2 DEF Route, PhaseInv
  <2>3. pool' \cap (fbq' \cup dropped') = {} /\ fbq' \cap dropped' = {}
    BY <1>2 DEF Route
  <2>4. UNCHANGED <<fbTasks, failed, lost, pending, flight>>
    BY <1>2 DEF Route
  <2>5. QED BY <2>1, <2>2, <2>3, <2>4 DEF OneHand
<1>3. ASSUME NEW b \in Bucket, Dispatch(b) PROVE OneHand'
  BY <1>3 DEF Dispatch, OneHand
<1>4. ASSUME NEW s \in Storer, Join(s) PROVE OneHand'
  BY <1>4 DEF Join, OneHand
<1>5. CASE DrainAll
  BY <1>5 DEF DrainAll, OneHand
<1>6. QED BY <1>1, <1>2, <1>3, <1>4, <1>5 DEF Main

LEMMA OneHandConn ==
  ASSUME TypeOK, HandsInv, OneHand, NEW s \in Storer,
         Setup(s) \/ Measure(s) \/ Drive(s) \/ Tasks(s) \/ HangUp(s)
  PROVE  OneHand'
<1>0. HandType /\ ChunkType /\ Holds(s)
  BY DEF TypeOK, HandsInv
<1> USE DEF HandType, fbVars, runVars
<1>1. CASE Setup(s) \/ HangUp(s)
  BY <1>1 DEF Setup, SetupFail, SetupOk, HangUp, OneHand
<1>2. ASSUME NEW i \in Item, MeasurePop(s, i) PROVE OneHand'
  BY <1>0, <1>2 DEF MeasurePop, InBucket, OneHand
<1>3. ASSUME NEW i \in Item, MeasureOk(s, i) PROVE OneHand'
  BY <1>0, <1>3 DEF MeasureOk, Put, OneHand
<1>4. ASSUME NEW i \in Item, MeasureErr(s, i) PROVE OneHand'
  BY <1>0, <1>4 DEF MeasureErr, Queued, OneHand
<1>5. CASE MeasureEnd(s) \/ MeasureSweep(s) \/ AdmitStop(s) \/ AdmitNone(s)
           \/ Settle(s) \/ SweepFail(s) \/ Close(s)
  BY <1>5 DEF MeasureEnd, MeasureSweep, AdmitStop, AdmitNone, Settle, SweepFail, Close, OneHand
<1>6. CASE TopDead(s)
  BY <1>0, <1>6 DEF TopDead, Leftover, OneHand
<1>7. CASE TopLive(s)
  BY <1>0, <1>7 DEF TopLive, Leftover, OneHand
<1>8. ASSUME NEW i \in Item, AdmitSkip(s, i) PROVE OneHand'
  BY <1>0, <1>8 DEF AdmitSkip, Popped, OneHand
<1>9. ASSUME NEW i \in Item, AdmitRefused(s, i) PROVE OneHand'
  BY <1>0, <1>9 DEF AdmitRefused, Popped, InBucket, OneHand
<1>10. ASSUME NEW i \in Item, AdmitSpawn(s, i) PROVE OneHand'
  BY <1>0, <1>10 DEF AdmitSpawn, Popped, InBucket, OneHand
<1>11. ASSUME NEW i \in Item, TaskOk(s, i) PROVE OneHand'
  BY <1>0, <1>11 DEF TaskOk, Put, OneHand
<1>12. ASSUME NEW i \in Item, TaskErr(s, i) PROVE OneHand'
  BY <1>0, <1>12 DEF TaskErr, Queued, OneHand
<1>13. QED
  BY <1>1, <1>2, <1>3, <1>4, <1>5, <1>6, <1>7, <1>8, <1>9, <1>10, <1>11, <1>12
  DEF Measure, Drive, Tasks

LEMMA OneHandNext ==
  TypeOK /\ HandsInv /\ PhaseInv /\ OneHand /\ [Next]_vars => OneHand'
<1> SUFFICES ASSUME TypeOK, HandsInv, PhaseInv, OneHand, [Next]_vars PROVE OneHand'
  OBVIOUS
<1>1. CASE Fallback
  <2> SUFFICES ASSUME NEW i \in Item, FbRecv(i) \/ FbOk(i) \/ FbErr(i) PROVE OneHand'
    BY <1>1 DEF Fallback
  <2>1. CASE FbRecv(i)
    BY <2>1 DEF FbRecv, OneHand, runVars, connVars
  <2>2. CASE FbOk(i)
    BY <2>2 DEF FbOk, Put, OneHand, runVars, connVars
  <2>3. CASE FbErr(i)
    BY <2>3 DEF FbErr, OneHand, runVars, connVars
  <2>4. QED BY <2>1, <2>2, <2>3
<1>2. CASE WindDown \/ Done \/ UNCHANGED vars
  BY <1>2 DEF WindDown, Done, vars, OneHand, runVars, fbVars, connVars
<1>3. QED BY <1>1, <1>2, OneHandMain, OneHandConn DEF Next

-----------------------------------------------------------------------------
(* Every chunk is somewhere.                                               *)

\* The same as AccountedFor, with the union over connections as a quantifier.
Tracked(i) ==
    \/ AddrOf[i] \in stored
    \/ i \in pool \/ i \in fbq \/ i \in fbTasks
    \/ i \in failed \/ i \in dropped \/ i \in lost
    \/ \E s \in Storer : i \in pending[s] \/ i \in flight[s]

AllTracked ==
    /\ \A i \in needed : Tracked(i)
    /\ phase \in {"refill", "join", "tail"} =>
          \A i \in Item \ needed : AddrOf[i] \in stored

LEMMA TrackedAccounted == AllTracked => AccountedFor
  BY DEF AllTracked, Tracked, AccountedFor, InHands

LEMMA TrackedInit == Init => AllTracked
  BY DEF Init, AllTracked

LEMMA TrackedMain ==
  ASSUME TypeOK, AllTracked, PhaseInv, Main PROVE AllTracked'
<1> USE DEF fbVars, connVars
<1>1. CASE NothingNeeded \/ SetupError
  BY <1>1 DEF NothingNeeded, SetupError, AllTracked, PhaseInv
<1>2. CASE StopDispatch \/ Finish
  BY <1>2 DEF StopDispatch, Finish, AllTracked, Tracked
<1>3. CASE Route
  BY <1>3 DEF Route, Needed, AllTracked, Tracked
<1>4. ASSUME NEW b \in Bucket, Dispatch(b) PROVE AllTracked'
  BY <1>4 DEF Dispatch, AllTracked, Tracked
<1>5. ASSUME NEW s \in Storer, Join(s) PROVE AllTracked'
  BY <1>5 DEF Join, AllTracked, Tracked
<1>6. CASE DrainAll
  BY <1>6 DEF DrainAll, AllTracked, Tracked
<1>7. QED BY <1>1, <1>2, <1>3, <1>4, <1>5, <1>6 DEF Main

LEMMA TrackedConn ==
  ASSUME TypeOK, HandsInv, AllTracked, NEW s \in Storer,
         Setup(s) \/ Measure(s) \/ Drive(s) \/ Tasks(s) \/ HangUp(s)
  PROVE  AllTracked'
<1>0. HandType /\ Holds(s)
  BY DEF TypeOK, HandsInv
<1> USE DEF HandType, fbVars, runVars, AllTracked, Tracked
<1>1. CASE Setup(s) \/ HangUp(s)
  BY <1>1 DEF Setup, SetupFail, SetupOk, HangUp
<1>2. ASSUME NEW i \in Item, MeasurePop(s, i) PROVE AllTracked'
  BY <1>0, <1>2 DEF MeasurePop, Holds, NoFlight
<1>3. ASSUME NEW i \in Item, MeasureOk(s, i) PROVE AllTracked'
  BY <1>0, <1>3 DEF MeasureOk, Put, Holds
<1>4. ASSUME NEW i \in Item, MeasureErr(s, i) PROVE AllTracked'
  BY <1>0, <1>4 DEF MeasureErr, Queued, Holds
<1>5. CASE MeasureEnd(s) \/ MeasureSweep(s) \/ AdmitStop(s) \/ AdmitNone(s)
           \/ Settle(s) \/ SweepFail(s) \/ Close(s)
  BY <1>5 DEF MeasureEnd, MeasureSweep, AdmitStop, AdmitNone, Settle, SweepFail, Close
<1>6. CASE TopDead(s)
  BY <1>0, <1>6 DEF TopDead, Leftover
<1>7. CASE TopLive(s)
  BY <1>0, <1>7 DEF TopLive, Leftover
<1>8. ASSUME NEW i \in Item, AdmitSkip(s, i) PROVE AllTracked'
  BY <1>0, <1>8 DEF AdmitSkip, Popped, Holds
<1>9. ASSUME NEW i \in Item, AdmitRefused(s, i) PROVE AllTracked'
  BY <1>0, <1>9 DEF AdmitRefused, Popped, Holds
<1>10. ASSUME NEW i \in Item, AdmitSpawn(s, i) PROVE AllTracked'
  BY <1>0, <1>10 DEF AdmitSpawn, Popped, Holds
<1>11. ASSUME NEW i \in Item, TaskOk(s, i) PROVE AllTracked'
  BY <1>0, <1>11 DEF TaskOk, Put
<1>12. ASSUME NEW i \in Item, TaskErr(s, i) PROVE AllTracked'
  BY <1>0, <1>12 DEF TaskErr, Queued
<1>13. QED
  BY <1>1, <1>2, <1>3, <1>4, <1>5, <1>6, <1>7, <1>8, <1>9, <1>10, <1>11, <1>12
  DEF Measure, Drive, Tasks

LEMMA TrackedNext ==
  TypeOK /\ HandsInv /\ PhaseInv /\ AllTracked /\ [Next]_vars => AllTracked'
<1> SUFFICES ASSUME TypeOK, HandsInv, PhaseInv, AllTracked, [Next]_vars PROVE AllTracked'
  OBVIOUS
<1>1. CASE Fallback
  <2> SUFFICES ASSUME NEW i \in Item, FbRecv(i) \/ FbOk(i) \/ FbErr(i) PROVE AllTracked'
    BY <1>1 DEF Fallback
  <2>1. CASE FbRecv(i)
    BY <2>1 DEF FbRecv, AllTracked, Tracked, runVars, connVars
  <2>2. CASE FbOk(i)
    BY <2>2 DEF FbOk, Put, AllTracked, Tracked, runVars, connVars
  <2>3. CASE FbErr(i)
    BY <2>3 DEF FbErr, AllTracked, Tracked, runVars, connVars
  <2>4. QED BY <2>1, <2>2, <2>3
<1>2. CASE WindDown \/ Done \/ UNCHANGED vars
  BY <1>2 DEF WindDown, Done, vars, AllTracked, Tracked, runVars, fbVars, connVars
<1>3. QED BY <1>1, <1>2, TrackedMain, TrackedConn DEF Next

-----------------------------------------------------------------------------
(* An empty bucket stays empty.                                            *)

LEMMA DrainedInit == Init => DrainedIsFinal
  BY DEF Init, DrainedIsFinal

\* After the routing the pool only shrinks.
LEMMA PoolShrinks == [Next]_vars => Route \/ pool' \subseteq pool
<1> SUFFICES ASSUME [Next]_vars, ~Route PROVE pool' \subseteq pool
  OBVIOUS
<1>1. CASE Main
  BY <1>1 DEF Main, NothingNeeded, SetupError, Dispatch, StopDispatch, Join, DrainAll, Finish
<1>2. CASE WindDown \/ Fallback \/ Done \/ UNCHANGED vars
  BY <1>2 DEF WindDown, Fallback, FbRecv, FbOk, FbErr, Done, vars
<1>3. ASSUME NEW s \in Storer, Setup(s) \/ Measure(s) \/ Tasks(s) \/ HangUp(s)
      PROVE pool' \subseteq pool
  BY <1>3 DEF Setup, SetupFail, SetupOk, HangUp, Measure, MeasurePop, MeasureEnd,
     MeasureOk, MeasureErr, MeasureSweep, Tasks, TaskOk, TaskErr
<1>4. ASSUME NEW s \in Storer, Drive(s) PROVE pool' \subseteq pool
  BY <1>4 DEF Drive, TopDead, TopLive, AdmitStop, AdmitNone, AdmitSkip,
     AdmitRefused, AdmitSpawn, Popped, Settle, SweepFail, Close
<1>5. QED BY <1>1, <1>2, <1>3, <1>4 DEF Next

\* Only a connection that found nothing to admit is marked drained.
LEMMA DrainedFrame ==
  [Next]_vars => \A r \in drained' : \/ r \in drained
                                     \/ r \in Storer /\ InBucket(Prefix[r]) = {}
<1> SUFFICES ASSUME [Next]_vars, NEW r \in drained', r \notin drained
             PROVE r \in Storer /\ InBucket(Prefix[r]) = {}
  OBVIOUS
<1> USE DEF connVars, loopVars
<1>1. CASE Main
  BY <1>1 DEF Main, NothingNeeded, SetupError, Route, Dispatch, StopDispatch, Join,
     DrainAll, Finish
<1>2. CASE WindDown \/ Fallback \/ Done \/ UNCHANGED vars
  BY <1>2 DEF WindDown, Fallback, FbRecv, FbOk, FbErr, Done, vars
<1>3. ASSUME NEW s \in Storer, Setup(s) \/ Measure(s) \/ Tasks(s) \/ HangUp(s)
      PROVE FALSE
  BY <1>3 DEF Setup, SetupFail, SetupOk, HangUp, Measure, MeasurePop, MeasureEnd,
     MeasureOk, MeasureErr, MeasureSweep, Tasks, TaskOk, TaskErr
<1>4. ASSUME NEW s \in Storer, Drive(s), ~AdmitNone(s) PROVE FALSE
  BY <1>4 DEF Drive, TopDead, TopLive, AdmitStop, AdmitSkip,
     AdmitRefused, AdmitSpawn, Settle, SweepFail, Close
<1>5. ASSUME NEW s \in Storer, AdmitNone(s)
      PROVE r \in Storer /\ InBucket(Prefix[r]) = {}
  BY <1>5 DEF AdmitNone, OutOfWork
<1>6. QED BY <1>1, <1>2, <1>3, <1>4, <1>5 DEF Next

LEMMA DrainedNext ==
  TypeOK /\ HandsInv /\ PhaseInv /\ DrainedIsFinal /\ [Next]_vars => DrainedIsFinal'
<1> SUFFICES ASSUME TypeOK, HandsInv, PhaseInv, DrainedIsFinal, [Next]_vars
             PROVE DrainedIsFinal'
  OBVIOUS
<1>1. CASE Route
  <2>1. drained = {}
    BY <1>1 DEF Route, PhaseInv, HandsInv, Holds, InDrive, TypeOK, FlagType
  <2>2. QED BY <1>1, <2>1 DEF Route, connVars, loopVars, DrainedIsFinal
<1>2. CASE pool' \subseteq pool
  BY <1>2, DrainedFrame DEF DrainedIsFinal, InBucket
<1>3. QED BY <1>1, <1>2, PoolShrinks

-----------------------------------------------------------------------------
(* The inductive invariant, and what follows from it.                      *)

Inv == /\ TypeOK /\ Books /\ HandsInv /\ PhaseInv /\ DebtInv /\ LostInv
       /\ OneHand /\ AllTracked /\ DrainedIsFinal

LEMMA Invariance == Spec => []Inv
<1>1. Init => Inv
  BY TypeInit, BooksInit, HandsInit, PhaseInit, DebtInit, LostInit, OneHandInit,
     TrackedInit, DrainedInit DEF Inv
<1>2. Inv /\ [Next]_vars => Inv'
  BY TypeNext, BooksNext, HandsNext, PhaseNext, DebtNext, LostNext, OneHandNext,
     TrackedNext, DrainedNext DEF Inv
<1>3. QED BY <1>1, <1>2, PTL DEF Spec

\* No chunk is ever in two hands, however many connections share the pool
\* and however they fail: a list entry is retrieved, and paid for, at most
\* once at a time, directly or through the fallback.
THEOREM NeverTwoHands == Spec => []OneHand
<1>1. Inv => OneHand
  BY DEF Inv
<1>2. QED BY <1>1, Invariance, PTL

\* Every needed chunk is stored, in somebody's hands, or one of those the
\* measurement or a failed put let go of.
THEOREM Accounted == Spec => []AccountedFor
<1>1. Inv => AccountedFor
  BY TrackedAccounted DEF Inv
<1>2. QED BY <1>1, Invariance, PTL

\* "Emptiness is final": a connection that finishes because its bucket was
\* empty never leaves work behind in it.
THEOREM DrainedFinal == Spec => []DrainedIsFinal
<1>1. Inv => DrainedIsFinal
  BY DEF Inv
<1>2. QED BY <1>1, Invariance, PTL

\* A connection that is closing or gone has no retrieval and no chunk.
THEOREM NoneOutlives == Spec => []NothingOutlives
<1>1. Inv => NothingOutlives
  BY DEF Inv, HandsInv, Holds, NoFlight, NothingOutlives
<1>2. QED BY <1>1, Invariance, PTL

\* A fetch that reports no residual leaves no unpaid debt.
THEOREM DebtReported == Spec => []NoSilentDebt
<1>1. Inv => NoSilentDebt
  BY DEF Inv, TypeOK, FlagType, PhaseInv, DebtInv, NoSilentDebt
<1>2. QED BY <1>1, Invariance, PTL

\* A parked connection is settled and idle.
THEOREM ParkedClean == Spec => []ParkedSettled
<1>1. Inv => ParkedSettled
  BY DEF Inv, TypeOK, FlagType, HandsInv, Holds, NoFlight, DebtInv, ParkedSettled
<1>2. QED BY <1>1, Invariance, PTL

\* Without latency measurement and without failing puts, a fetch that
\* returns normally has stored, reported or counted every chunk it needed.
THEOREM NoneLost ==
  ASSUME ~MeasureLambda, ~PutMayFail PROVE Spec => []NoChunkLost
<1>1. Inv => NoChunkLost
  <2> SUFFICES ASSUME Inv, phase = "done", NEW i \in needed, AddrOf[i] \notin stored
               PROVE i \in failed \cup dropped
    BY DEF NoChunkLost, Missing
  <2>1. pool = {} /\ fbq = {} /\ fbTasks = {} /\ \A s \in Storer : pc[s] = "idle"
    BY DEF Inv, PhaseInv
  <2>2. \A s \in Storer : pending[s] = {} /\ flight[s] = {}
    BY <2>1 DEF Inv, HandsInv, Holds, NoFlight
  <2>3. lost = {}
    BY DEF Inv, LostInv
  <2>4. QED BY <2>1, <2>2, <2>3 DEF Inv, AllTracked, Tracked
<1>2. QED BY <1>1, Invariance, PTL

-----------------------------------------------------------------------------
(* The report's count, when puts do not fail.                              *)

Held(i) ==
    \/ i \in pool \/ i \in fbq \/ i \in fbTasks \/ i \in failed \/ i \in dropped
    \/ \E s \in Storer : i \in pending[s] \/ i \in flight[s]

\* D are the chunks the two counters count: each was put into the store and
\* left all hands for good.
Counted(D) ==
    /\ D \subseteq needed
    /\ Cardinality(D) = directOk + fbCount
    /\ \A i \in D : AddrOf[i] \in stored /\ ~Held(i)

CountInv ==
    /\ \A i \in Item : Held(i) => i \in needed
    /\ \E D \in SUBSET Item : Counted(D)

\* A step that only moves chunks from hand to hand, or lets go of them.
Moves ==
    /\ needed' = needed /\ stored \subseteq stored'
    /\ directOk' = directOk /\ fbCount' = fbCount
    /\ \A i \in Item : Held(i)' => Held(i)

\* A step that counts a chunk.
Counts(j) ==
    /\ needed' = needed /\ stored \subseteq stored'
    /\ directOk' + fbCount' = directOk + fbCount + 1
    /\ Held(j) /\ ~Held(j)' /\ AddrOf[j] \in stored'
    /\ \A i \in Item : Held(i)' => Held(i)

LEMMA CountInit == Init => CountInv
<1> SUFFICES ASSUME Init PROVE CountInv
  OBVIOUS
<1>1. Counted({})
  BY FS_EmptySet DEF Init, Counted
<1>2. \A i \in Item : ~Held(i)
  BY DEF Init, Held
<1>3. QED BY <1>1, <1>2 DEF CountInv

LEMMA MainMoves ==
  ASSUME TypeOK, PhaseInv, HandsInv, Main, ~Route PROVE Moves
<1> USE DEF runVars, fbVars, connVars, Held, Moves
<1>1. CASE NothingNeeded \/ SetupError \/ StopDispatch \/ Finish
  BY <1>1 DEF NothingNeeded, SetupError, StopDispatch, Finish
<1>2. ASSUME NEW b \in Bucket, Dispatch(b) PROVE Moves
  BY <1>2 DEF Dispatch
<1>3. ASSUME NEW s \in Storer, Join(s) PROVE Moves
  BY <1>3 DEF Join
<1>4. CASE DrainAll
  BY <1>4 DEF DrainAll
<1>5. QED BY <1>1, <1>2, <1>3, <1>4 DEF Main

LEMMA FallbackCounts ==
  ASSUME TypeOK, OneHand, ~PutMayFail, NEW i \in Item, FbRecv(i) \/ FbOk(i) \/ FbErr(i)
  PROVE  Moves \/ Counts(i)
<1> USE DEF runVars, connVars, Held
<1>1. CASE FbRecv(i)
  BY <1>1 DEF FbRecv, Moves
<1>2. CASE FbErr(i)
  BY <1>2 DEF FbErr, Moves
<1>3. CASE FbOk(i)
  <2>1. /\ stored' = stored \cup {AddrOf[i]} /\ fbTasks' = fbTasks \ {i}
        /\ fbCount' = fbCount + 1 /\ i \in fbTasks
        /\ UNCHANGED <<needed, dropped, fbq, failed, pool, directOk, pending, flight>>
    BY <1>3 DEF FbOk, Put
  <2>2. ~Held(i)'
    BY <2>1 DEF OneHand
  <2>3. QED BY <2>1, <2>2 DEF Counts, TypeOK, ChunkType
<1>4. QED BY <1>1, <1>2, <1>3

LEMMA ConnCounts ==
  ASSUME TypeOK, HandsInv, OneHand, ~PutMayFail, NEW s \in Storer,
         Setup(s) \/ Measure(s) \/ Drive(s) \/ Tasks(s) \/ HangUp(s)
  PROVE  Moves \/ \E i \in Item : Counts(i)
<1>0. HandType /\ ChunkType /\ Holds(s)
  BY DEF TypeOK, HandsInv
<1> USE DEF HandType, fbVars, runVars, Held
<1>1. CASE Setup(s) \/ HangUp(s)
  BY <1>1 DEF Setup, SetupFail, SetupOk, HangUp, Moves
<1>2. ASSUME NEW i \in Item, MeasurePop(s, i) PROVE Moves
  BY <1>0, <1>2 DEF MeasurePop, InBucket, Moves
<1>3. ASSUME NEW i \in Item, MeasureOk(s, i) PROVE Counts(i)
  <2>1. /\ stored' = stored \cup {AddrOf[i]} /\ flight' = [flight EXCEPT ![s] = {}]
        /\ directOk' = directOk + 1 /\ i \in flight[s]
        /\ UNCHANGED <<needed, dropped, fbq, fbTasks, failed, pool, fbCount, pending>>
    BY <1>3 DEF MeasureOk, Put
  <2>2. ~Held(i)'
    BY <1>0, <2>1 DEF OneHand
  <2>3. QED BY <1>0, <2>1, <2>2 DEF Counts, ChunkType
<1>4. ASSUME NEW i \in Item, MeasureErr(s, i) PROVE Moves
  BY <1>0, <1>4 DEF MeasureErr, Queued, Moves
<1>5. CASE MeasureEnd(s) \/ MeasureSweep(s) \/ AdmitStop(s) \/ AdmitNone(s)
           \/ Settle(s) \/ SweepFail(s) \/ Close(s)
  BY <1>5 DEF MeasureEnd, MeasureSweep, AdmitStop, AdmitNone, Settle, SweepFail, Close, Moves
<1>6. CASE TopDead(s)
  BY <1>0, <1>6 DEF TopDead, Leftover, Moves
<1>7. CASE TopLive(s)
  BY <1>0, <1>7 DEF TopLive, Leftover, Moves
<1>8. ASSUME NEW i \in Item, AdmitSkip(s, i) PROVE Moves
  BY <1>0, <1>8 DEF AdmitSkip, Popped, Moves
<1>9. ASSUME NEW i \in Item, AdmitRefused(s, i) PROVE Moves
  BY <1>0, <1>9 DEF AdmitRefused, Popped, InBucket, Moves
<1>10. ASSUME NEW i \in Item, AdmitSpawn(s, i) PROVE Moves
  BY <1>0, <1>10 DEF AdmitSpawn, Popped, InBucket, Moves
<1>11. ASSUME NEW i \in Item, TaskOk(s, i) PROVE Counts(i)
  <2>1. /\ stored' = stored \cup {AddrOf[i]} /\ flight' = [flight EXCEPT ![s] = @ \ {i}]
        /\ directOk' = directOk + 1 /\ i \in flight[s]
        /\ UNCHANGED <<needed, dropped, fbq, fbTasks, failed, pool, fbCount, pending>>
    BY <1>11 DEF TaskOk, Put
  <2>2. ~Held(i)'
    BY <1>0, <2>1 DEF OneHand
  <2>3. QED BY <1>0, <2>1, <2>2 DEF Counts, ChunkType
<1>12. ASSUME NEW i \in Item, TaskErr(s, i) PROVE Moves
  BY <1>0, <1>12 DEF TaskErr, Queued, Moves
<1>13. QED
  BY <1>1, <1>2, <1>3, <1>4, <1>5, <1>6, <1>7, <1>8, <1>9, <1>10, <1>11, <1>12
  DEF Measure, Drive, Tasks

LEMMA CountNext ==
  ASSUME TypeOK, HandsInv, PhaseInv, OneHand, ~PutMayFail, CountInv, [Next]_vars
  PROVE  CountInv'
<1>0. PICK D \in SUBSET Item : Counted(D)
  BY DEF CountInv
<1>1. CASE Moves
  <2>1. Counted(D)'
    BY <1>0, <1>1 DEF Counted, Moves
  <2>2. QED BY <1>1, <2>1 DEF CountInv, Moves
<1>2. ASSUME NEW j \in Item, Counts(j) PROVE CountInv'
  <2>1. j \in needed /\ j \notin D
    BY <1>0, <1>2 DEF CountInv, Counted, Counts
  <2>2. IsFiniteSet(D)
    BY ChunkAssumption, FS_Subset
  <2>3. Cardinality(D \cup {j}) = Cardinality(D) + 1
    BY <2>1, <2>2, FS_AddElement
  <2>4. Counted(D \cup {j})'
    BY <1>0, <1>2, <2>1, <2>3 DEF Counted, Counts
  <2>5. QED BY <1>2, <2>4 DEF CountInv, Counts
<1>3. CASE Route
  <2>1. D = {}
    BY <1>0, <1>3 DEF Route, PhaseInv, Counted
  <2>2. Counted({})'
    BY <1>0, <1>3, <2>1 DEF Route, Counted
  <2>3. \A s \in Storer : pending[s] = {} /\ flight[s] = {}
    BY <1>3 DEF Route, PhaseInv, HandsInv, Holds, NoFlight
  <2>4. \A i \in Item : Held(i)' => i \in needed'
    BY <1>3, <2>3 DEF Route, Needed, PhaseInv, Held, connVars
  <2>5. QED BY <2>2, <2>4 DEF CountInv
<1>4. CASE WindDown \/ Done \/ UNCHANGED vars
  BY <1>1, <1>4 DEF WindDown, Done, vars, Moves, Held, runVars, fbVars, connVars
<1>5. QED BY <1>1, <1>2, <1>3, <1>4, MainMoves, FallbackCounts, ConnCounts DEF Next, Fallback

\* When puts do not fail, chunks_failed of the report never understates what
\* is missing, whatever chunks were dropped, given up on or popped and let go
\* of (schedule.rs fetch_scheduled, the subtraction at the end).
THEOREM ReportNotUnderstated ==
  ASSUME ~PutMayFail PROVE Spec => []FailedNotUnderstated
<1>1. Init => CountInv
  BY CountInit
<1>2. Inv /\ CountInv /\ [Next]_vars => CountInv'
  BY CountNext DEF Inv
<1>3. Inv /\ CountInv => FailedNotUnderstated
  <2> SUFFICES ASSUME Inv, CountInv
               PROVE  ChunksFailed >= Cardinality(Missing \ dropped)
    BY DEF FailedNotUnderstated
  <2>1. PICK D \in SUBSET Item : Counted(D)
    BY DEF CountInv
  <2> DEFINE M == Missing \ dropped
             R == needed \ D
  <2>2. /\ IsFiniteSet(needed) /\ IsFiniteSet(D) /\ IsFiniteSet(dropped) /\ IsFiniteSet(M)
        /\ IsFiniteSet(R)
    BY ChunkAssumption, FS_Subset DEF Inv, TypeOK, RunType, Missing
  <2>3. D \subseteq needed /\ dropped \subseteq needed \ D /\ M \subseteq (needed \ D) \ dropped
    BY <2>1 DEF Counted, CountInv, Held, Missing, Inv, TypeOK, RunType
  <2>4. /\ Cardinality(needed) \in Nat /\ Cardinality(D) \in Nat /\ Cardinality(dropped) \in Nat
        /\ Cardinality(M) \in Nat /\ Cardinality(R) \in Nat
    BY <2>2, FS_CardinalityType
  <2>5. Cardinality(R) = Cardinality(needed) - Cardinality(D)
    <3>1. needed \cap D = D
      BY <2>3
    <3>2. QED BY <2>2, <3>1, FS_Difference
  <2>6. Cardinality(R \ dropped) = Cardinality(R) - Cardinality(dropped)
    <3>1. R \cap dropped = dropped
      BY <2>3
    <3>2. QED BY <2>2, <3>1, FS_Difference
  <2>7. Cardinality(M) <= Cardinality(R \ dropped)
    <3>1. IsFiniteSet(R \ dropped) /\ M \in SUBSET (R \ dropped)
      BY <2>2, <2>3, FS_Difference
    <3>2. QED BY <3>1, FS_Subset
  <2>8. Cardinality(D) = directOk + fbCount
    BY <2>1 DEF Counted
  <2> HIDE DEF M, R
  <2>9. Cardinality(M) <= Cardinality(needed) - Cardinality(D) - Cardinality(dropped)
    BY <2>4, <2>5, <2>6, <2>7
  <2>10. ChunksFailed >= Cardinality(M)
    BY <2>4, <2>8, <2>9 DEF ChunksFailed, Monus
  <2>11. QED BY <2>10 DEF M
<1>4. QED BY <1>1, <1>2, <1>3, Invariance, PTL DEF Spec

-----------------------------------------------------------------------------
(* The scheduler implements the delivery contract.                         *)

\* What a step can do to the three things the contract speaks of.
LEMMA StoreFrame ==
  ASSUME Inv, [Next]_vars
  PROVE  \/ UNCHANGED <<stored, failed, dropped, outcome>>
         \/ Route \/ DrainAll \/ Finish \/ NothingNeeded \/ SetupError
         \/ \E i \in Item : FbErr(i)
         \/ \E i \in Item : /\ stored' = stored \cup {AddrOf[i]}
                            /\ phase # "done"
                            /\ UNCHANGED <<failed, dropped, outcome>>
<1> DEFINE Stores == \E i \in Item : /\ stored' = stored \cup {AddrOf[i]}
                                     /\ phase # "done"
                                     /\ UNCHANGED <<failed, dropped, outcome>>
           Still == UNCHANGED <<stored, failed, dropped, outcome>>
<1> USE DEF runVars, fbVars
<1>0. \A s \in Storer : phase = "done" => pc[s] = "idle" /\ flight[s] = {}
  BY DEF Inv, PhaseInv, HandsInv, Holds, NoFlight
<1>1. CASE Main
  BY <1>1 DEF Main, Dispatch, StopDispatch, Join
<1>2. CASE Fallback
  <2>1. ASSUME NEW i \in Item, FbOk(i) PROVE Still \/ Stores
    BY <2>1 DEF FbOk, Put, Inv, PhaseInv
  <2>2. QED BY <1>2, <2>1 DEF Fallback, FbRecv
<1>3. CASE WindDown \/ Done \/ UNCHANGED vars
  BY <1>3 DEF WindDown, Done, vars
<1>4. ASSUME NEW s \in Storer, Setup(s) \/ HangUp(s) \/ Drive(s) PROVE Still
  BY <1>4 DEF Setup, SetupFail, SetupOk, HangUp, Drive, TopDead, TopLive, AdmitStop,
     AdmitNone, AdmitSkip, AdmitRefused, AdmitSpawn, Settle, SweepFail, Close
<1>5. ASSUME NEW s \in Storer, Measure(s) PROVE Still \/ Stores
  BY <1>0, <1>5 DEF Measure, MeasurePop, MeasureEnd, MeasureOk, MeasureErr, MeasureSweep, Put
<1>6. ASSUME NEW s \in Storer, Tasks(s) PROVE Still \/ Stores
  BY <1>0, <1>6 DEF Tasks, TaskOk, TaskErr, Put
<1>7. QED BY <1>1, <1>2, <1>3, <1>4, <1>5, <1>6 DEF Next

\* The scheduler, without latency measurement and without failing puts,
\* implements the delivery contract: an "ok" is reported once, only when
\* every item of the caller's list is stored or given up, and nothing moves
\* afterwards.
THEOREM ImplementsDelivery ==
  ASSUME ~MeasureLambda, ~PutMayFail PROVE Spec => Delivery
<1> USE DEF CD!vars
<1>1. Init => CD!Init
  BY ChunkAssumption DEF Init, CD!Init
<1>2. Inv /\ [Next]_vars => [CD!Next]_(CD!vars)
  <2> SUFFICES ASSUME Inv, [Next]_vars PROVE [CD!Next]_(CD!vars)
    OBVIOUS
  <2>0. phase # "done" => outcome = "none"
    BY DEF Inv, PhaseInv
  <2>1. CASE UNCHANGED <<stored, failed, dropped, outcome>>
    BY <2>1
  <2>2. CASE Route
    <3>1. dropped' \subseteq Item /\ dropped = {}
      BY <2>2 DEF Route, Needed, Inv, PhaseInv
    <3>2. CD!GiveUp(dropped')
      BY <2>0, <2>2, <3>1 DEF Route, CD!GiveUp, CD!Running
    <3>3. QED BY <3>1, <3>2 DEF CD!Next
  <2>3. CASE DrainAll
    <3> DEFINE S == IF DirectOnly THEN pool ELSE {}
    <3>1. S \in SUBSET Item
      BY DEF Inv, TypeOK, ChunkType
    <3>2. CD!GiveUp(S)
      BY <2>0, <2>3 DEF DrainAll, CD!GiveUp, CD!Running
    <3> HIDE DEF S
    <3>3. QED BY <3>1, <3>2 DEF CD!Next
  <2>4. CASE Finish
    <3>1. \A s \in Storer : pending[s] = {} /\ flight[s] = {}
      BY <2>4 DEF Finish, Inv, PhaseInv, HandsInv, Holds, NoFlight
    <3>2. pool = {} /\ fbq = {} /\ fbTasks = {} /\ lost = {}
      BY <2>4 DEF Finish, FallbackIdle, Inv, PhaseInv, LostInv
    <3>3. CD!Complete
      BY <2>4, <3>1, <3>2 DEF Finish, CD!Complete, Inv, AllTracked, Tracked
    <3>4. QED BY <2>0, <2>4, <3>3 DEF Finish, fbVars, CD!Next, CD!ReportOk, CD!ReportErr,
             CD!Running
  <2>5. CASE NothingNeeded
    <3>1. CD!Complete
      BY <2>5 DEF NothingNeeded, Needed, CD!Complete
    <3>2. QED BY <2>0, <2>5, <3>1 DEF NothingNeeded, fbVars, CD!Next, CD!ReportOk, CD!Running
  <2>6. CASE SetupError
    BY <2>0, <2>6 DEF SetupError, fbVars, CD!Next, CD!ReportErr, CD!Running
  <2>7. ASSUME NEW i \in Item, FbErr(i) PROVE [CD!Next]_(CD!vars)
    <3>1. phase # "done"
      BY <2>7 DEF FbErr, Inv, PhaseInv
    <3>2. CD!GiveUp({i})
      BY <2>0, <2>7, <3>1 DEF FbErr, runVars, CD!GiveUp, CD!Running
    <3>3. QED BY <3>2 DEF CD!Next
  <2>8. ASSUME NEW i \in Item, stored' = stored \cup {AddrOf[i]}, phase # "done",
               UNCHANGED <<failed, dropped, outcome>>
        PROVE [CD!Next]_(CD!vars)
    <3>1. AddrOf[i] \in Addr
      BY ChunkAssumption
    <3>2. CD!Store(AddrOf[i])
      BY <2>0, <2>8 DEF CD!Store, CD!Running
    <3>3. QED BY <3>1, <3>2 DEF CD!Next
  <2>9. QED BY <2>1, <2>2, <2>3, <2>4, <2>5, <2>6, <2>7, <2>8, StoreFrame
<1>3. QED BY <1>1, <1>2, Invariance, PTL DEF Spec, Delivery, CD!Spec
=============================================================================
