---------------------------- MODULE FetchScheduler ----------------------------
(***************************************************************************)
(* The multi-connection fetch of ds-net/src/schedule.rs: fetch_scheduled,  *)
(* its shared work pool, the critical-path dispatcher, one actor per       *)
(* storer connection (run_connection, run_established, measure_lambda,     *)
(* drive) with its retrieval tasks, the stall detector and the bee         *)
(* fallback worker.  The module follows every chunk: which container holds *)
(* it, who may take it, and what is said of it in the report.              *)
(*                                                                         *)
(* Money is abstracted to what routes chunks: admission may be refused,    *)
(* the spend projection may stop a connection, and owes is the set of      *)
(* connections whose mirror shows debt above the prepayment.               *)
(***************************************************************************)
EXTENDS Integers, Sequences, FiniteSets

CONSTANTS
    Item,         \* positions of the caller's chunk list
    Addr,         \* chunk addresses
    Bucket,       \* neighbourhoods: the first `depth` bits of an address
    Storer,       \* storer overlays of the topology cache
    AddrOf,       \* [Item -> Addr], addresses may repeat in the list
    BucketOf,     \* [Addr -> Bucket]
    Prefix,       \* [Storer -> Bucket]
    Members,      \* [Bucket -> Seq(Storer)], select_storers' ranking
    Rate,         \* [Storer -> Nat], effective service rate x10
    Window,       \* opts.connections
    Pipeline,     \* retrievals in flight per connection
    NearEmpty,    \* 30 in the code: too little work for help or recycling
    MaxRecycles,  \* 3 in the code
    MaxSweeps,    \* 3 in the code
    FbMax,        \* 8 in the code: concurrent fallback retrievals
    DirectOnly, StallExit,  \* switches of ScheduleOptions
    MeasureLambda,          \* measure_lambda, and not prepay
    WarmPool,     \* whether the caller passed a pool to park connections in
    Warm,         \* storers with a parked connection of an earlier fetch
    LambdaKnown,  \* storers whose validation latency is already on file
    Resumable,    \* addresses an earlier run may have left in the store
    PutMayFail    \* whether ChunkStore::put can return an I/O error

ASSUME ChunkAssumption ==
    /\ AddrOf \in [Item -> Addr] /\ IsFiniteSet(Item)
    /\ BucketOf \in [Addr -> Bucket]
    /\ Resumable \subseteq Addr
    /\ DirectOnly \in BOOLEAN /\ MeasureLambda \in BOOLEAN
    /\ StallExit \in BOOLEAN /\ PutMayFail \in BOOLEAN

ASSUME StorerAssumption ==
    /\ Prefix \in [Storer -> Bucket]
    /\ Members \in [Bucket -> Seq(Storer)]
    /\ \A b \in Bucket : \A k \in DOMAIN Members[b] : Prefix[Members[b][k]] = b
    /\ \A b \in Bucket : \A k, l \in DOMAIN Members[b] :
          Members[b][k] = Members[b][l] => k = l
    /\ Rate \in [Storer -> Nat]
    /\ IsFiniteSet(Storer)
    /\ LambdaKnown \subseteq Storer /\ Warm \subseteq Storer
    /\ WarmPool \in BOOLEAN /\ (Warm # {} => WarmPool)

ASSUME BoundAssumption ==
    /\ Window \in Nat \ {0} /\ Pipeline \in Nat \ {0}
    /\ NearEmpty \in Nat \ {0} /\ MaxRecycles \in Nat
    /\ MaxSweeps \in Nat \ {0} /\ FbMax \in Nat \ {0}

VARIABLES
    phase,       \* of fetch_scheduled: start, refill, join, tail, done
    outcome,     \* none until it returns, then ok or err
    needed,      \* items not in the store when the fetch began
    stored,      \* the chunk store's index
    pool,        \* items in the shared buckets
    dropped,     \* items counted in chunks_dropped_uncovered
    windDown,    \* the flag the stall detector raises
    residual,    \* whether any joined connection returned a residual
    opened       \* whether any connection was established

VARIABLES
    cands,       \* Dispatch: unused members per bucket, best first
    used,        \* Dispatch: members already dialed
    recycles,    \* Dispatch: recycling rounds taken
    activeN,     \* Dispatch: connections running per bucket
    activeRate   \* Dispatch: the sum of their rates

VARIABLES
    fbq,         \* items in the fallback channel
    fbTasks,     \* items the fallback worker is retrieving
    failed,      \* items named in the worker's error list
    directOk,    \* the direct_ok counter
    fbCount      \* the fallback counter

VARIABLES
    pc,          \* where each storer's actor is
    alive,       \* storers whose connection is up
    parked,      \* storers whose connection sits in the warm pool
    pending,     \* the chunk refused admission, as a set of at most one
    flight,      \* items whose retrieval has not returned
    tasks,       \* items in the task JoinSet, not yet reaped
    halted,      \* drive's snapshot of spend_stop || wind_down, as a set
    spendStop, drained, finishing,   \* drive's flags, as sets of storers
    sweeps,      \* drive's sweep_attempts
    owes,        \* storers whose mirror shows debt above the prepayment
    known,       \* storers whose latency is on file (peer state)
    lost         \* history: items popped and put in no container at all

runVars  == <<phase, outcome, needed, dropped, windDown, residual, opened>>
dispVars == <<cands, used, recycles, activeN, activeRate>>
fbVars   == <<fbq, fbTasks, failed, fbCount>>
loopVars == <<halted, spendStop, drained, finishing, sweeps>>
connVars == <<pc, alive, parked, pending, flight, tasks, owes, known, loopVars>>
vars == <<runVars, dispVars, fbVars, connVars, stored, pool, directOk, lost>>

-----------------------------------------------------------------------------
(* The shared pool and the dispatcher.                                     *)

InBucket(b) == {i \in pool : BucketOf[AddrOf[i]] = b}
Remaining(b) == Cardinality(InBucket(b))

Covered == {b \in Bucket : Members[b] # <<>>}

\* Mutant: recycling forgets that a member may still be running.
RefillableWhileActive == {b \in Bucket : /\ used[b] # <<>>
                                         /\ cands[b] = <<>>
                                         /\ Remaining(b) >= NearEmpty
                                         /\ recycles[b] < MaxRecycles}

\* Buckets whose members are all used up, that hold enough work and have
\* nobody at it: their members are tried again, MaxRecycles times.
Refillable == {b \in Bucket : /\ used[b] # <<>>
                              /\ cands[b] = <<>>
                              /\ activeN[b] = 0
                              /\ Remaining(b) >= NearEmpty
                              /\ recycles[b] < MaxRecycles}

CandsNow == [b \in Bucket |-> IF b \in Refillable THEN used[b] ELSE cands[b]]
UsedNow  == [b \in Bucket |-> IF b \in Refillable THEN <<>> ELSE used[b]]

Eligible == {b \in Bucket : /\ CandsNow[b] # <<>>
                            /\ Remaining(b) > 0
                            /\ ~(Remaining(b) < NearEmpty /\ activeN[b] > 0)}

Unserved == 1000000000

\* Remaining work over the active rate; a bucket nobody serves comes first.
Criticality(b) == IF activeRate[b] = 0
                  THEN Unserved + Remaining(b)
                  ELSE (Remaining(b) * 10000) \div activeRate[b]

AtLeastOne(n) == IF n = 0 THEN 1 ELSE n
Monus(a, b) == IF a > b THEN a - b ELSE 0

Inflight == {s \in Storer : pc[s] # "idle"}

-----------------------------------------------------------------------------
Init ==
    /\ phase = "start" /\ outcome = "none"
    /\ stored \in SUBSET Resumable
    /\ needed = {} /\ pool = {} /\ dropped = {} /\ lost = {}
    /\ windDown = FALSE /\ residual = FALSE /\ opened = FALSE
    /\ cands = Members
    /\ used = [b \in Bucket |-> <<>>]
    /\ recycles = [b \in Bucket |-> 0]
    /\ activeN = [b \in Bucket |-> 0]
    /\ activeRate = [b \in Bucket |-> 0]
    /\ fbq = {} /\ fbTasks = {} /\ failed = {}
    /\ directOk = 0 /\ fbCount = 0
    /\ pc = [s \in Storer |-> "idle"]
    /\ parked = Warm
    /\ alive = Warm
    /\ pending = [s \in Storer |-> {}]
    /\ flight = [s \in Storer |-> {}]
    /\ tasks = [s \in Storer |-> {}]
    /\ halted = {}
    /\ spendStop = {}
    /\ drained = {}
    /\ finishing = {}
    /\ sweeps = [s \in Storer |-> 0]
    /\ owes = {}
    /\ known = LambdaKnown

-----------------------------------------------------------------------------
(* fetch_scheduled: setup, the rolling admission loop, the tail.           *)

Needed == {i \in Item : AddrOf[i] \notin stored}

\* The buckets select_storers returns members for.
Selected(S) == {b \in Covered : \E i \in S : BucketOf[AddrOf[i]] = b}

\* Everything was in the store already: an empty report.
NothingNeeded ==
    /\ phase = "start"
    /\ Needed = {}
    /\ phase' = "done" /\ outcome' = "ok"
    /\ UNCHANGED <<needed, dropped, windDown, residual, opened, dispVars,
                   fbVars, connVars, stored, pool, directOk, lost>>

\* The store, the chain read or the HTTP client failed, or nothing is
\* covered in direct-only mode.
SetupError ==
    /\ phase = "start"
    /\ phase' = "done" /\ outcome' = "err"
    /\ UNCHANGED <<needed, dropped, windDown, residual, opened, dispVars,
                   fbVars, connVars, stored, pool, directOk, lost>>

\* Covered chunks go to their bucket, the others to the fallback, or are
\* dropped in direct-only mode.
Route ==
    /\ phase = "start"
    /\ Needed # {}
    /\ ~(Selected(Needed) = {} /\ DirectOnly)
    /\ LET uncovered == {i \in Needed : BucketOf[AddrOf[i]] \notin Covered}
       IN /\ needed' = Needed
          /\ pool' = Needed \ uncovered
          /\ dropped' = IF DirectOnly THEN uncovered ELSE {}
          /\ fbq' = IF DirectOnly THEN {} ELSE uncovered
    /\ phase' = "refill"
    /\ UNCHANGED <<outcome, windDown, residual, opened, dispVars, fbTasks,
                   failed, fbCount, connVars, stored, directOk, lost>>

CanDispatch == /\ Cardinality(Inflight) < Window
               /\ ~windDown
               /\ Eligible # {}

\* A connection starts with a fresh mirror; an unknown peer is measured
\* first.
Enter(s) ==
    /\ pc' = [pc EXCEPT ![s] = IF MeasureLambda /\ s \notin known
                               THEN "measure" ELSE "top"]
    /\ owes' = owes \ {s}
    /\ opened' = TRUE

\* The best member of a most critical bucket gets the free slot; a live
\* parked connection needs no dial.
Dispatch(b) ==
    /\ phase = "refill"
    /\ CanDispatch
    /\ b \in Eligible
    /\ \A c \in Eligible : Criticality(c) <= Criticality(b)
    /\ LET s == Head(CandsNow[b])
       IN /\ cands' = [CandsNow EXCEPT ![b] = Tail(@)]
          /\ used' = [UsedNow EXCEPT ![b] = Append(@, s)]
          /\ recycles' = [c \in Bucket |-> IF c \in Refillable THEN recycles[c] + 1
                                                              ELSE recycles[c]]
          /\ activeN' = [activeN EXCEPT ![b] = @ + 1]
          /\ activeRate' = [activeRate EXCEPT ![b] = @ + AtLeastOne(Rate[s])]
          /\ parked' = parked \ {s}
          /\ \/ /\ s \in parked \cap alive
                /\ Enter(s)
             \/ /\ s \notin parked \cap alive
                /\ pc' = [pc EXCEPT ![s] = "setup"]
                /\ UNCHANGED <<owes, opened>>
    /\ UNCHANGED <<phase, outcome, needed, dropped, windDown, residual, fbVars,
                   alive, pending, flight, tasks, known, loopVars, stored,
                   pool, directOk, lost>>

\* No slot, no candidate or winding down: wait for a connection to return.
StopDispatch ==
    /\ phase = "refill"
    /\ ~CanDispatch
    /\ phase' = "join"
    /\ UNCHANGED <<outcome, needed, dropped, windDown, residual, opened,
                   dispVars, fbVars, connVars, stored, pool, directOk, lost>>

\* Mutant: a connection whose peer is gone returns 0.
ResidualIfAlive(s) == s \in owes /\ s \in alive

\* What the actor returns, as a flag: debt above the prepayment.
Residual(s) == s \in owes

\* join_next yields a finished actor: its residual is added and Dispatch is
\* told.
Join(s) ==
    /\ phase = "join"
    /\ pc[s] = "returned"
    /\ pc' = [pc EXCEPT ![s] = "idle"]
    /\ residual' = (residual \/ Residual(s))
    /\ activeN' = [activeN EXCEPT ![Prefix[s]] = Monus(@, 1)]
    /\ activeRate' = [activeRate EXCEPT ![Prefix[s]] = Monus(@, AtLeastOne(Rate[s]))]
    /\ phase' = "refill"
    /\ UNCHANGED <<outcome, needed, dropped, windDown, opened, cands, used,
                   recycles, fbVars, alive, parked, pending, flight, tasks,
                   owes, known, loopVars, stored, pool, directOk, lost>>

\* The JoinSet is empty: what is left in the buckets is stranded and goes to
\* the fallback (or is dropped), and the channel is closed.
DrainAll ==
    /\ phase = "join"
    /\ Inflight = {}
    /\ pool' = {}
    /\ IF DirectOnly
       THEN dropped' = dropped \cup pool /\ UNCHANGED fbq
       ELSE fbq' = fbq \cup pool /\ UNCHANGED dropped
    /\ phase' = "tail"
    /\ UNCHANGED <<outcome, needed, windDown, residual, opened, dispVars,
                   fbTasks, failed, fbCount, connVars, stored, directOk, lost>>

\* Mutant: the worker is taken to be done once its channel is empty.
ChannelEmpty == fbq = {}

\* The channel is closed and empty and the last retrieval was joined.
FallbackIdle == fbq = {} /\ fbTasks = {}

\* The fallback worker has drained its channel; flush and report.  A failed
\* store flush, or no connection although storers were selected, is an error.
Finish ==
    /\ phase = "tail"
    /\ FallbackIdle
    /\ phase' = "done"
    /\ \/ outcome' = "err"
       \/ /\ opened \/ Selected(needed) = {}
          /\ outcome' = "ok"
    /\ UNCHANGED <<needed, dropped, windDown, residual, opened, dispVars,
                   fbVars, connVars, stored, pool, directOk, lost>>

\* The sampler saw a trickle.
WindDown ==
    /\ StallExit
    /\ phase \in {"refill", "join"}
    /\ ~windDown
    /\ windDown' = TRUE
    /\ UNCHANGED <<phase, outcome, needed, dropped, residual, opened, dispVars,
                   fbVars, connVars, stored, pool, directOk, lost>>

-----------------------------------------------------------------------------
(* The fallback worker.                                                    *)

\* A failed put is discarded by `let _ =`, so the chunk is counted but absent.
Put(i) == \/ /\ stored' = stored \cup {AddrOf[i]}
             /\ UNCHANGED lost
          \/ /\ PutMayFail
             /\ AddrOf[i] \notin stored
             /\ lost' = lost \cup {i}
             /\ UNCHANGED stored

FbRecv(i) ==
    /\ i \in fbq
    /\ Cardinality(fbTasks) < FbMax
    /\ fbq' = fbq \ {i}
    /\ fbTasks' = IF AddrOf[i] \in stored THEN fbTasks ELSE fbTasks \cup {i}
    /\ UNCHANGED <<runVars, dispVars, connVars, failed, fbCount, stored, pool,
                   directOk, lost>>

FbOk(i) ==
    /\ i \in fbTasks
    /\ Put(i)
    /\ fbTasks' = fbTasks \ {i}
    /\ fbCount' = fbCount + 1
    /\ UNCHANGED <<runVars, dispVars, connVars, fbq, failed, pool, directOk>>

FbErr(i) ==
    /\ i \in fbTasks
    /\ fbTasks' = fbTasks \ {i}
    /\ failed' = failed \cup {i}
    /\ UNCHANGED <<runVars, dispVars, connVars, fbq, fbCount, stored, pool,
                   directOk, lost>>

-----------------------------------------------------------------------------
(* One connection.                                                         *)

\* Dial, handshake or overlay check failed: the actor returns 0 at once.
SetupFail(s) ==
    /\ pc[s] = "setup"
    /\ pc' = [pc EXCEPT ![s] = "returned"]
    /\ alive' = alive \ {s}
    /\ owes' = owes \ {s}
    /\ UNCHANGED <<runVars, dispVars, fbVars, parked, pending, flight, tasks,
                   known, loopVars, stored, pool, directOk, lost>>

SetupOk(s) ==
    /\ pc[s] = "setup"
    /\ Enter(s)
    /\ alive' = alive \cup {s}
    /\ UNCHANGED <<phase, outcome, needed, dropped, windDown, residual,
                   dispVars, fbVars, parked, pending, flight, tasks, known,
                   loopVars, stored, pool, directOk, lost>>

\* The swarm task sees ConnectionClosed, at any time.
HangUp(s) ==
    /\ phase # "done"
    /\ s \in alive
    /\ alive' = alive \ {s}
    /\ UNCHANGED <<runVars, dispVars, fbVars, pc, parked, pending, flight,
                   tasks, owes, known, loopVars, stored, pool, directOk, lost>>

\* Mutant: a failed retrieval is not handed to the fallback.
NotQueued(i) == fbq

\* fallback.send
Queued(i) == fbq \cup {i}

Goto(s, where) == pc' = [pc EXCEPT ![s] = where]

\* measure_lambda pops one chunk; a stored one is skipped, a reservation
\* refused ends the loop with the chunk in nobody's hands.
MeasurePop(s, i) ==
    /\ pc[s] = "measure"
    /\ s \in alive
    /\ i \in InBucket(Prefix[s])
    /\ pool' = pool \ {i}
    /\ \/ /\ AddrOf[i] \in stored
          /\ UNCHANGED <<pc, flight, lost>>
       \/ /\ AddrOf[i] \notin stored
          /\ Goto(s, "probe")
          /\ flight' = [flight EXCEPT ![s] = {i}]
          /\ UNCHANGED lost
       \/ /\ AddrOf[i] \notin stored
          /\ Goto(s, "sweep")
          /\ lost' = lost \cup {i}
          /\ UNCHANGED flight
    /\ UNCHANGED <<runVars, dispVars, fbVars, alive, parked, pending, tasks,
                   owes, known, loopVars, stored, directOk>>

\* Deadline, target debt, empty bucket or a dead connection.
MeasureEnd(s) ==
    /\ pc[s] = "measure"
    /\ Goto(s, "sweep")
    /\ UNCHANGED <<runVars, dispVars, fbVars, alive, parked, pending, flight,
                   tasks, owes, known, loopVars, stored, pool, directOk, lost>>

MeasureOk(s, i) ==
    /\ pc[s] = "probe"
    /\ i \in flight[s]
    /\ Goto(s, "measure")
    /\ flight' = [flight EXCEPT ![s] = {}]
    /\ owes' = owes \cup {s}
    /\ Put(i)
    /\ directOk' = directOk + 1
    /\ UNCHANGED <<runVars, dispVars, fbVars, alive, parked, pending, tasks,
                   known, loopVars, pool>>

MeasureErr(s, i) ==
    /\ pc[s] = "probe"
    /\ i \in flight[s]
    /\ Goto(s, "sweep")
    /\ flight' = [flight EXCEPT ![s] = {}]
    /\ fbq' = Queued(i)
    /\ UNCHANGED <<runVars, dispVars, fbTasks, failed, fbCount, alive, parked,
                   pending, tasks, owes, known, loopVars, stored, pool,
                   directOk, lost>>

\* Too little debt or a failed cheque measures nothing; otherwise the cheque
\* clears the debt and the probes yield a latency, which is kept on file.
MeasureSweep(s) ==
    /\ pc[s] = "sweep"
    /\ Goto(s, "top")
    /\ \/ UNCHANGED <<owes, known>>
       \/ /\ s \in owes
          /\ owes' = owes \ {s}
          /\ known' = known \cup {s}
    /\ UNCHANGED <<runVars, dispVars, fbVars, alive, parked, pending, flight,
                   tasks, loopVars, stored, pool, directOk, lost>>

\* while tasks.join_next().await.is_some() {}
TasksJoined(s) == flight[s] = {}

\* pending.take()
Leftover(s) == pending[s]

\* drive, top of the loop, peer gone: once the tasks have failed over, the
\* pending chunk goes to the fallback and the actor returns its debt.
TopDead(s) ==
    /\ pc[s] = "top"
    /\ s \notin alive
    /\ TasksJoined(s)
    /\ Goto(s, "closing")
    /\ fbq' = fbq \cup Leftover(s)
    /\ pending' = [pending EXCEPT ![s] = {}]
    /\ tasks' = [tasks EXCEPT ![s] = {}]
    /\ UNCHANGED <<runVars, dispVars, fbTasks, failed, fbCount, alive, parked,
                   flight, owes, known, loopVars, stored, pool, directOk, lost>>

\* drive, top of the loop, peer there: the spend projection may stop this
\* connection for good; halted is sampled once per turn of the loop.
TopLive(s) ==
    /\ pc[s] = "top"
    /\ s \in alive
    /\ spendStop' \in {spendStop, spendStop \cup {s}}
    /\ \/ /\ s \in spendStop' \/ windDown
          /\ halted' = halted \cup {s}
          /\ fbq' = fbq \cup Leftover(s)
          /\ pending' = [pending EXCEPT ![s] = {}]
       \/ /\ ~(s \in spendStop' \/ windDown)
          /\ halted' = halted \ {s}
          /\ UNCHANGED <<fbq, pending>>
    /\ Goto(s, "admit")
    /\ UNCHANGED <<runVars, dispVars, fbTasks, failed, fbCount, alive, parked,
                   flight, tasks, owes, known, drained, finishing, sweeps,
                   stored, pool, directOk, lost>>

\* After the admission loop, finished tasks are reaped.
Reap(s) == /\ Goto(s, "settle")
           /\ tasks' = [tasks EXCEPT ![s] = flight[s]]

MayAdmit(s) == /\ pc[s] = "admit"
               /\ s \notin finishing /\ s \notin halted
               /\ Cardinality(tasks[s]) < Pipeline

AdmitStop(s) ==
    /\ pc[s] = "admit"
    /\ ~MayAdmit(s)
    /\ Reap(s)
    /\ UNCHANGED <<runVars, dispVars, fbVars, alive, parked, pending, flight,
                   owes, known, loopVars, stored, pool, directOk, lost>>

\* Mutant: a bucket with little left counts as drained.
NearlyOutOfWork(s) == pending[s] = {} /\ Remaining(Prefix[s]) < NearEmpty

\* Neither a pending chunk nor one in the bucket.
OutOfWork(s) == pending[s] = {} /\ InBucket(Prefix[s]) = {}

AdmitNone(s) ==
    /\ MayAdmit(s)
    /\ OutOfWork(s)
    /\ drained' = drained \cup {s}
    /\ Reap(s)
    /\ UNCHANGED <<runVars, dispVars, fbVars, alive, parked, pending, flight,
                   owes, known, halted, spendStop, finishing, sweeps, stored,
                   pool, directOk, lost>>

\* Mutant: the bucket is read, not popped.
Peeked(s, i) == /\ MayAdmit(s)
                /\ IF pending[s] # {} THEN i \in pending[s]
                                      ELSE i \in InBucket(Prefix[s])
                /\ UNCHANGED pool

\* The chunk to admit: the pending one first, else one from the bucket.
Popped(s, i) == /\ MayAdmit(s)
                /\ IF pending[s] # {} THEN i \in pending[s]
                                      ELSE i \in InBucket(Prefix[s])
                /\ pool' = pool \ {i}

AdmitSkip(s, i) ==
    /\ Popped(s, i)
    /\ AddrOf[i] \in stored
    /\ pending' = [pending EXCEPT ![s] = {}]
    /\ UNCHANGED <<runVars, dispVars, fbVars, pc, alive, parked, flight, tasks,
                   owes, known, loopVars, stored, directOk, lost>>

AdmitRefused(s, i) ==
    /\ Popped(s, i)
    /\ AddrOf[i] \notin stored
    /\ pending' = [pending EXCEPT ![s] = {i}]
    /\ Reap(s)
    /\ UNCHANGED <<runVars, dispVars, fbVars, alive, parked, flight, owes,
                   known, loopVars, stored, directOk, lost>>

AdmitSpawn(s, i) ==
    /\ Popped(s, i)
    /\ AddrOf[i] \notin stored
    /\ pending' = [pending EXCEPT ![s] = {}]
    /\ flight' = [flight EXCEPT ![s] = @ \cup {i}]
    /\ tasks' = [tasks EXCEPT ![s] = @ \cup {i}]
    /\ UNCHANGED <<runVars, dispVars, fbVars, pc, alive, parked, owes, known,
                   loopVars, stored, directOk, lost>>

\* A retrieval task ends, at any time while its connection is in drive; its
\* price is debt, unless the prepayment covers it.
TaskOk(s, i) ==
    /\ pc[s] # "probe"
    /\ i \in flight[s]
    /\ flight' = [flight EXCEPT ![s] = @ \ {i}]
    /\ owes' \in {owes, owes \cup {s}}
    /\ Put(i)
    /\ directOk' = directOk + 1
    /\ UNCHANGED <<runVars, dispVars, fbVars, pc, alive, parked, pending,
                   tasks, known, loopVars, pool>>

TaskErr(s, i) ==
    /\ pc[s] # "probe"
    /\ i \in flight[s]
    /\ flight' = [flight EXCEPT ![s] = @ \ {i}]
    /\ fbq' = Queued(i)
    /\ UNCHANGED <<runVars, dispVars, fbTasks, failed, fbCount, pc, alive,
                   parked, pending, tasks, owes, known, loopVars, stored, pool,
                   directOk, lost>>

\* Mutant: only an empty bucket ends the work.
BucketOver(s) == s \in drained

WorkOver(s) == s \in drained \/ s \in halted

\* The end of a turn: nothing pending, no task, and either the bucket is
\* empty or the connection is halted starts the final sweep; a finishing
\* connection without debt is done.
EndOfTurn(s) ==
    LET fin == \/ s \in finishing
               \/ pending[s] = {} /\ tasks[s] = {} /\ WorkOver(s)
    IN /\ finishing' = IF fin THEN finishing \cup {s} ELSE finishing
       /\ Goto(s, IF fin /\ tasks[s] = {} /\ s \notin owes' THEN "closing" ELSE "top")

\* Refresh and cheque policy: the debt is cleared, or is not (nothing due,
\* part of it, an emit that failed while fetching).
Settle(s) ==
    /\ pc[s] = "settle"
    /\ \/ UNCHANGED owes
       \/ s \in owes /\ owes' = owes \ {s}
    /\ EndOfTurn(s)
    /\ UNCHANGED <<runVars, dispVars, fbVars, alive, parked, pending, flight,
                   tasks, known, halted, spendStop, drained, sweeps, stored,
                   pool, directOk, lost>>

GivesUp(s) == sweeps[s] + 1 >= MaxSweeps

\* A cheque of the final sweep fails; the last attempt gives up.
SweepFail(s) ==
    /\ pc[s] = "settle"
    /\ s \in finishing /\ s \in owes
    /\ sweeps' = [sweeps EXCEPT ![s] = @ + 1]
    /\ Goto(s, IF GivesUp(s) THEN "closing" ELSE "top")
    /\ UNCHANGED <<runVars, dispVars, fbVars, alive, parked, pending, flight,
                   tasks, owes, known, halted, spendStop, drained, finishing,
                   stored, pool, directOk, lost>>

\* While finishing, a cheque is due every CHEQUE_MIN_INTERVAL: it clears the
\* debt or fails.
Sweep(s) == s \in finishing /\ (SweepFail(s) \/ (Settle(s) /\ owes' # owes))

\* Mutant: a live connection is parked whatever it owes.
ParkableAlive(s) == WarmPool /\ s \in alive

Parkable(s) == WarmPool /\ s \notin owes /\ s \in alive

\* run_established after drive: a settled live connection is parked, any
\* other is closed; drive's local flags are gone.
Close(s) ==
    /\ pc[s] = "closing"
    /\ Goto(s, "returned")
    /\ halted' = halted \ {s}
    /\ spendStop' = spendStop \ {s}
    /\ drained' = drained \ {s}
    /\ finishing' = finishing \ {s}
    /\ sweeps' = [sweeps EXCEPT ![s] = 0]
    /\ IF Parkable(s)
       THEN parked' = parked \cup {s} /\ UNCHANGED alive
       ELSE alive' = alive \ {s} /\ UNCHANGED parked
    /\ UNCHANGED <<runVars, dispVars, fbVars, pending, flight, tasks, owes,
                   known, stored, pool, directOk, lost>>

-----------------------------------------------------------------------------
Main == \/ NothingNeeded \/ SetupError \/ Route
        \/ \E b \in Bucket : Dispatch(b)
        \/ StopDispatch
        \/ \E s \in Storer : Join(s)
        \/ DrainAll \/ Finish

Fallback == \E i \in Item : FbRecv(i) \/ FbOk(i) \/ FbErr(i)

Setup(s) == SetupFail(s) \/ SetupOk(s)

Measure(s) == \/ \E i \in Item : MeasurePop(s, i) \/ MeasureOk(s, i) \/ MeasureErr(s, i)
              \/ MeasureEnd(s)
              \/ MeasureSweep(s)

Drive(s) == \/ TopDead(s) \/ TopLive(s)
            \/ AdmitStop(s) \/ AdmitNone(s)
            \/ \E i \in Item : AdmitSkip(s, i) \/ AdmitRefused(s, i) \/ AdmitSpawn(s, i)
            \/ Settle(s) \/ SweepFail(s)
            \/ Close(s)

Tasks(s) == \E i \in Item : TaskOk(s, i) \/ TaskErr(s, i)

Done == phase = "done" /\ UNCHANGED vars

Next == \/ Main
        \/ WindDown
        \/ Fallback
        \/ \E s \in Storer : Setup(s) \/ Measure(s) \/ Drive(s) \/ Tasks(s) \/ HangUp(s)
        \/ Done

Spec == Init /\ [][Next]_vars

(* The runtime runs every ready task; a retrieval, a dial and a stream to  *)
(* a peer end one way or the other; a cheque that is due when finishing is *)
(* sent or fails; with the stall detector on, a run of finitely many       *)
(* chunks cannot make progress for ever, so it trips.                      *)
Fairness ==
    /\ WF_vars(Main)
    /\ WF_vars(WindDown)
    /\ WF_vars(Fallback)
    /\ \A s \in Storer : /\ WF_vars(Setup(s))
                         /\ WF_vars(Measure(s))
                         /\ WF_vars(Drive(s))
                         /\ WF_vars(Tasks(s))
                         /\ SF_vars(Sweep(s))

FairSpec == Spec /\ Fairness

-----------------------------------------------------------------------------
(* Properties.                                                             *)

Where == {"idle", "setup", "measure", "probe", "sweep", "top", "admit",
          "settle", "closing", "returned"}

RunType ==
    /\ phase \in {"start", "refill", "join", "tail", "done"}
    /\ outcome \in {"none", "ok", "err"}
    /\ needed \subseteq Item /\ dropped \subseteq Item
    /\ windDown \in BOOLEAN /\ residual \in BOOLEAN /\ opened \in BOOLEAN

DispType ==
    /\ cands \in [Bucket -> Seq(Storer)] /\ used \in [Bucket -> Seq(Storer)]
    /\ recycles \in [Bucket -> 0..MaxRecycles]
    /\ activeN \in [Bucket -> Nat] /\ activeRate \in [Bucket -> Nat]

ChunkType ==
    /\ stored \subseteq Addr
    /\ pool \subseteq Item /\ lost \subseteq Item
    /\ fbq \subseteq Item /\ fbTasks \subseteq Item /\ failed \subseteq Item
    /\ directOk \in Nat /\ fbCount \in Nat

HandType ==
    /\ pc \in [Storer -> Where]
    /\ pending \in [Storer -> SUBSET Item]
    /\ flight \in [Storer -> SUBSET Item]
    /\ tasks \in [Storer -> SUBSET Item]

FlagType ==
    /\ alive \subseteq Storer /\ owes \subseteq Storer
    /\ parked \subseteq Storer /\ known \subseteq Storer
    /\ halted \subseteq Storer /\ spendStop \subseteq Storer
    /\ drained \subseteq Storer /\ finishing \subseteq Storer
    /\ sweeps \in [Storer -> Nat]

\* Every variable has the type the code's fields have; in particular no
\* counter of the dispatcher underflows and no bucket is recycled more than
\* MaxRecycles times.
TypeOK == RunType /\ DispType /\ ChunkType /\ HandType /\ FlagType

\* No chunk is in two hands: buckets, pending slots, running retrievals of
\* all connections, the fallback channel, its tasks and the terminal sets are
\* pairwise disjoint, whatever the interleaving of pops, failures, hang-ups
\* and recycled connections (so no chunk is retrieved, and paid for, twice
\* for one list entry).
OneHand ==
    /\ pool \cap (fbq \cup fbTasks \cup failed \cup dropped \cup lost) = {}
    /\ fbq \cap (fbTasks \cup failed \cup dropped \cup lost) = {}
    /\ fbTasks \cap (failed \cup dropped \cup lost) = {}
    /\ \A s \in Storer :
          /\ pending[s] \cap flight[s] = {}
          /\ (pending[s] \cup flight[s]) \cap
                 (pool \cup fbq \cup fbTasks \cup failed \cup dropped \cup lost) = {}
          /\ \A r \in Storer \ {s} :
                (pending[s] \cup flight[s]) \cap (pending[r] \cup flight[r]) = {}

Missing == {i \in needed : AddrOf[i] \notin stored}

\* The items some container, task or report still speaks for.
InHands == pool \cup fbq \cup fbTasks \cup failed \cup dropped
           \cup UNION {pending[s] \cup flight[s] : s \in Storer}

\* At every moment each needed chunk is stored, in somebody's hands, or one
\* of those the code lets go of: popped by a latency measurement whose
\* reservation was refused, or served and then lost by a failed put.
AccountedFor ==
    \A i \in needed : AddrOf[i] \in stored \/ i \in InHands \cup lost

\* Every needed chunk is accounted for when the fetch returns normally: in
\* the store, named in the error list, or counted as dropped.
NoChunkLost ==
    (phase = "done" /\ outcome = "ok") => Missing \subseteq (failed \cup dropped)

\* Mutant: reported errors are subtracted as if they had been delivered.
ChunksFailedLessErrors ==
    Monus(Monus(Cardinality(needed), directOk + fbCount),
          Cardinality(dropped) + Cardinality(failed))

\* The computation of report.chunks_failed.
ChunksFailed == Monus(Monus(Cardinality(needed), directOk + fbCount),
                      Cardinality(dropped))

\* The report never understates: chunks_failed is at least the number of
\* needed chunks that are in neither the store nor the dropped count.
FailedNotUnderstated ==
    phase = "done" => ChunksFailed >= Cardinality(Missing \ dropped)

\* The dispatcher's books match the actors: per bucket, active_n counts the
\* connections spawned and not yet joined, and no candidate it could hand
\* out is already running, recycling included.
DispatchConsistent ==
    /\ \A b \in Bucket :
          activeN[b] = Cardinality({s \in Inflight : Prefix[s] = b})
    /\ \A b \in Bucket : \A k \in DOMAIN cands[b] : pc[cands[b][k]] = "idle"

\* "Buckets only ever drain; emptiness is final": a connection that saw its
\* bucket empty, and finishes on the strength of it, is never wrong later.
DrainedIsFinal ==
    \A s \in drained : InBucket(Prefix[s]) = {}

\* A connection that is closing or gone has nothing in its hands: no
\* retrieval outlives it, so its debt cannot grow after it was reported.
NothingOutlives ==
    \A s \in Storer : pc[s] \in {"closing", "returned", "idle", "setup"} =>
                         flight[s] = {} /\ pending[s] = {}

\* Debt is never silently left behind: a fetch that reports no residual
\* leaves no connection with unpaid debt.
NoSilentDebt ==
    (phase \in {"tail", "done"} /\ ~residual) => owes = {}

\* A parked connection is settled and has no work: the next fetch may take
\* it over with a fresh mirror.
ParkedSettled ==
    \A s \in parked : s \notin owes /\ flight[s] = {} /\ pending[s] = {}

\* With the stall detector on, every fetch returns.
Terminates == <>(phase = "done")

CD == INSTANCE ChunkDelivery WITH givenUp <- failed \cup dropped

\* The scheduler implements the delivery contract.
Delivery == CD!Spec
=============================================================================
