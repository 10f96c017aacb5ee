---------------------------- MODULE ChequeEmission ----------------------------
(***************************************************************************)
(* Money of one fetch: several storer connections build up debt, project   *)
(* the spend cap at the fetch gate and pay with cheques                    *)
(* (ds-net/src/schedule.rs drive, emit, emit_prepay, refresh; direct.rs    *)
(* emit_settlement_cheque).  They share the counter issued_plur, the cap,  *)
(* the cached issuable amount and the cheque ledger.  Every chunk costs    *)
(* one unit; a peer quotes <<rate, deduction>> in the headers of each swap *)
(* stream, and a cheque of n units moves n * rate + deduction PLUR.        *)
(***************************************************************************)
EXTENDS Integers, FiniteSets

CONSTANTS
    Conn,         \* connections
    Ben,          \* beneficiaries (the peers' Ethereum addresses)
    BenOf,        \* [Conn -> Ben]; one operator may run several storers
    Work,         \* chunks to fetch
    Pipeline,     \* retrievals in flight per connection
    Quotes,       \* <<rate, deduction>> pairs a peer may announce
    DefaultRate,  \* 100 000 in the code: the rate before the first cheque
    Trigger,      \* a fifth of the payment threshold
    Cap,          \* opts.max_issue_plur
    StopPercent,  \* 92 in the code: where the projection stops fetching
    Issuable,     \* balance + totalPaidOut of the chequebook, read once
    Wrap,         \* 2^64 in the code: issued_plur is an AtomicU64
    Prepay,       \* opts.prepay
    Slice,        \* 250 chunks in the code: one prepayment
    Slack,        \* 10 chunks in the code: no top-up below that
    Parked,       \* [Conn -> Nat], surplus the peers hold from earlier fetches
    Surplus,      \* 25 chunks in the code: enough surplus to start with
    MaxSweeps,    \* 3 in the code
    MaxFails      \* bound on the number of failing swap streams

ASSUME EmissionAssumption ==
    /\ BenOf \in [Conn -> Ben]
    /\ IsFiniteSet(Conn) /\ IsFiniteSet(Ben)
    /\ Work \in Nat /\ Pipeline \in Nat \ {0}
    /\ Quotes \subseteq (Nat \X Nat)
    /\ DefaultRate \in Nat /\ Trigger \in Nat
    /\ Cap \in Nat /\ StopPercent \in 0..100 /\ Issuable \in Nat
    /\ Wrap \in Nat \ {0} /\ Cap < Wrap
    /\ Prepay \in BOOLEAN
    /\ Slice \in Nat \ {0} /\ Slack \in Nat /\ Surplus \in Nat
    /\ Parked \in [Conn -> Nat]
    /\ MaxSweeps \in Nat \ {0} /\ MaxFails \in Nat

VARIABLES
    work,        \* chunks left in the shared pool
    issued,      \* issued_plur
    cum,         \* the ledger: recorded cumulative per beneficiary
    held,        \* highest cumulative each beneficiary was sent
    wind,        \* wind_down
    fails,       \* counter of the bound
    pc,          \* where each connection is
    debt, reserved,        \* its Mirror
    tasks,       \* its retrieval tasks, running or not yet reaped
    prepaid, rate,         \* its Pacer
    spendStop, halted, finishing, sweeps,   \* its drive loop
    kind, units, quoted, plur, before, newCum   \* the cheque it is emitting

VARIABLES          \* history
    paid,        \* PLUR of the cheques sent on a stream that did not fail
    stray,       \* PLUR of those a peer has although their stream failed
    ambiguous,   \* beneficiaries of such a stray cheque
    crossed,     \* beneficiaries of a cheque signed while another was sent
    accepted,    \* what each peer's refreshes took off its mirror
    refused      \* connections whose final sweep met the spend guard

mirrorVars == <<debt, reserved, tasks>>
loopVars == <<spendStop, halted, finishing, sweeps>>
quoteVars == <<quoted, plur, before>>
chequeVars == <<kind, units, quoteVars, newCum>>
sharedVars == <<work, cum, held, wind, paid, stray, ambiguous, crossed,
                accepted, refused>>
vars == <<sharedVars, issued, fails, pc, mirrorVars, prepaid, rate, loopVars,
          chequeVars>>

Monus(a, b) == IF a > b THEN a - b ELSE 0
Min2(a, b) == IF a < b THEN a ELSE b

-----------------------------------------------------------------------------
Init ==
    /\ work = Work
    /\ issued = 0 /\ paid = 0 /\ fails = 0
    /\ cum = [b \in Ben |-> 0] /\ held = [b \in Ben |-> 0]
    /\ wind = FALSE /\ ambiguous = {} /\ crossed = {} /\ refused = {}
    /\ stray = 0 /\ accepted = [c \in Conn |-> 0]
    /\ pc = [c \in Conn |-> "start"]
    /\ debt = [c \in Conn |-> 0] /\ reserved = [c \in Conn |-> 0]
    /\ tasks = [c \in Conn |-> 0]
    /\ prepaid = [c \in Conn |-> IF Prepay THEN Parked[c] ELSE 0]
    /\ rate = [c \in Conn |-> DefaultRate]
    /\ spendStop = {} /\ halted = {} /\ finishing = {}
    /\ sweeps = [c \in Conn |-> 0]
    /\ kind = [c \in Conn |-> "none"]
    /\ units = [c \in Conn |-> 0] /\ quoted = [c \in Conn |-> 0]
    /\ plur = [c \in Conn |-> 0]
    /\ before = [c \in Conn |-> 0] /\ newCum = [c \in Conn |-> 0]

Goto(c, where) == pc' = [pc EXCEPT ![c] = where]

\* A cheque of n units is to be emitted.
Begin(c, k, n) ==
    /\ kind' = [kind EXCEPT ![c] = k]
    /\ units' = [units EXCEPT ![c] = n]
    /\ Goto(c, "open")

-----------------------------------------------------------------------------
(* The drive loop.                                                         *)

\* run_established: a prepaying connection starts with one slice, unless
\* enough surplus is left from an earlier fetch.
Start(c) ==
    /\ pc[c] = "start"
    /\ IF Prepay /\ prepaid[c] < Surplus
       THEN Begin(c, "first", Slice)
       ELSE Goto(c, "top") /\ UNCHANGED <<kind, units>>
    /\ UNCHANGED <<sharedVars, issued, fails, mirrorVars, prepaid, rate,
                   loopVars, quoteVars, newCum>>

\* Debt above the prepayment.
Unpaid(c) == Monus(debt[c], prepaid[c])

\* What would be issued if this connection paid all it may come to owe.
Projected(c) == issued + Monus(debt[c] + reserved[c], prepaid[c]) * rate[c]

CapNear(c) == Projected(c) * 100 > Cap * StopPercent

\* Top of the loop: the projection stops this connection for good.
Top(c) ==
    /\ pc[c] = "top"
    /\ spendStop' = IF CapNear(c) THEN spendStop \cup {c} ELSE spendStop
    /\ halted' = IF c \in spendStop' \/ wind THEN halted \cup {c} ELSE halted \ {c}
    /\ Goto(c, "admit")
    /\ UNCHANGED <<sharedVars, issued, fails, mirrorVars, prepaid, rate,
                   finishing, sweeps, chequeVars>>

\* One more retrieval is admitted.
Admit(c) ==
    /\ pc[c] = "admit"
    /\ c \notin finishing \cup halted
    /\ tasks[c] < Pipeline
    /\ work > 0
    /\ work' = work - 1
    /\ reserved' = [reserved EXCEPT ![c] = @ + 1]
    /\ tasks' = [tasks EXCEPT ![c] = @ + 1]
    /\ UNCHANGED <<cum, held, wind, paid, stray, ambiguous, crossed, accepted,
                   refused, issued, fails, pc, debt, prepaid, rate, loopVars,
                   chequeVars>>

\* A retrieval task ends, at any time: served, or failed over.
Served(c) ==
    /\ reserved[c] > 0
    /\ reserved' = [reserved EXCEPT ![c] = @ - 1]
    /\ \/ debt' = [debt EXCEPT ![c] = @ + 1]
       \/ UNCHANGED debt
    /\ UNCHANGED <<sharedVars, issued, fails, pc, tasks, prepaid, rate, loopVars,
                   chequeVars>>

\* The admission loop ends and finished tasks are reaped.
Reap(c) == tasks' = [tasks EXCEPT ![c] = reserved[c]]

\* Refresh on cadence, when something is owed above the prepayment: whatever
\* the peer accepts is credited, debt that is prepaid included; the mirror
\* saturates at what it holds.
Refresh(c) ==
    /\ pc[c] = "admit"
    /\ Unpaid(c) > 0
    /\ \E n \in 1..debt[c] :
          /\ debt' = [debt EXCEPT ![c] = @ - n]
          /\ accepted' = [accepted EXCEPT ![c] = @ + n]
    /\ Reap(c)
    /\ Goto(c, "settle")
    /\ UNCHANGED <<work, cum, held, wind, paid, stray, ambiguous, crossed, refused,
                   issued, fails, reserved, prepaid, rate, loopVars, chequeVars>>

NoRefresh(c) ==
    /\ pc[c] = "admit"
    /\ Reap(c)
    /\ Goto(c, "settle")
    /\ UNCHANGED <<sharedVars, issued, fails, debt, reserved, prepaid, rate,
                   loopVars, chequeVars>>

Prepaying(c) == Prepay /\ c \notin finishing \cup halted

\* Consumed plus the work in sight, at most one slice of it.
Desired(c) == debt[c] + Min2(work + tasks[c], Slice)

\* Mutant: the top-up ignores what is prepaid already.
TopUpWhole(c) == Desired(c)

TopUp(c) == Desired(c) - prepaid[c]

\* Mutant: retrievals in flight are paid for as well.
DueWithReserved(c) == Monus(debt[c] + reserved[c], prepaid[c])

\* A cheque pays all that is owed.
Due(c) == Unpaid(c)

\* The cheque policy; a cheque is due only now and then.
Settle(c) ==
    /\ pc[c] = "settle"
    /\ \/ /\ Prepaying(c)
          /\ Desired(c) > prepaid[c] + Slack
          /\ Begin(c, "topup", TopUp(c))
       \/ /\ ~Prepaying(c)
          /\ IF c \in finishing \cup halted THEN Unpaid(c) > 0
                                            ELSE Unpaid(c) >= Trigger
          /\ Begin(c, "cheque", Due(c))
       \/ /\ Goto(c, "turn")
          /\ UNCHANGED <<kind, units>>
    /\ UNCHANGED <<sharedVars, issued, fails, mirrorVars, prepaid, rate,
                   loopVars, quoteVars, newCum>>

\* Phase transitions at the end of a turn.
Turn(c) ==
    /\ pc[c] = "turn"
    /\ LET fin == c \in finishing \/ (tasks[c] = 0 /\ (work = 0 \/ c \in halted))
       IN /\ finishing' = IF fin THEN finishing \cup {c} ELSE finishing
          /\ Goto(c, IF fin /\ tasks[c] = 0 /\ Unpaid(c) = 0 THEN "closed" ELSE "top")
    /\ UNCHANGED <<sharedVars, issued, fails, mirrorVars, prepaid, rate,
                   spendStop, halted, sweeps, chequeVars>>

\* The peer hung up: the loop joins its tasks and returns what is unpaid.
Dead(c) ==
    /\ pc[c] = "top"
    /\ reserved[c] = 0
    /\ tasks' = [tasks EXCEPT ![c] = 0]
    /\ Goto(c, "closed")
    /\ UNCHANGED <<sharedVars, issued, fails, debt, reserved, prepaid, rate,
                   loopVars, chequeVars>>

\* The stall detector.
WindDown ==
    /\ ~wind
    /\ wind' = TRUE
    /\ UNCHANGED <<work, cum, held, paid, stray, ambiguous, crossed, accepted,
                   refused, issued, fails, pc, mirrorVars, prepaid, rate, loopVars,
                   chequeVars>>

-----------------------------------------------------------------------------
(* emit_settlement_cheque.                                                 *)

\* Where the emission was called from: before the loop, or inside it.
After(c) == IF kind[c] = "first" THEN "top" ELSE "turn"

\* The locals of the call are gone.
Forget(c) ==
    /\ kind' = [kind EXCEPT ![c] = "none"]
    /\ units' = [units EXCEPT ![c] = 0]
    /\ quoted' = [quoted EXCEPT ![c] = 0]
    /\ plur' = [plur EXCEPT ![c] = 0]
    /\ before' = [before EXCEPT ![c] = 0]
    /\ newCum' = [newCum EXCEPT ![c] = 0]

\* The emission failed: a failed sweep is retried, then given up.
EmitFailed(c) ==
    LET giveUp == c \in finishing /\ sweeps[c] + 1 >= MaxSweeps
    IN /\ sweeps' = [sweeps EXCEPT ![c] = IF c \in finishing THEN @ + 1 ELSE @]
       /\ Goto(c, IF giveUp THEN "closed" ELSE After(c))
       /\ Forget(c)

\* The amount as the counter sees it.
Clamp(n) == Min2(n, Wrap - 1)

\* The stream did not open, no usable headers came, or the rate was zero.
NoQuote(c) ==
    /\ pc[c] = "open"
    /\ fails < MaxFails
    /\ fails' = fails + 1
    /\ EmitFailed(c)
    /\ UNCHANGED <<sharedVars, issued, mirrorVars, prepaid, rate, spendStop,
                   halted, finishing>>

\* Headers received; fetch_add reserves the amount, modulo the word.
Quote(c, q) ==
    /\ pc[c] = "open"
    /\ q[1] > 0
    /\ LET amount == units[c] * q[1] + q[2]
       IN /\ plur' = [plur EXCEPT ![c] = amount]
          /\ before' = [before EXCEPT ![c] = issued]
          /\ issued' = (issued + Clamp(amount)) % Wrap
    /\ quoted' = [quoted EXCEPT ![c] = q[1]]
    /\ Goto(c, "guard")
    /\ UNCHANGED <<sharedVars, fails, mirrorVars, prepaid, rate, loopVars,
                   kind, units, newCum>>

\* Mutant: a failed emission keeps its reservation.
ReleaseNothing(c) == UNCHANGED issued

Release(c) == issued' = (issued + Wrap - Clamp(plur[c])) % Wrap

\* Mutant: the cheque's own amount is not part of the check.
OverCapBefore(c) == before[c] > Cap

OverCap(c) == Clamp(before[c] + Clamp(plur[c])) > Cap

\* The spend guard.
Refuse(c) ==
    /\ pc[c] = "guard"
    /\ OverCap(c)
    /\ Release(c)
    /\ EmitFailed(c)
    /\ refused' = IF c \in finishing THEN refused \cup {c} ELSE refused
    /\ UNCHANGED <<work, cum, held, wind, paid, stray, ambiguous, crossed,
                   accepted, fails, mirrorVars, prepaid, rate, spendStop, halted,
                   finishing>>

\* The cached invariant: the beneficiary's cumulative would exceed issuable.
Unbacked(c) ==
    /\ pc[c] = "guard"
    /\ ~OverCap(c)
    /\ cum[BenOf[c]] + plur[c] > Issuable
    /\ Release(c)
    /\ EmitFailed(c)
    /\ UNCHANGED <<sharedVars, fails, mirrorVars, prepaid, rate, spendStop,
                   halted, finishing>>

\* Another cheque for this beneficiary is signed and not yet recorded.
Crosses(c) == \E d \in Conn \ {c} : BenOf[d] = BenOf[c] /\ pc[d] \in {"wire", "record"}

\* cumulative_for, and the cheque is signed: nothing keeps another connection
\* of the same beneficiary from reading the same cumulative.
Sign(c) ==
    /\ pc[c] = "guard"
    /\ ~OverCap(c)
    /\ cum[BenOf[c]] + plur[c] <= Issuable
    /\ newCum' = [newCum EXCEPT ![c] = cum[BenOf[c]] + plur[c]]
    /\ crossed' = IF Crosses(c) THEN crossed \cup {BenOf[c]} ELSE crossed
    /\ Goto(c, "wire")
    /\ UNCHANGED <<work, cum, held, wind, paid, stray, ambiguous, accepted, refused,
                   issued, fails, mirrorVars, prepaid, rate, loopVars, kind, units,
                   quoteVars>>

\* The peer has the frame; it keeps the highest cumulative.
Deliver(c) == held' = [held EXCEPT ![BenOf[c]] = IF newCum[c] > @ THEN newCum[c] ELSE @]

WireOk(c) ==
    /\ pc[c] = "wire"
    /\ Deliver(c)
    /\ paid' = paid + plur[c]
    /\ Goto(c, "record")
    /\ UNCHANGED <<work, cum, wind, stray, ambiguous, crossed, accepted, refused,
                   issued, fails, mirrorVars, prepaid, rate, loopVars, chequeVars>>

\* The write or the flush fails, before or after the frame has left; either
\* way the reservation is released and nothing is recorded.
WireErr(c) ==
    /\ pc[c] = "wire"
    /\ fails < MaxFails
    /\ fails' = fails + 1
    /\ \/ UNCHANGED <<held, ambiguous, stray>>
       \/ /\ Deliver(c)
          /\ ambiguous' = ambiguous \cup {BenOf[c]}
          /\ stray' = stray + plur[c]
    /\ Release(c)
    /\ EmitFailed(c)
    /\ UNCHANGED <<work, cum, wind, paid, crossed, accepted, refused, mirrorVars, prepaid,
                   rate, spendStop, halted, finishing>>

\* Mutant: the cheque is not recorded.
RecordNothing(c) == UNCHANGED cum

\* record_issued inserts, whatever was there.
RecordIssued(c) == cum' = [cum EXCEPT ![BenOf[c]] = newCum[c]]

\* emit credits the mirror, emit_prepay raises the prepayment instead.
Credit(c) ==
    /\ debt' = [debt EXCEPT ![c] = IF kind[c] = "cheque" THEN Monus(@, units[c]) ELSE @]
    /\ prepaid' = [prepaid EXCEPT ![c] = IF kind[c] = "cheque" THEN @ ELSE @ + units[c]]

\* Recorded and credited; the quoted rate is the next projection's rate.
Record(c) ==
    /\ pc[c] = "record"
    /\ RecordIssued(c)
    /\ Credit(c)
    /\ rate' = [rate EXCEPT ![c] = IF quoted[c] < Wrap THEN quoted[c] ELSE DefaultRate]
    /\ Goto(c, After(c))
    /\ Forget(c)
    /\ UNCHANGED <<work, held, wind, paid, stray, ambiguous, crossed, accepted, refused,
                   issued, fails, reserved, tasks, loopVars>>

-----------------------------------------------------------------------------
Drive(c) == \/ Start(c) \/ Top(c) \/ Admit(c) \/ Refresh(c) \/ NoRefresh(c)
            \/ Settle(c) \/ Turn(c) \/ Dead(c)

Emit(c) == \/ NoQuote(c)
           \/ \E q \in Quotes : Quote(c, q)
           \/ Refuse(c) \/ Unbacked(c) \/ Sign(c)
           \/ WireOk(c) \/ WireErr(c) \/ Record(c)

Done == (\A c \in Conn : pc[c] = "closed") /\ UNCHANGED vars

Next == \/ \E c \in Conn : Drive(c) \/ Served(c) \/ Emit(c)
        \/ WindDown
        \/ Done

Spec == Init /\ [][Next]_vars

-----------------------------------------------------------------------------
(* Properties.                                                             *)

Where == {"start", "top", "admit", "settle", "turn", "open", "guard", "wire",
          "record", "closed"}

\* Fields have the code's types, the counter fits its word, and nothing is
\* in flight on a connection that is closed.
TypeOK ==
    /\ work \in Nat /\ issued \in 0..(Wrap - 1) /\ fails \in Nat
    /\ paid \in Nat /\ stray \in Nat /\ accepted \in [Conn -> Nat]
    /\ cum \in [Ben -> Nat] /\ held \in [Ben -> Nat]
    /\ wind \in BOOLEAN /\ refused \subseteq Conn
    /\ ambiguous \subseteq Ben /\ crossed \subseteq Ben
    /\ pc \in [Conn -> Where]
    /\ debt \in [Conn -> Nat] /\ reserved \in [Conn -> Nat]
    /\ tasks \in [Conn -> 0..Pipeline]
    /\ prepaid \in [Conn -> Nat] /\ rate \in [Conn -> Nat]
    /\ spendStop \subseteq Conn /\ halted \subseteq Conn /\ finishing \subseteq Conn
    /\ sweeps \in [Conn -> Nat]
    /\ kind \in [Conn -> {"none", "first", "topup", "cheque"}]
    /\ units \in [Conn -> Nat] /\ quoted \in [Conn -> Nat]
    /\ plur \in [Conn -> Nat] /\ before \in [Conn -> Nat] /\ newCum \in [Conn -> Nat]
    /\ \A c \in Conn : pc[c] = "closed" => reserved[c] = 0

\* What each connection has reserved in issued_plur for a cheque not yet sent.
Outstanding ==
    [c \in Conn |-> IF pc[c] \in {"guard", "wire"} THEN Clamp(plur[c]) ELSE 0]

\* The sum of f over S, counted one by one.
Total(f, S) == Cardinality(UNION {{x} \X (1..f[x]) : x \in S})

\* issued_plur leaks nothing: it is what was sent on streams that did not
\* fail plus what emissions under way have reserved, on every error path and
\* in every interleaving (modulo the word).
IssuedBalances == issued = (paid + Total(Outstanding, Conn)) % Wrap

\* "Global cheque spend cap in PLUR ... Enforced at emit": what all payees
\* together can cash after a fetch exceeds the cap by no more than the cheques
\* whose stream failed after delivery, whatever connections reserve, release
\* and record in whatever order.
SpendCapHeld == Total(held, Ben) <= Cap + stray

\* The same without that allowance: it fails, since a cheque whose stream
\* failed late gives its reservation back and the next one spends it again.
SpendCapAlways == Total(held, Ben) <= Cap

\* "projected at the fetch gate so the final sweep always has room": the
\* spend guard never refuses a cheque of a final sweep.
SweepHasRoom == refused = {}

\* "the multi-peer scheduler sums the ledger": what is promised to all
\* beneficiaries together is covered by the chequebook.
PromisesBacked == Total(cum, Ben) <= Issuable

\* "Highest cumulative recorded for `beneficiary`": the ledger never goes
\* back, except for a beneficiary two of whose connections read the same
\* cumulative before either recorded.
LedgerHighest == [][\A b \in Ben \ crossed' : cum[b] <= cum'[b]]_vars

\* A cheque about to be sent is higher than all the beneficiary has had, or
\* it would be rejected and the credit to the mirror would be a fiction.
\* Two things break that, and nothing else does: a stream that failed after
\* delivery, and two connections of one beneficiary whose emissions overlap.
ChequeAdvances ==
    \A c \in Conn : (pc[c] = "wire" /\ BenOf[c] \notin ambiguous \cup crossed) =>
                        newCum[c] > held[BenOf[c]]

\* A cheque never pays more than is owed: the debt it was drawn for is still
\* there when it is credited, so the mirror's saturating credit loses nothing.
CreditExact ==
    \A c \in Conn : kind[c] = "cheque" => units[c] > 0 /\ units[c] <= Unpaid(c)

\* "Converges to the exact consumed amount": what a peer holds of ours beyond
\* what it has served (debt and accepted together are the chunks served that
\* no cheque has paid) is never more than one slice over the surplus it
\* started with, however top-ups, served chunks, refreshes that accept too
\* much and other connections that empty the bucket interleave.  A cheque
\* whose stream failed after delivery is not counted: the pacer never knew.
PrepayBounded ==
    \A c \in Conn :
        LET surplus == Monus(prepaid[c], debt[c] + accepted[c])
        IN surplus <= Surplus + Slice \/ surplus <= Parked[c]
=============================================================================
