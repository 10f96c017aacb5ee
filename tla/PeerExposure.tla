---------------------------- MODULE PeerExposure ----------------------------
(***************************************************************************)
(* How far one storer's books can run ahead of this node's mirror.  The    *)
(* probe of ds-net/src/growth.rs grows the payment threshold, samples the  *)
(* validation latency, prepays and then fetches at the ceiling; the        *)
(* scheduler's connections (schedule.rs Pacer) fetch at the ceiling from   *)
(* the start and top up their prepayment.  A cheque is credited to the     *)
(* mirror at once; the storer credits it when it has validated it.  The    *)
(* ceiling gate keeps back what was emitted within a window of 1.5 times   *)
(* the latency.                                                            *)
(*                                                                         *)
(* Every chunk costs one unit.  A cheque is charged at the exchange rate   *)
(* the storer quotes for it; the projection of the spend uses a default    *)
(* until the first cheque, then the rate of the first.  There is no clock: *)
(* the units in the deque `unvalidated` are validated, and leave the       *)
(* window, in any order, and the history variable late records that some   *)
(* left it before the storer had validated them.                           *)
(***************************************************************************)
EXTENDS Integers

CONSTANTS
    FirstThreshold, Step, MaxThreshold,   \* what the storer announces
    Depth,        \* pipeline depth
    Percent,      \* 105 in the code: the ceiling, in percent of the threshold
    MaxIssue,     \* max_issue_plur
    StopPercent,  \* 92 in the code
    Quotes,       \* the exchange rates a storer may quote, in PLUR per unit
    DefaultRate,  \* 100 000 in the code: assumed before the first cheque
    Deduction,    \* the one-time deduction of a storer new to this node
    Samples,      \* opts.lambda_samples
    ProbeUnits,   \* 50 000 in the code
    MinSwept,     \* four times as much: less debt makes no sample
    PrepayUnits,  \* opts.prepay_units
    Slice,        \* the scheduler's top-up
    MaxRefresh,   \* bound on the number of accepted refreshes
    MaxFails      \* bound on the number of failing cheque streams

ASSUME ExposureAssumption ==
    /\ FirstThreshold \in Nat /\ Step \in Nat \ {0} /\ MaxThreshold \in Nat
    /\ Depth \in Nat \ {0} /\ Percent \in Nat /\ Percent >= 75
    /\ Quotes \subseteq Nat \ {0} /\ DefaultRate \in Nat \ {0}
    /\ MaxIssue \in Nat /\ StopPercent \in 0..100 /\ Deduction \in Nat
    /\ Samples \in Nat /\ ProbeUnits \in Nat \ {0} /\ MinSwept \in Nat \ {0}
    /\ PrepayUnits \in Nat /\ Slice \in Nat
    /\ MaxRefresh \in Nat /\ MaxFails \in Nat

VARIABLES
    user,        \* whose gate: growth (growth.rs) or pacer (schedule.rs)
    stage,       \* growth, build, probe, next, prepay, wait, ceiling, sweep,
                 \* confirm, bye
    threshold,   \* the announced payment threshold
    alive,       \* the liveness flag
    stopping, capped,       \* run_fetch_phase: stopping; spend_capped
    debt, reserved,         \* the Mirror; a retrieval task reserves one unit
    prepaid,     \* units prepaid
    issued,      \* issued_plur
    rate,        \* exchange_rate, 0 while it is None
    fresh,       \* units in the deque, not validated by the storer
    seasoned,    \* units in the deque, validated
    stale,       \* units out of the deque, not validated
    known,       \* the storer has recorded a cheque of this node
    samples, zeros, tries,  \* latency samples left, zero ACKs, sweep attempts
    confirmed,   \* residual_zero_confirmed: none, yes, no
    refreshes, fails        \* counters of the bounds

VARIABLES          \* history
    owed,        \* units received, less refreshes and cheques delivered
    late,        \* units left the window unvalidated
    deducted,    \* deductions paid
    risen        \* a cheque was quoted above the rate of the projection

quoteVars == <<rate, risen>>
bookVars == <<debt, reserved, prepaid, issued, owed, deducted, quoteVars>>
windowVars == <<fresh, seasoned, stale, known, late>>
loopVars == <<user, stopping, capped, samples, zeros, tries, confirmed>>
chequeVars == <<debt, issued, deducted, quoteVars, owed, fresh, fails>>
boundVars == <<refreshes, fails>>
vars == <<stage, threshold, alive, bookVars, windowVars, loopVars, boundVars>>

Monus(a, b) == IF a > b THEN a - b ELSE 0
Min2(a, b) == IF a < b THEN a ELSE b

\* What the storer's books say this node owes.
PeerLedger == owed + fresh + stale

\* Mirror debt above the prepayment.
Unpaid == Monus(debt, prepaid)

-----------------------------------------------------------------------------
Init ==
    /\ user \in {"growth", "pacer"}
    /\ stage = IF user = "growth" THEN "growth" ELSE "ceiling"
    /\ threshold = FirstThreshold /\ alive = TRUE
    /\ stopping = FALSE /\ capped = FALSE
    /\ debt = 0 /\ reserved = 0 /\ prepaid = 0 /\ issued = 0 /\ rate = 0
    /\ fresh = 0 /\ seasoned = 0 /\ stale = 0 /\ known = FALSE
    /\ samples = Samples /\ zeros = 0 /\ tries = 0 /\ confirmed = "none"
    /\ refreshes = 0 /\ fails = 0
    /\ owed = 0 /\ late = FALSE /\ deducted = 0 /\ risen = FALSE

Fetching == stage \in {"growth", "ceiling"}

-----------------------------------------------------------------------------
(* The gates.                                                              *)

\* Conn::rate: what the projection takes a unit to cost.
Rate == IF rate = 0 THEN DefaultRate ELSE rate

\* The spend at which the fetch gate trips.
StopAt == (MaxIssue * StopPercent) \div 100

\* spend_would_exceed, for one more chunk.
SpendWouldExceed == issued + Monus(debt + reserved + 1, prepaid) * Rate > StopAt

\* Phase A: half the threshold.
GrowthLimit == threshold \div 2

\* Mutant: the prepayment is spent twice over.
CeilingLimitEager == prepaid + (threshold * Percent) \div 100

\* Phase C and Pacer::admit: the ceiling above the prepayment, less what was
\* emitted within the window.
CeilingLimit == Monus(prepaid + (threshold * Percent) \div 100, fresh + seasoned)

Admits(limit) == debt + reserved + 1 <= limit

-----------------------------------------------------------------------------
(* emit_settlement_cheque, as this connection sees it.                     *)

Cost(n, q) == n * q + (IF known THEN 0 ELSE Deduction)
Affordable(n, q) == issued + Cost(n, q) <= MaxIssue

\* Delivered and recorded.  The probe keeps the rate of its first cheque.
\* (The scheduler's rate is read by its own projection only.)
Paid(n, q) ==
    /\ Affordable(n, q)
    /\ issued' = issued + Cost(n, q)
    /\ deducted' = deducted + Cost(n, q) - n * q
    /\ IF user = "growth"
       THEN rate' = (IF rate = 0 THEN q ELSE rate) /\ risen' = (risen \/ q > Rate)
       ELSE UNCHANGED quoteVars
    /\ owed' = owed - n /\ fresh' = fresh + n

\* Refused by the spend guard, or the stream failed; in the latter case the
\* cheque may have been delivered all the same.
NotPaid(n, q) ==
    /\ \/ ~Affordable(n, q) /\ UNCHANGED <<owed, fails>>
       \/ /\ fails < MaxFails /\ fails' = fails + 1
          /\ UNCHANGED owed \/ owed' = owed - n
    /\ UNCHANGED <<issued, deducted, quoteVars, fresh>>

\* Conn::emit: credit the mirror at once.
Emit(n) == \E q \in Quotes :
    \/ Paid(n, q) /\ debt' = Monus(debt, n) /\ UNCHANGED fails
    \/ NotPaid(n, q) /\ UNCHANGED debt

-----------------------------------------------------------------------------
(* run_fetch_phase and the scheduler's drive loop.                         *)

\* Mutant: the projection leaves out what was just reserved.
SpawnUnprojected ==
    /\ Fetching /\ ~stopping /\ reserved < Depth
    /\ IF user = "growth" /\ issued + Monus(debt, prepaid) * Rate > StopAt
       THEN stopping' = TRUE /\ capped' = TRUE /\ UNCHANGED reserved
       ELSE /\ Admits(IF stage = "growth" THEN GrowthLimit ELSE CeilingLimit)
            /\ reserved' = reserved + 1 /\ UNCHANGED <<stopping, capped>>
    /\ UNCHANGED <<stage, threshold, alive, debt, prepaid, issued, owed,
                   deducted, quoteVars, windowVars, user, samples, zeros, tries,
                   confirmed, boundVars>>

\* The probe's projection stops the phase; the gate admits one more chunk.
\* (The scheduler's projection is the subject of ChequeEmission.)
Spawn ==
    /\ Fetching /\ ~stopping /\ reserved < Depth
    /\ IF user = "growth" /\ SpendWouldExceed
       THEN stopping' = TRUE /\ capped' = TRUE /\ UNCHANGED reserved
       ELSE /\ Admits(IF stage = "growth" THEN GrowthLimit ELSE CeilingLimit)
            /\ reserved' = reserved + 1 /\ UNCHANGED <<stopping, capped>>
    /\ UNCHANGED <<stage, threshold, alive, debt, prepaid, issued, owed,
                   deducted, quoteVars, windowVars, user, samples, zeros, tries,
                   confirmed, boundVars>>

\* Mutant: a served chunk only releases its reservation.
RetrievedFree ==
    /\ reserved > 0 /\ reserved' = reserved - 1
    /\ owed' = owed + 1 /\ UNCHANGED debt
    /\ UNCHANGED <<stage, threshold, alive, prepaid, issued, deducted,
                   quoteVars, windowVars, loopVars, boundVars>>

\* A retrieval ends: apply, or release on an error or a timeout.
Retrieved ==
    /\ reserved > 0 /\ reserved' = reserved - 1
    /\ \/ debt' = debt + 1 /\ owed' = owed + 1
       \/ UNCHANGED <<debt, owed>>
    /\ UNCHANGED <<stage, threshold, alive, prepaid, issued, deducted,
                   quoteVars, windowVars, loopVars, boundVars>>

\* Wall cap, plateau, or a dead connection; wind-down, spend stop or an empty
\* bucket in the scheduler.
Stop ==
    /\ Fetching /\ ~stopping /\ stopping' = TRUE
    /\ UNCHANGED <<stage, threshold, alive, bookVars, windowVars, user, capped,
                   samples, zeros, tries, confirmed, boundVars>>

\* A due refresh, unless the prepayment covers the debt.
Refresh ==
    /\ Fetching /\ alive /\ Unpaid > 0
    /\ refreshes < MaxRefresh /\ refreshes' = refreshes + 1
    /\ PeerLedger > 0
    /\ debt' = Monus(debt, 1) /\ owed' = owed - 1
    /\ UNCHANGED <<stage, threshold, alive, reserved, prepaid, issued,
                   deducted, quoteVars, windowVars, loopVars, fails>>

\* Phase A: a quarter of the threshold, spaced so that the previous cheque
\* should be validated by now.
GrowthCheque ==
    LET trigger == threshold \div 4 IN
    /\ stage = "growth" /\ alive
    /\ debt >= trigger /\ trigger > 0
    /\ Emit(trigger)
    /\ late' = (late \/ fresh + stale > 0)
    /\ UNCHANGED <<stage, threshold, alive, reserved, prepaid, seasoned, stale,
                   known, loopVars, refreshes>>

\* Phase C and the scheduler: what is consumed beyond the prepayment, once
\* it reaches a fifth of the threshold or when stopping.
CeilingCheque ==
    /\ stage = "ceiling" /\ alive
    /\ Unpaid > 0
    /\ Unpaid >= threshold \div 5 \/ (user = "pacer" /\ stopping)
    /\ Emit(Unpaid)
    /\ UNCHANGED <<stage, threshold, alive, reserved, prepaid, seasoned, stale,
                   known, late, loopVars, refreshes>>

\* The scheduler's emit_prepay: toward the consumed amount plus a slice.
TopUp ==
    /\ user = "pacer" /\ stage = "ceiling" /\ alive /\ ~stopping
    /\ \E n \in 1..Slice, q \in Quotes :
          /\ prepaid + n <= debt + Slice
          /\ \/ Paid(n, q) /\ prepaid' = prepaid + n /\ UNCHANGED fails
             \/ NotPaid(n, q) /\ UNCHANGED prepaid
    /\ UNCHANGED <<stage, threshold, alive, debt, reserved, seasoned, stale,
                   known, late, loopVars, refreshes>>

\* The phase drains its tasks and ends.  After a spend cap or a hang-up
\* nothing but the final sweep follows.
PhaseEnd ==
    /\ Fetching /\ stopping /\ reserved = 0
    /\ stopping' = FALSE
    /\ stage' = IF stage = "growth" THEN "next" ELSE "sweep"
    /\ UNCHANGED <<threshold, alive, bookVars, windowVars, user, capped,
                   samples, zeros, tries, confirmed, boundVars>>

-----------------------------------------------------------------------------
(* lambda_sample.                                                          *)

NextSample ==
    /\ stage = "next"
    /\ IF samples > 0 /\ alive /\ ~capped
       THEN stage' = "build" /\ samples' = samples - 1
       ELSE stage' = "prepay" /\ UNCHANGED samples
    /\ UNCHANGED <<threshold, alive, bookVars, windowVars, user, stopping,
                   capped, zeros, tries, confirmed, boundVars>>

\* Debt is built up one chunk at a time, to 0.4 of the threshold.
Build ==
    /\ stage = "build" /\ alive
    /\ debt < (threshold * 4) \div 10
    /\ ~SpendWouldExceed /\ Admits(GrowthLimit)
    /\ debt' = debt + 1 /\ owed' = owed + 1
    /\ UNCHANGED <<stage, threshold, alive, reserved, prepaid, issued,
                   deducted, quoteVars, windowVars, loopVars, boundVars>>

\* Too little debt skips the sample, else one cheque sweeps it.
Sweep0 ==
    /\ stage = "build"
    /\ IF ~alive \/ debt < MinSwept
       THEN stage' = "next" /\ UNCHANGED chequeVars
       ELSE /\ Emit(debt)
            /\ stage' = IF debt' < debt THEN "probe" ELSE "next"
    /\ zeros' = 0
    /\ UNCHANGED <<threshold, alive, reserved, prepaid, seasoned, stale, known,
                   late, user, stopping, capped, samples, tries, confirmed,
                   refreshes>>

\* What a small pseudosettle request settles (refresh_probe).
Accepted == IF PeerLedger > 0 THEN Min2(ProbeUnits, PeerLedger) ELSE 0

\* A probe's acceptance is not credited to the mirror; two zero ACKs in a
\* row end the sample.
Probe ==
    /\ stage = "probe" /\ alive
    /\ owed' = owed - Accepted
    /\ zeros' = IF Accepted = 0 THEN zeros + 1 ELSE 0
    /\ stage' = IF zeros' = 2 THEN "next" ELSE stage
    /\ UNCHANGED <<threshold, alive, debt, reserved, prepaid, issued, deducted,
                   quoteVars, windowVars, user, stopping, capped, samples, tries,
                   confirmed, boundVars>>

\* 25 seconds without two zero ACKs.
ProbeTimeout ==
    /\ stage = "probe" /\ stage' = "next"
    /\ late' = (late \/ fresh > 0)
    /\ UNCHANGED <<threshold, alive, bookVars, fresh, seasoned, stale, known,
                   loopVars, boundVars>>

-----------------------------------------------------------------------------
(* Prepayment, final sweep and confirmation (probe_growth).                *)

Prepay ==
    /\ stage = "prepay"
    /\ IF alive /\ ~capped /\ PrepayUnits > 0
       THEN \E q \in Quotes :
               \/ /\ Paid(PrepayUnits, q) /\ prepaid' = PrepayUnits
                  /\ stage' = "wait" /\ UNCHANGED fails
               \/ NotPaid(PrepayUnits, q) /\ stage' = "ceiling" /\ UNCHANGED prepaid
       ELSE /\ stage' = IF alive /\ ~capped THEN "ceiling" ELSE "sweep"
            /\ UNCHANGED <<prepaid, issued, deducted, quoteVars, owed, fresh, fails>>
    /\ UNCHANGED <<threshold, alive, debt, reserved, seasoned, stale, known,
                   late, loopVars, refreshes>>

\* The sleep of more than a window after the prepayment.
Waited ==
    /\ stage = "wait"
    /\ stage' = IF alive THEN "ceiling" ELSE "sweep"
    /\ fresh' = 0 /\ seasoned' = 0 /\ stale' = stale + fresh
    /\ late' = (late \/ fresh > 0)
    /\ UNCHANGED <<threshold, alive, bookVars, known, loopVars, boundVars>>

\* Mutant: failed attempts are not counted.
SweepForever ==
    /\ stage = "sweep"
    /\ IF Unpaid = 0 \/ ~alive \/ tries = 3
       THEN stage' = "confirm" /\ UNCHANGED <<chequeVars, tries>>
       ELSE Emit(Unpaid) /\ UNCHANGED tries /\ UNCHANGED stage
    /\ UNCHANGED <<threshold, alive, reserved, prepaid, seasoned, stale, known,
                   late, user, stopping, capped, samples, zeros, confirmed,
                   refreshes>>

\* Mutant: the sweep keeps the trigger of the phase.
SweepAboveTrigger ==
    /\ stage = "sweep"
    /\ IF Unpaid <= threshold \div 5 \/ ~alive \/ tries = 3
       THEN stage' = "confirm" /\ UNCHANGED <<chequeVars, tries>>
       ELSE Emit(Unpaid) /\ tries' = tries + 1 /\ UNCHANGED stage
    /\ UNCHANGED <<threshold, alive, reserved, prepaid, seasoned, stale, known,
                   late, user, stopping, capped, samples, zeros, confirmed,
                   refreshes>>

\* Up to three cheques for what is left.
Sweep ==
    /\ stage = "sweep"
    /\ IF Unpaid = 0 \/ ~alive \/ tries = 3
       THEN stage' = "confirm" /\ UNCHANGED <<chequeVars, tries>>
       ELSE Emit(Unpaid) /\ tries' = tries + 1 /\ UNCHANGED stage
    /\ UNCHANGED <<threshold, alive, reserved, prepaid, seasoned, stale, known,
                   late, user, stopping, capped, samples, zeros, confirmed,
                   refreshes>>

\* A last probe asks the storer; then the connection is closed.
Confirm ==
    /\ stage = "confirm" /\ stage' = "bye"
    /\ \/ alive /\ confirmed' = (IF Accepted = 0 THEN "yes" ELSE "no")
                /\ owed' = owed - Accepted
       \/ UNCHANGED <<confirmed, owed>>
    /\ UNCHANGED <<threshold, alive, debt, reserved, prepaid, issued, deducted,
                   quoteVars, windowVars, user, stopping, capped, samples, zeros,
                   tries, boundVars>>

-----------------------------------------------------------------------------
(* The storer and the clock.                                               *)

Upgrade ==
    /\ stage # "bye" /\ threshold + Step <= MaxThreshold
    /\ threshold' = threshold + Step
    /\ UNCHANGED <<stage, alive, bookVars, windowVars, loopVars, boundVars>>

HangUp ==
    /\ stage # "bye" /\ alive /\ alive' = FALSE
    /\ UNCHANGED <<stage, threshold, bookVars, windowVars, loopVars, boundVars>>

Validate ==
    /\ stage # "bye" /\ known' = TRUE
    /\ \/ fresh > 0 /\ fresh' = fresh - 1 /\ seasoned' = seasoned + 1 /\ UNCHANGED stale
       \/ stale > 0 /\ stale' = stale - 1 /\ UNCHANGED <<fresh, seasoned>>
    /\ UNCHANGED <<stage, threshold, alive, bookVars, late, loopVars, boundVars>>

\* unvalidated_within and unvalidated_sum: the window has passed for some of
\* the deque.
Expire ==
    /\ stage # "bye"
    /\ \/ /\ seasoned > 0 /\ seasoned' = seasoned - 1
          /\ UNCHANGED <<fresh, stale, late>>
       \/ /\ fresh > 0 /\ fresh' = fresh - 1 /\ stale' = stale + 1
          /\ late' = TRUE /\ UNCHANGED seasoned
    /\ UNCHANGED <<stage, threshold, alive, bookVars, known, loopVars, boundVars>>

-----------------------------------------------------------------------------
Cheque == GrowthCheque \/ CeilingCheque \/ TopUp
Lambda == NextSample \/ Build \/ Sweep0 \/ Probe \/ ProbeTimeout
Closing == Prepay \/ Waited \/ Sweep \/ Confirm
Ended == stage = "bye" /\ UNCHANGED vars

Next == \/ Spawn \/ Retrieved \/ Stop \/ Refresh \/ Cheque \/ PhaseEnd
        \/ Lambda \/ Closing
        \/ Upgrade \/ HangUp \/ Validate \/ Expire
        \/ Ended

Spec == Init /\ [][Next]_vars

(* A retrieval of a fetch phase times out after 10 s; taking the next      *)
(* sample and the sleep after the prepayment wait for nobody.              *)
FairSpec == /\ Spec
            /\ WF_vars(Retrieved) /\ WF_vars(NextSample) /\ WF_vars(Waited)

(* Everything else stands behind a refresh, a cheque, a probe or a         *)
(* sample's retrieval, each awaited without a deadline; the wall cap of a  *)
(* phase, the deadline of a sample and the 25 s of a probe are looked at   *)
(* in between.  That the calls come to an end is up to the storer.         *)
Awaiting == Stop \/ PhaseEnd \/ Sweep0 \/ ProbeTimeout \/ Prepay \/ Sweep \/ Confirm
StorerAnswers == WF_vars(Awaiting)

-----------------------------------------------------------------------------
(* Properties.                                                             *)

\* Fields have the code's types; no unsigned counter goes below zero.
TypeOK ==
    /\ user \in {"growth", "pacer"}
    /\ stage \in {"growth", "build", "probe", "next", "prepay", "wait",
                  "ceiling", "sweep", "confirm", "bye"}
    /\ \A n \in {threshold, debt, reserved, prepaid, issued, rate, fresh, seasoned,
                 stale, samples, zeros, tries, refreshes, fails, deducted} : n \in Nat
    /\ alive \in BOOLEAN /\ stopping \in BOOLEAN /\ capped \in BOOLEAN
    /\ known \in BOOLEAN /\ late \in BOOLEAN /\ risen \in BOOLEAN
    /\ confirmed \in {"none", "yes", "no"} /\ owed \in Int

\* The mirror never understates: what is owed beyond the prepayment is at
\* least what was received and not settled, with refreshes that overlap
\* cheques, probes that are not credited and cheques of unknown fate.
MirrorCovers == owed <= debt - prepaid

\* "bee's worst-case view (debt + reserved + unvalidated cheques within the
\* window) stays <= 1.05 x T": as long as no cheque outlives the window
\* unvalidated, the storer's books with everything in flight stay within the
\* ceiling, through every phase, top-up and threshold upgrade.
ExposureBounded ==
    ~late => PeerLedger + reserved <= (threshold * Percent) \div 100

\* "Checked at the FETCH gate (projected, incl. unswept debt), so the final
\* sweep always has room": as long as no cheque was quoted above the rate the
\* projection used and the deductions fit into what it leaves, the spend guard
\* cannot refuse the probe's final sweep at that rate or below, in whatever
\* order debt, cheques, refreshes, the prepayment and the quotes came.
SweepAffordable ==
    (user = "growth" /\ stage = "sweep" /\ Unpaid > 0 /\ ~risen
        /\ \A q \in Quotes : deducted + Cost(0, q) <= MaxIssue - StopAt)
        => \A q \in Quotes : q <= Rate => Affordable(Unpaid, q)

\* The same text with no exception: not so once a storer quotes more than the
\* projection assumed.
SweepAlwaysRoom ==
    (user = "growth" /\ stage = "sweep" /\ Unpaid > 0)
        => \A q \in Quotes : Affordable(Unpaid, q)

\* "fully settled end to end": a run that ends on a live connection with no
\* cheque refused or failed owes nothing.
SettledAtEnd ==
    (stage \in {"confirm", "bye"} /\ alive /\ tries < 3) => owed <= 0

\* The probe returns, given a storer that answers: through every refusal and
\* failure of a cheque, every hang-up and every upgrade of the threshold, no
\* phase, sample or sweep goes on for ever by the program's own doing.
Terminates == StorerAnswers => <>(stage = "bye")
=============================================================================
