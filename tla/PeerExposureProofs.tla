------------------------- MODULE PeerExposureProofs -------------------------
(***************************************************************************)
(* Proofs about PeerExposure, for every threshold and growth step, ceiling *)
(* of at least 75 percent, spend limit, deduction, sample count, slice and *)
(* failure bound: the mirror covers the debt, the storer's books stay      *)
(* within the ceiling as long as the validation window is long enough, the *)
(* final sweep is affordable and a clean run ends settled.                 *)
(***************************************************************************)
EXTENDS PeerExposure, TLAPS

Ceiling(t) == (t * Percent) \div 100

\* The two halves of TypeOK, for two kinds of provers.
Counts ==
    /\ threshold \in Nat /\ debt \in Nat /\ reserved \in Nat
    /\ prepaid \in Nat /\ issued \in Nat /\ deducted \in Nat
    /\ fresh \in Nat /\ seasoned \in Nat /\ stale \in Nat
    /\ owed \in Int /\ tries \in Nat /\ zeros \in Nat
    /\ samples \in Nat /\ refreshes \in Nat /\ fails \in Nat /\ rate \in Nat

Flags ==
    /\ user \in {"growth", "pacer"}
    /\ stage \in {"growth", "build", "probe", "next", "prepay", "wait",
                  "ceiling", "sweep", "confirm", "bye"}
    /\ alive \in BOOLEAN /\ stopping \in BOOLEAN /\ capped \in BOOLEAN
    /\ known \in BOOLEAN /\ late \in BOOLEAN /\ risen \in BOOLEAN
    /\ confirmed \in {"none", "yes", "no"}

\* Tasks run only in the two fetch phases; nothing is prepaid before phase B.
Idle ==
    /\ ~Fetching => reserved = 0
    /\ stage \in {"growth", "next", "build", "probe", "prepay"} => prepaid = 0

\* While the threshold grows, the mirror stays under half of it, and the
\* storer's books are ahead of the mirror by one cheque at most.
Growing ==
    /\ stage \in {"growth", "next", "build"} =>
          /\ debt + reserved <= threshold \div 2
          /\ ~late => PeerLedger <= debt + threshold \div 4
    /\ stage = "probe" => debt = 0

\* Only a late validation leaves the window.
OnTime == ~late => stale = 0

\* ExposureBounded, with the ceiling named.
Exposed == ~late => PeerLedger + reserved <= Ceiling(threshold)

\* The books, whatever the exchange rate.
Books == Counts /\ Flags /\ Idle /\ MirrorCovers /\ OnTime /\ Growing /\ Exposed
         /\ SettledAtEnd

\* What the probe owes and reserves beyond its prepayment.
Owing == debt + reserved - prepaid

\* As long as no quote was above the rate of the projection, what the probe
\* has spent and owes fits the spend stop, deductions aside.
Projected ==
    (user = "growth" /\ ~risen /\ Owing > 0)
        => issued + Owing * Rate <= StopAt + deducted

IInv == Books /\ Projected

-----------------------------------------------------------------------------
\* saturating_sub.
LEMMA MonusFact ==
    \A a, b \in Nat : /\ Monus(a, b) \in Nat
                      /\ Monus(a, b) <= a /\ Monus(a, b) >= a - b
                      /\ a >= b => Monus(a, b) = a - b
                      /\ a <= b => Monus(a, b) = 0
BY DEF Monus

\* Half and a quarter of the threshold are within the ceiling.
LEMMA CeilingRoom ==
    \A t \in Nat : /\ Ceiling(t) \in Nat
                   /\ t \div 2 \in Nat /\ t \div 4 \in Nat
                   /\ t \div 2 + t \div 4 <= Ceiling(t)
<1>. TAKE t \in Nat
<1>1. t * Percent \in Nat /\ t * Percent >= t * 75
  BY ExposureAssumption
<1>2. t \div 2 \in Nat /\ t \div 4 \in Nat /\ 4 * (t \div 2 + t \div 4) <= 3 * t
  OBVIOUS
<1>3. 100 * (t \div 2 + t \div 4) <= t * Percent
  BY <1>1, <1>2
<1>. DEFINE x == t * Percent
            k == t \div 2 + t \div 4
<1>4. x \in Nat /\ k \in Nat /\ 100 * k <= x
  BY <1>1, <1>2, <1>3
<1>. HIDE DEF x, k
<1>5. x \div 100 \in Nat /\ k <= x \div 100
  BY <1>4
<1>. QED
  BY <1>2, <1>5 DEF x, k, Ceiling

\* A higher threshold raises every limit.
LEMMA CeilingGrows ==
    \A t \in Nat : \E a, b, c \in Nat :
        /\ Ceiling(t + Step) = Ceiling(t) + a
        /\ (t + Step) \div 2 = t \div 2 + b
        /\ (t + Step) \div 4 = t \div 4 + c
<1>. TAKE t \in Nat
<1>. DEFINE x == t * Percent
            y == (t + Step) * Percent
<1>1. x \in Nat /\ y \in Nat /\ x <= y
  BY ExposureAssumption
<1>. HIDE DEF x, y
<1>2. x \div 100 \in Nat /\ y \div 100 \in Nat /\ x \div 100 <= y \div 100
  BY <1>1
<1>. DEFINE a == y \div 100 - x \div 100
            b == (t + Step) \div 2 - t \div 2
            c == (t + Step) \div 4 - t \div 4
<1>3. a \in Nat /\ y \div 100 = x \div 100 + a
  BY <1>2
<1>4. /\ b \in Nat /\ (t + Step) \div 2 = t \div 2 + b
      /\ c \in Nat /\ (t + Step) \div 4 = t \div 4 + c
  BY ExposureAssumption
<1>5. Ceiling(t + Step) = Ceiling(t) + a
  BY <1>3 DEF x, y, Ceiling
<1>. HIDE DEF a, b, c
<1>. QED
  BY <1>3, <1>4, <1>5

\* A cheque costs its units at the quoted rate and the deduction of a new
\* storer, which does not depend on the rate.
LEMMA CostFact ==
    ASSUME Flags
    PROVE  \A n, q \in Nat : /\ n * q \in Nat /\ Cost(n, q) \in Nat
                             /\ Cost(n, q) - n * q \in Nat
                             /\ Cost(n, q) = n * q + Cost(0, q)
<1>. TAKE n, q \in Nat
<1>. DEFINE x == n * q
            d == IF known THEN 0 ELSE Deduction
<1>1. x \in Nat /\ 0 * q = 0 /\ d \in Nat
  BY ExposureAssumption DEF Flags
<1>2. Cost(n, q) = x + d /\ Cost(0, q) = d
  BY <1>1 DEF Cost
<1>. HIDE DEF x, d
<1>3. Cost(n, q) \in Nat /\ Cost(n, q) - x \in Nat /\ Cost(n, q) = x + Cost(0, q)
  BY <1>1, <1>2
<1>. QED
  BY <1>1, <1>3 DEF x

\* Together they are the type invariant.
LEMMA TypeSplit == TypeOK <=> Counts /\ Flags
BY DEF TypeOK, Counts, Flags

\* The spend stop is a natural number.
LEMMA StopFact == StopAt \in Nat
<1>. DEFINE x == MaxIssue * StopPercent
<1>1. x \in Nat
  BY ExposureAssumption
<1>. HIDE DEF x
<1>2. x \div 100 \in Nat
  BY <1>1
<1>. QED
  BY <1>2 DEF x, StopAt

-----------------------------------------------------------------------------
\* What a cheque or prepayment of n units does to the books, whatever the
\* rate: they move only if it was paid, and a failing stream may deliver it.
LEMMA PaidFact ==
    ASSUME Counts, Flags, NEW n \in Nat, NEW q \in Quotes
    PROVE  /\ Paid(n, q) => /\ issued' \in Nat /\ deducted' \in Nat /\ rate' \in Nat
                            /\ fresh' = fresh + n /\ owed' = owed - n
           /\ NotPaid(n, q) => /\ issued' \in Nat /\ deducted' \in Nat
                               /\ rate' \in Nat /\ fails' \in Nat
                               /\ fresh' = fresh
                               /\ owed' \in {owed, owed - n}
<1>. USE DEF Counts
<1>1. q \in Nat
  BY ExposureAssumption
<1>2. Cost(n, q) \in Nat /\ Cost(n, q) - n * q \in Nat
  BY <1>1, CostFact
<1>3. Paid(n, q) => /\ issued' \in Nat /\ fresh' = fresh + n /\ owed' = owed - n
  BY <1>2 DEF Paid
<1>4. Paid(n, q) => deducted' \in Nat
  <2>. DEFINE x == n * q
              c == Cost(n, q)
  <2>1. Paid(n, q) => deducted' = deducted + c - x
    BY DEF Paid
  <2>2. c \in Nat /\ c - x \in Nat /\ x \in Nat
    BY <1>1, <1>2
  <2>. HIDE DEF x, c
  <2>. QED
    BY <2>1, <2>2
<1>5. Paid(n, q) => rate' \in Nat
  BY <1>1 DEF Paid, quoteVars
<1>6. NotPaid(n, q) => /\ issued' \in Nat /\ deducted' \in Nat
                       /\ rate' \in Nat /\ fails' \in Nat
                       /\ fresh' = fresh
                       /\ owed' \in {owed, owed - n}
  BY DEF NotPaid, quoteVars
<1>. QED
  BY <1>3, <1>4, <1>5, <1>6

\* A cheque of n units, within the debt: k units are settled, and m more may
\* have reached the storer unrecorded.
Settles(n) ==
    \E k, m \in Nat : /\ k \in {0, n} /\ k <= debt
                     /\ debt' = debt - k /\ fresh' = fresh + k
                     /\ owed' = owed - k - m

LEMMA EmitFact ==
    ASSUME Counts, Flags, NEW n \in Nat, n <= debt, Emit(n)
    PROVE  /\ Settles(n)
           /\ issued' \in Nat /\ deducted' \in Nat /\ rate' \in Nat /\ fails' \in Nat
<1>. USE DEF Counts
<1>0. PICK q \in Quotes : \/ Paid(n, q) /\ debt' = Monus(debt, n) /\ UNCHANGED fails
                          \/ NotPaid(n, q) /\ UNCHANGED debt
  BY DEF Emit
<1>1. CASE Paid(n, q) /\ debt' = Monus(debt, n) /\ UNCHANGED fails
  <2>1. debt' = debt - n /\ fresh' = fresh + n /\ owed' = owed - n - 0
    BY <1>1, MonusFact, PaidFact
  <2>2. Settles(n)
    BY <2>1 DEF Settles
  <2>. QED
    BY <1>1, <2>2, PaidFact
<1>2. CASE NotPaid(n, q) /\ UNCHANGED debt
  <2>1. \/ owed' = owed - 0 - 0
        \/ owed' = owed - 0 - n
    BY <1>2, PaidFact
  <2>2. debt' = debt - 0 /\ fresh' = fresh + 0
    BY <1>2, PaidFact
  <2>3. PICK m \in Nat : owed' = owed - 0 - m
    BY <2>1
  <2>4. Settles(n)
    BY <2>2, <2>3 DEF Settles
  <2>. QED
    BY <1>2, <2>4, PaidFact
<1>. QED
  BY <1>0, <1>1, <1>2

\* Mirror debt above the prepayment is part of the debt.
LEMMA UnpaidFact ==
    ASSUME Counts
    PROVE  /\ Unpaid \in Nat /\ Unpaid <= debt
           /\ Unpaid > 0 => Unpaid = debt - prepaid
           /\ Unpaid = 0 => debt <= prepaid
BY DEF Counts, Unpaid, Monus

\* A probe settles at most what the storer's books show.
LEMMA AcceptedFact ==
    ASSUME Counts
    PROVE  Accepted \in Nat /\ (Accepted = 0 => PeerLedger <= 0)
BY ExposureAssumption DEF Counts, Accepted, Min2, PeerLedger

\* A probe call is opened with nothing owed, whichever gate is used.
LEMMA InitIInv == Init => IInv
<1>. SUFFICES ASSUME Init PROVE IInv
  OBVIOUS
<1>1. Counts
  BY ExposureAssumption DEF Init, Counts
<1>4. Flags
  BY Zenon DEF Init, Flags
<1>2. threshold \in Nat /\ Ceiling(threshold) \in Nat
      /\ threshold \div 2 \in Nat /\ threshold \div 4 \in Nat
  BY CeilingRoom, ExposureAssumption DEF Init
<1>. QED
  BY <1>1, <1>2, <1>4, StopFact
  DEF Init, IInv, Idle, MirrorCovers, OnTime, Growing, Exposed,
      Projected, Owing, Books, SettledAtEnd, Fetching, PeerLedger, Ceiling

\* A cheque or prepayment leaves the flag of a risen rate a flag.
LEMMA PaidFlags ==
    ASSUME Flags, NEW n, NEW q, Paid(n, q) \/ NotPaid(n, q)
    PROVE  risen' \in BOOLEAN
<1>1. risen' \in {risen, risen \/ q > Rate}
  BY DEF Paid, NotPaid, quoteVars
<1>2. risen \in BOOLEAN
  BY DEF Flags
<1>. QED
  BY <1>1, <1>2, Zenon

LEMMA EmitFlags == ASSUME Flags, NEW n, Emit(n) PROVE risen' \in BOOLEAN
BY PaidFlags DEF Emit

-----------------------------------------------------------------------------
\* No step takes a stage or a flag out of its type.
LEMMA StepFlags == Flags /\ [Next]_vars => Flags'
<1>. SUFFICES ASSUME Flags, [Next]_vars PROVE Flags'
  OBVIOUS
<1>. USE DEF Flags, bookVars, quoteVars, chequeVars, windowVars, loopVars,
         boundVars
<1>1. CASE Spawn
  BY <1>1 DEF Spawn
<1>2. CASE Retrieved
  BY <1>2 DEF Retrieved
<1>3. CASE Stop
  BY <1>3 DEF Stop
<1>4. CASE Refresh
  BY <1>4 DEF Refresh
<1>5. CASE GrowthCheque
  BY <1>5, EmitFlags DEF GrowthCheque
<1>6. CASE CeilingCheque
  BY <1>6, EmitFlags DEF CeilingCheque
<1>7. CASE TopUp
  BY <1>7, PaidFlags DEF TopUp
<1>8. CASE PhaseEnd
  BY <1>8 DEF PhaseEnd
<1>9. CASE NextSample
  BY <1>9 DEF NextSample
<1>10. CASE Build
  BY <1>10 DEF Build
<1>11. CASE Sweep0
  BY <1>11, EmitFlags DEF Sweep0
<1>12. CASE Probe
  BY <1>12 DEF Probe
<1>13. CASE ProbeTimeout
  BY <1>13 DEF ProbeTimeout
<1>14. CASE Prepay
  BY <1>14, PaidFlags DEF Prepay
<1>15. CASE Waited
  BY <1>15 DEF Waited
<1>16. CASE Sweep
  BY <1>16, EmitFlags DEF Sweep
<1>17. CASE Confirm
  BY <1>17 DEF Confirm
<1>18. CASE Upgrade
  BY <1>18 DEF Upgrade
<1>19. CASE HangUp
  BY <1>19 DEF HangUp
<1>20. CASE Validate
  BY <1>20 DEF Validate
<1>21. CASE Expire
  BY <1>21 DEF Expire
<1>22. CASE UNCHANGED vars
  BY <1>22 DEF vars
<1>. QED
  BY <1>1, <1>2, <1>3, <1>4, <1>5, <1>6, <1>7, <1>8, <1>9, <1>10, <1>11, <1>12, <1>13, <1>14, <1>15, <1>16, <1>17, <1>18, <1>19, <1>20, <1>21, <1>22
  DEF Next, Cheque, Lambda, Closing, Ended

-----------------------------------------------------------------------------
\* The fetch phases: admission, completion, stop, refresh and drain.
LEMMA FetchBooks ==
    ASSUME Books, Flags', Spawn \/ Retrieved \/ Stop \/ Refresh \/ PhaseEnd
    PROVE  Books'
<1>. USE DEF Books, Counts, Idle, Fetching, MirrorCovers, OnTime, Growing, Exposed,
         PeerLedger, SettledAtEnd, bookVars, quoteVars, chequeVars, windowVars, loopVars,
         boundVars
<1>0. /\ Counts /\ Flags
      /\ Ceiling(threshold) \in Nat
      /\ threshold \div 2 \in Nat /\ threshold \div 4 \in Nat
      /\ threshold \div 2 + threshold \div 4 <= Ceiling(threshold)
  BY CeilingRoom
<1>1. CASE Spawn
  <2>1. Counts'
    BY <1>1 DEF Spawn
  <2>2. CASE user = "growth" /\ SpendWouldExceed
    BY <1>1, <2>1, <2>2 DEF Spawn
  <2>3. CASE ~(user = "growth" /\ SpendWouldExceed)
    <3>1. reserved' = reserved + 1 /\ Fetching
          /\ Admits(IF stage = "growth" THEN GrowthLimit ELSE CeilingLimit)
      BY <1>1, <2>3 DEF Spawn
    <3>2. CASE stage = "growth"
      <4>11. Counts' /\ Idle' /\ OnTime'
        BY <1>0, <1>1, <2>1, <3>1, <3>2 DEF Spawn, Admits, GrowthLimit
      <4>12. MirrorCovers' /\ SettledAtEnd'
        BY <1>0, <1>1, <2>1, <3>1, <3>2 DEF Spawn, Admits, GrowthLimit
      <4>13. Growing'
        BY <1>0, <1>1, <2>1, <3>1, <3>2 DEF Spawn, Admits, GrowthLimit
      <4>14. Exposed'
        BY <1>0, <1>1, <2>1, <3>1, <3>2 DEF Spawn, Admits, GrowthLimit
      <4>. QED
        BY <4>11, <4>12, <4>13, <4>14
    <3>3. CASE stage = "ceiling"
      <4>1. debt + reserved + 1 + fresh + seasoned <= prepaid + Ceiling(threshold)
        BY <1>0, <3>1, <3>3 DEF Admits, CeilingLimit, Monus, Ceiling
      <4>11. Counts' /\ Idle' /\ OnTime'
        BY <1>0, <1>1, <2>1, <3>1, <3>3, <4>1 DEF Spawn
      <4>12. MirrorCovers' /\ SettledAtEnd'
        BY <1>0, <1>1, <2>1, <3>1, <3>3, <4>1 DEF Spawn
      <4>13. Growing'
        BY <1>0, <1>1, <2>1, <3>1, <3>3, <4>1 DEF Spawn
      <4>14. Exposed'
        BY <1>0, <1>1, <2>1, <3>1, <3>3, <4>1 DEF Spawn
      <4>. QED
        BY <4>11, <4>12, <4>13, <4>14
    <3>. QED
      BY <3>1, <3>2, <3>3
  <2>. QED
    BY <2>2, <2>3
<1>2. CASE Retrieved
  <2>11. Counts' /\ Idle' /\ OnTime'
    BY <1>0, <1>2 DEF Retrieved
  <2>12. MirrorCovers' /\ SettledAtEnd'
    BY <1>0, <1>2 DEF Retrieved
  <2>13. Growing'
    BY <1>0, <1>2 DEF Retrieved
  <2>14. Exposed'
    BY <1>0, <1>2 DEF Retrieved
  <2>. QED
    BY <2>11, <2>12, <2>13, <2>14
<1>3. CASE Stop
  BY <1>0, <1>3 DEF Stop
<1>4. CASE Refresh
  <2>1. Unpaid > 0 => debt > prepaid
    BY <1>0, UnpaidFact
  <2>2. debt' = debt - 1 /\ debt' \in Nat
    BY <1>0, <1>4, <2>1 DEF Refresh, Monus
  <2>11. Counts' /\ Idle' /\ OnTime'
    BY <1>0, <1>4, <2>1, <2>2 DEF Refresh
  <2>12. MirrorCovers' /\ SettledAtEnd'
    BY <1>0, <1>4, <2>1, <2>2 DEF Refresh
  <2>13. Growing'
    BY <1>0, <1>4, <2>1, <2>2 DEF Refresh
  <2>14. Exposed'
    BY <1>0, <1>4, <2>1, <2>2 DEF Refresh
  <2>. QED
    BY <2>11, <2>12, <2>13, <2>14
<1>5. CASE PhaseEnd
  BY <1>0, <1>5 DEF PhaseEnd
<1>. QED
  BY <1>1, <1>2, <1>3, <1>4, <1>5

\* The cheques of the two phases and the top-ups of the scheduler.
LEMMA ChequeBooks == ASSUME Books, Flags', Cheque PROVE Books'
<1>. USE DEF Books, Counts, Idle, Fetching, MirrorCovers, OnTime, Growing, Exposed,
         PeerLedger, SettledAtEnd, bookVars, quoteVars, chequeVars, windowVars, loopVars,
         boundVars
<1>0. /\ Counts /\ Flags
      /\ Ceiling(threshold) \in Nat
      /\ threshold \div 2 \in Nat /\ threshold \div 4 \in Nat
      /\ threshold \div 2 + threshold \div 4 <= Ceiling(threshold)
  BY CeilingRoom
<1>1. CASE GrowthCheque
  <2>. DEFINE n == threshold \div 4
  <2>1. n \in Nat /\ n <= debt /\ Emit(n)
    BY <1>0, <1>1 DEF GrowthCheque
  <2>2. Settles(n) /\ issued' \in Nat /\ deducted' \in Nat /\ rate' \in Nat /\ fails' \in Nat
    BY <1>0, <2>1, EmitFact
  <2>3. PICK k, m \in Nat :
              /\ k \in {0, n} /\ k <= debt
              /\ debt' = debt - k /\ fresh' = fresh + k
              /\ owed' = owed - k - m
    BY <2>2 DEF Settles
  <2>4. /\ stage = "growth"
        /\ UNCHANGED <<stage, threshold, alive, reserved, prepaid, seasoned,
                       stale, known, loopVars, refreshes>>
    BY <1>1 DEF GrowthCheque
  <2>5. ~late' => ~late /\ ~(fresh + stale > 0)
    BY <1>1, Zenon DEF GrowthCheque
  <2>6. ~late' => ~late /\ fresh = 0 /\ stale = 0
    BY <1>0, <2>5
  <2>11. Counts' /\ Idle' /\ OnTime'
    BY <1>0, <2>1, <2>2, <2>3, <2>4, <2>6
  <2>12. MirrorCovers' /\ SettledAtEnd'
    BY <1>0, <2>1, <2>2, <2>3, <2>4, <2>6
  <2>13. Growing'
    BY <1>0, <2>1, <2>2, <2>3, <2>4, <2>6
  <2>14. Exposed'
    BY <1>0, <2>1, <2>2, <2>3, <2>4, <2>6
  <2>. QED
    BY <2>11, <2>12, <2>13, <2>14
<1>2. CASE CeilingCheque
  <2>. DEFINE n == Unpaid
  <2>1. n \in Nat /\ n <= debt /\ Emit(n)
    BY <1>0, <1>2, UnpaidFact DEF CeilingCheque
  <2>2. Settles(n) /\ issued' \in Nat /\ deducted' \in Nat /\ rate' \in Nat /\ fails' \in Nat
    BY <1>0, <2>1, EmitFact
  <2>. HIDE DEF n
  <2>3. PICK k, m \in Nat :
              /\ k \in {0, n} /\ k <= debt
              /\ debt' = debt - k /\ fresh' = fresh + k
              /\ owed' = owed - k - m
    BY <2>2 DEF Settles
  <2>4. /\ stage = "ceiling"
        /\ UNCHANGED <<stage, threshold, alive, reserved, prepaid, seasoned,
                       stale, known, late, loopVars, refreshes>>
    BY <1>2 DEF CeilingCheque
  <2>11. Counts' /\ Idle' /\ OnTime'
    BY <1>0, <2>1, <2>2, <2>3, <2>4
  <2>12. MirrorCovers' /\ SettledAtEnd'
    BY <1>0, <2>1, <2>2, <2>3, <2>4
  <2>13. Growing'
    BY <1>0, <2>1, <2>2, <2>3, <2>4
  <2>14. Exposed'
    BY <1>0, <2>1, <2>2, <2>3, <2>4
  <2>. QED
    BY <2>11, <2>12, <2>13, <2>14
<1>3. CASE TopUp
  <2>1. PICK n \in 1..Slice, q \in Quotes :
           \/ Paid(n, q) /\ prepaid' = prepaid + n /\ UNCHANGED fails
           \/ NotPaid(n, q) /\ UNCHANGED prepaid
    BY <1>3 DEF TopUp
  <2>2. n \in Nat
    BY ExposureAssumption
  <2>3. CASE Paid(n, q) /\ prepaid' = prepaid + n /\ UNCHANGED fails
    BY <1>0, <1>3, <2>2, <2>3, PaidFact DEF TopUp
  <2>4. CASE NotPaid(n, q) /\ UNCHANGED prepaid
    BY <1>0, <1>3, <2>2, <2>4, PaidFact DEF TopUp
  <2>. QED
    BY <2>1, <2>3, <2>4
<1>. QED
  BY <1>1, <1>2, <1>3 DEF Cheque

\* The latency samples: build-up, sweep, probes and timeout.
LEMMA LambdaBooks == ASSUME Books, Flags', Lambda PROVE Books'
<1>. USE DEF Books, Counts, Idle, Fetching, MirrorCovers, OnTime, Growing, Exposed,
         PeerLedger, SettledAtEnd, bookVars, quoteVars, chequeVars, windowVars, loopVars,
         boundVars
<1>0. /\ Counts /\ Flags
      /\ Ceiling(threshold) \in Nat
      /\ threshold \div 2 \in Nat /\ threshold \div 4 \in Nat
      /\ threshold \div 2 + threshold \div 4 <= Ceiling(threshold)
  BY CeilingRoom
<1>1. CASE NextSample
  BY <1>0, <1>1 DEF NextSample
<1>2. CASE Build
  <2>1. debt + 1 <= threshold \div 2
    BY <1>0, <1>2 DEF Build, Admits, GrowthLimit
  <2>11. Counts' /\ Idle' /\ OnTime'
    BY <1>0, <1>2, <2>1 DEF Build
  <2>12. MirrorCovers' /\ SettledAtEnd'
    BY <1>0, <1>2, <2>1 DEF Build
  <2>13. Growing'
    BY <1>0, <1>2, <2>1 DEF Build
  <2>14. Exposed'
    BY <1>0, <1>2, <2>1 DEF Build
  <2>. QED
    BY <2>11, <2>12, <2>13, <2>14
<1>3. CASE Sweep0
  <2>1. CASE ~alive \/ debt < MinSwept
    BY <1>0, <1>3, <2>1 DEF Sweep0
  <2>2. CASE ~(~alive \/ debt < MinSwept)
    <3>. DEFINE n == debt
    <3>1. n \in Nat /\ n <= debt /\ Emit(n)
      BY <1>0, <1>3, <2>2 DEF Sweep0
    <3>2. Settles(n) /\ issued' \in Nat /\ deducted' \in Nat /\ rate' \in Nat /\ fails' \in Nat
          /\ n = debt /\ debt > 0
      BY <1>0, <2>2, <3>1, EmitFact, ExposureAssumption
    <3>. HIDE DEF n
    <3>3. PICK k, m \in Nat :
              /\ k \in {0, n} /\ k <= debt
              /\ debt' = debt - k /\ fresh' = fresh + k
              /\ owed' = owed - k - m
      BY <3>2 DEF Settles
    <3>4. /\ stage = "build" /\ stage' = (IF debt' < debt THEN "probe" ELSE "next")
          /\ zeros' = 0
          /\ UNCHANGED <<threshold, alive, reserved, prepaid, seasoned, stale,
                         known, late, user, tries, samples, refreshes>>
      BY <1>3, <2>2 DEF Sweep0
    <3>11. Counts' /\ Idle' /\ OnTime'
      BY <1>0, <3>1, <3>2, <3>3, <3>4
    <3>12. MirrorCovers' /\ SettledAtEnd'
      BY <1>0, <3>1, <3>2, <3>3, <3>4
    <3>13. Growing'
      BY <1>0, <3>1, <3>2, <3>3, <3>4
    <3>14. Exposed'
      BY <1>0, <3>1, <3>2, <3>3, <3>4
    <3>. QED
      BY <3>11, <3>12, <3>13, <3>14
  <2>. QED
    BY <2>1, <2>2
<1>4. CASE Probe
  <2>1. Accepted \in Nat /\ (Accepted = 0 => PeerLedger <= 0)
    BY <1>0, AcceptedFact
  <2>11. Counts' /\ Idle' /\ OnTime'
    BY <1>0, <1>4, <2>1 DEF Probe
  <2>12. MirrorCovers' /\ SettledAtEnd'
    BY <1>0, <1>4, <2>1 DEF Probe
  <2>13. Growing'
    BY <1>0, <1>4, <2>1 DEF Probe
  <2>14. Exposed'
    BY <1>0, <1>4, <2>1 DEF Probe
  <2>. QED
    BY <2>11, <2>12, <2>13, <2>14
<1>5. CASE ProbeTimeout
  <2>1. ~late' => ~late /\ ~(fresh > 0)
    BY <1>5, Zenon DEF ProbeTimeout
  <2>2. /\ stage = "probe" /\ stage' = "next"
        /\ UNCHANGED <<threshold, alive, bookVars, fresh, seasoned, stale, known,
                       loopVars, boundVars>>
    BY <1>5 DEF ProbeTimeout
  <2>11. Counts' /\ Idle' /\ OnTime'
    BY <1>0, <2>1, <2>2
  <2>12. MirrorCovers' /\ SettledAtEnd'
    BY <1>0, <2>1, <2>2
  <2>13. Growing'
    BY <1>0, <2>1, <2>2
  <2>14. Exposed'
    BY <1>0, <2>1, <2>2
  <2>. QED
    BY <2>11, <2>12, <2>13, <2>14
<1>. QED
  BY <1>1, <1>2, <1>3, <1>4, <1>5 DEF Lambda

\* The prepayment, its wait, the final sweep and the confirmation.
LEMMA ClosingBooks == ASSUME Books, Flags', Closing PROVE Books'
<1>. USE DEF Books, Counts, Idle, Fetching, MirrorCovers, OnTime, Growing, Exposed,
         PeerLedger, SettledAtEnd, bookVars, quoteVars, chequeVars, windowVars, loopVars,
         boundVars
<1>0. /\ Counts /\ Flags
      /\ Ceiling(threshold) \in Nat
      /\ threshold \div 2 \in Nat /\ threshold \div 4 \in Nat
      /\ threshold \div 2 + threshold \div 4 <= Ceiling(threshold)
  BY CeilingRoom
<1>1. CASE Prepay
  <2>. DEFINE n == PrepayUnits
  <2>1. n \in Nat
    BY ExposureAssumption
  <2>2. /\ stage = "prepay" /\ stage' \in {"wait", "ceiling", "sweep"}
        /\ UNCHANGED <<threshold, alive, debt, reserved, seasoned, stale, known,
                       late, loopVars, refreshes>>
    BY <1>1 DEF Prepay
  <2>. HIDE DEF n
  <2>3. ASSUME NEW q \in Quotes, Paid(n, q), prepaid' = n, UNCHANGED fails
        PROVE  Books'
    <3>1. /\ issued' \in Nat /\ deducted' \in Nat /\ rate' \in Nat
          /\ fresh' = fresh + n /\ owed' = owed - n
      BY <1>0, <2>1, <2>3, PaidFact
    <3>11. Counts' /\ Idle' /\ OnTime'
      BY <1>0, <2>1, <2>2, <2>3, <3>1
    <3>12. MirrorCovers' /\ SettledAtEnd'
      BY <1>0, <2>1, <2>2, <2>3, <3>1
    <3>13. Growing'
      BY <1>0, <2>1, <2>2, <2>3, <3>1
    <3>14. Exposed'
      BY <1>0, <2>1, <2>2, <2>3, <3>1
    <3>. QED
      BY <3>11, <3>12, <3>13, <3>14
  <2>4. ASSUME NEW q \in Quotes, NotPaid(n, q), UNCHANGED prepaid
        PROVE  Books'
    <3>1. /\ issued' \in Nat /\ deducted' \in Nat /\ rate' \in Nat
          /\ fresh' = fresh /\ fails' \in Nat /\ owed' \in {owed, owed - n}
      BY <1>0, <2>1, <2>4, PaidFact
    <3>11. Counts' /\ Idle' /\ OnTime'
      BY <1>0, <2>1, <2>2, <2>4, <3>1
    <3>12. MirrorCovers' /\ SettledAtEnd'
      BY <1>0, <2>1, <2>2, <2>4, <3>1
    <3>13. Growing'
      BY <1>0, <2>1, <2>2, <2>4, <3>1
    <3>14. Exposed'
      BY <1>0, <2>1, <2>2, <2>4, <3>1
    <3>. QED
      BY <3>11, <3>12, <3>13, <3>14
  <2>5. CASE UNCHANGED <<prepaid, issued, deducted, quoteVars, owed, fresh, fails>>
    BY <1>0, <2>2, <2>5
  <2>. QED
    BY <1>1, <2>3, <2>4, <2>5 DEF Prepay, n
<1>2. CASE Waited
  <2>1. ~late' => ~late /\ ~(fresh > 0)
    BY <1>2, Zenon DEF Waited
  <2>2. /\ stage = "wait" /\ stage' \in {"ceiling", "sweep"}
        /\ fresh' = 0 /\ seasoned' = 0 /\ stale' = stale + fresh
        /\ UNCHANGED <<threshold, alive, bookVars, known, loopVars, boundVars>>
    BY <1>2 DEF Waited
  <2>11. Counts' /\ Idle' /\ OnTime'
    BY <1>0, <2>1, <2>2
  <2>12. MirrorCovers' /\ SettledAtEnd'
    BY <1>0, <2>1, <2>2
  <2>13. Growing'
    BY <1>0, <2>1, <2>2
  <2>14. Exposed'
    BY <1>0, <2>1, <2>2
  <2>. QED
    BY <2>11, <2>12, <2>13, <2>14
<1>3. CASE Sweep
  <2>1. CASE Unpaid = 0 \/ ~alive \/ tries = 3
    <3>1. Unpaid = 0 => debt <= prepaid
      BY <1>0, UnpaidFact
    <3>11. Counts' /\ Idle' /\ OnTime'
      BY <1>0, <1>3, <2>1, <3>1 DEF Sweep
    <3>12. MirrorCovers' /\ SettledAtEnd'
      BY <1>0, <1>3, <2>1, <3>1 DEF Sweep
    <3>13. Growing'
      BY <1>0, <1>3, <2>1, <3>1 DEF Sweep
    <3>14. Exposed'
      BY <1>0, <1>3, <2>1, <3>1 DEF Sweep
    <3>. QED
      BY <3>11, <3>12, <3>13, <3>14
  <2>2. CASE ~(Unpaid = 0 \/ ~alive \/ tries = 3)
    <3>. DEFINE n == Unpaid
    <3>1. n \in Nat /\ n <= debt /\ Emit(n)
      BY <1>0, <1>3, <2>2, UnpaidFact DEF Sweep
    <3>2. Settles(n) /\ issued' \in Nat /\ deducted' \in Nat /\ rate' \in Nat /\ fails' \in Nat
      BY <1>0, <3>1, EmitFact
    <3>. HIDE DEF n
    <3>3. PICK k, m \in Nat :
              /\ k \in {0, n} /\ k <= debt
              /\ debt' = debt - k /\ fresh' = fresh + k
              /\ owed' = owed - k - m
      BY <3>2 DEF Settles
    <3>4. /\ stage = "sweep" /\ tries' = tries + 1
          /\ UNCHANGED <<stage, threshold, alive, reserved, prepaid, seasoned,
                         stale, known, late, user, zeros, samples, refreshes>>
      BY <1>3, <2>2 DEF Sweep
    <3>11. Counts' /\ Idle' /\ OnTime'
      BY <1>0, <3>1, <3>2, <3>3, <3>4
    <3>12. MirrorCovers' /\ SettledAtEnd'
      BY <1>0, <3>1, <3>2, <3>3, <3>4
    <3>13. Growing'
      BY <1>0, <3>1, <3>2, <3>3, <3>4
    <3>14. Exposed'
      BY <1>0, <3>1, <3>2, <3>3, <3>4
    <3>. QED
      BY <3>11, <3>12, <3>13, <3>14
  <2>. QED
    BY <2>1, <2>2
<1>4. CASE Confirm
  <2>1. Accepted \in Nat
    BY <1>0, AcceptedFact
  <2>11. Counts' /\ Idle' /\ OnTime'
    BY <1>0, <1>4, <2>1 DEF Confirm
  <2>12. MirrorCovers' /\ SettledAtEnd'
    BY <1>0, <1>4, <2>1 DEF Confirm
  <2>13. Growing'
    BY <1>0, <1>4, <2>1 DEF Confirm
  <2>14. Exposed'
    BY <1>0, <1>4, <2>1 DEF Confirm
  <2>. QED
    BY <2>11, <2>12, <2>13, <2>14
<1>. QED
  BY <1>1, <1>2, <1>3, <1>4 DEF Closing

\* An upgrade of the threshold, as increments of the limits.
LEMMA CeilingStep ==
    ASSUME threshold \in Nat, threshold' = threshold + Step
    PROVE  \E a, b, c \in Nat : /\ Ceiling(threshold') = Ceiling(threshold) + a
                                /\ threshold' \div 2 = threshold \div 2 + b
                                /\ threshold' \div 4 = threshold \div 4 + c
<1>1. PICK t \in Nat : t = threshold
  OBVIOUS
<1>2. PICK a, b, c \in Nat : /\ Ceiling(t + Step) = Ceiling(t) + a
                             /\ (t + Step) \div 2 = t \div 2 + b
                             /\ (t + Step) \div 4 = t \div 4 + c
  BY CeilingGrows
<1>. WITNESS a \in Nat, b \in Nat, c \in Nat
<1>. QED
  BY <1>1, <1>2

\* The storer's upgrades and validations, a hang-up and the clock.
LEMMA StorerBooks ==
    ASSUME Books, Flags', Upgrade \/ HangUp \/ Validate \/ Expire
    PROVE  Books'
<1>. USE DEF Books, Counts, Idle, Fetching, MirrorCovers, OnTime, Growing, Exposed,
         PeerLedger, SettledAtEnd, bookVars, quoteVars, chequeVars, windowVars, loopVars,
         boundVars
<1>0. /\ Counts /\ Flags
      /\ Ceiling(threshold) \in Nat
      /\ threshold \div 2 \in Nat /\ threshold \div 4 \in Nat
      /\ threshold \div 2 + threshold \div 4 <= Ceiling(threshold)
  BY CeilingRoom
<1>1. CASE Upgrade
  <2>0. threshold' = threshold + Step /\ threshold' \in Nat
    BY <1>0, <1>1, ExposureAssumption DEF Upgrade
  <2>1. PICK a, b, c \in Nat : /\ Ceiling(threshold') = Ceiling(threshold) + a
                               /\ threshold' \div 2 = threshold \div 2 + b
                               /\ threshold' \div 4 = threshold \div 4 + c
    BY <1>0, <2>0, CeilingStep
  <2>2. UNCHANGED <<stage, alive, bookVars, windowVars, loopVars, boundVars>>
    BY <1>1 DEF Upgrade
  <2>11. Counts' /\ Idle' /\ OnTime'
    BY <1>0, <2>0, <2>1, <2>2
  <2>12. MirrorCovers' /\ SettledAtEnd'
    BY <1>0, <2>0, <2>1, <2>2
  <2>13. Growing'
    BY <1>0, <2>0, <2>1, <2>2
  <2>14. Exposed'
    BY <1>0, <2>0, <2>1, <2>2
  <2>. QED
    BY <2>11, <2>12, <2>13, <2>14
<1>2. CASE HangUp
  <2>11. Counts' /\ Idle' /\ OnTime'
    BY <1>0, <1>2 DEF HangUp
  <2>12. MirrorCovers' /\ SettledAtEnd'
    BY <1>0, <1>2 DEF HangUp
  <2>13. Growing'
    BY <1>0, <1>2 DEF HangUp
  <2>14. Exposed'
    BY <1>0, <1>2 DEF HangUp
  <2>. QED
    BY <2>11, <2>12, <2>13, <2>14
<1>3. CASE Validate
  <2>11. Counts' /\ Idle' /\ OnTime'
    BY <1>0, <1>3 DEF Validate
  <2>12. MirrorCovers' /\ SettledAtEnd'
    BY <1>0, <1>3 DEF Validate
  <2>13. Growing'
    BY <1>0, <1>3 DEF Validate
  <2>14. Exposed'
    BY <1>0, <1>3 DEF Validate
  <2>. QED
    BY <2>11, <2>12, <2>13, <2>14
<1>4. CASE Expire
  <2>11. Counts' /\ Idle' /\ OnTime'
    BY <1>0, <1>4 DEF Expire
  <2>12. MirrorCovers' /\ SettledAtEnd'
    BY <1>0, <1>4 DEF Expire
  <2>13. Growing'
    BY <1>0, <1>4 DEF Expire
  <2>14. Exposed'
    BY <1>0, <1>4 DEF Expire
  <2>. QED
    BY <2>11, <2>12, <2>13, <2>14
<1>. QED
  BY <1>1, <1>2, <1>3, <1>4

\* No step disturbs the books.
LEMMA StepBooks == ASSUME Books, [Next]_vars PROVE Books'
<1>1. Flags'
  BY StepFlags DEF Books
<1>2. CASE UNCHANGED vars
  BY <1>2
  DEF vars, Books, Counts, Flags, Idle, Fetching, MirrorCovers, OnTime, Growing,
      Exposed, PeerLedger, SettledAtEnd, bookVars, quoteVars, windowVars,
      loopVars, boundVars
<1>3. CASE Next
  BY <1>1, <1>2, <1>3, FetchBooks, ChequeBooks, LambdaBooks, ClosingBooks, StorerBooks
  DEF Next, Ended
<1>. QED
  BY <1>2, <1>3

-----------------------------------------------------------------------------
\* Of n + w units expected to cost R each, n were charged q and the others are
\* now expected to cost r: the sum does not grow.
LEMMA RatesFall ==
    \A n, w, q, r, R \in Nat :
        q <= R /\ r <= R => /\ n * q \in Nat /\ w * r \in Nat /\ (n + w) * R \in Nat
                           /\ n * q + w * r <= (n + w) * R
<1>. TAKE n, w, q, r, R \in Nat
<1>. HAVE q <= R /\ r <= R
<1>1. \A a, b, c \in Nat : a <= b => c * a \in Nat /\ c * b \in Nat /\ c * a <= c * b
  OBVIOUS
<1>2. n * q \in Nat /\ n * R \in Nat /\ n * q <= n * R
  BY <1>1
<1>3. w * r \in Nat /\ w * R \in Nat /\ w * r <= w * R
  BY <1>1
<1>4. (n + w) * R = n * R + w * R
  OBVIOUS
<1>. QED
  BY <1>2, <1>3, <1>4

\* The projection uses a rate.
LEMMA RateFact == ASSUME Counts PROVE Rate \in Nat
BY ExposureAssumption DEF Counts, Rate

\* Less owed at the same rate stays within the projection.
LEMMA LessProjected ==
    ASSUME Counts, Counts', Projected, UNCHANGED <<user, issued, deducted, rate, risen>>,
           Owing' <= Owing
    PROVE  Projected'
<1>. SUFFICES ASSUME user' = "growth", ~risen', Owing' > 0
              PROVE  issued' + Owing' * Rate' <= StopAt + deducted'
  BY Zenon DEF Projected, StopAt
<1>. DEFINE x == Owing
            y == Owing'
            R == Rate
<1>0. R \in Nat
  BY RateFact
<1>6. x \in Int /\ y \in Int
  BY DEF Counts, Owing
<1>1. x \in Int /\ y \in Int /\ y <= x /\ y > 0 /\ R \in Nat
  BY <1>0, <1>6
<1>2. issued + x * R <= StopAt + deducted
  BY <1>1 DEF Projected
<1>3. Rate' = R /\ issued' = issued /\ deducted' = deducted
  BY DEF Rate
<1>. HIDE DEF x, y, R
<1>4. PICK w \in Nat : x = y + w
  BY <1>1
<1>5. y \in Nat /\ y * R + w * R <= x * R /\ w * R \in Nat /\ y * R \in Nat /\ x * R \in Nat
  BY <1>1, <1>4, RatesFall
<1>. QED
  BY <1>2, <1>3, <1>5, StopFact DEF Counts, y

\* A chunk the projection admits.
LEMMA MoreProjected ==
    ASSUME Counts, Counts', ~SpendWouldExceed, UNCHANGED <<issued, deducted, rate>>,
           Owing' = Owing + 1
    PROVE  Projected'
<1>. SUFFICES ASSUME Owing' > 0
              PROVE  issued' + Owing' * Rate' <= StopAt + deducted'
  BY Zenon DEF Projected, StopAt
<1>. DEFINE y == Owing'
            R == Rate
<1>0. R \in Nat
  BY RateFact
<1>5. PICK a, b, c \in Nat : a = debt /\ b = reserved /\ c = prepaid
  BY DEF Counts
<1>6. y = (a + b) - c + 1 /\ y > 0
  BY <1>5 DEF Owing
<1>1. y \in Nat /\ R \in Nat /\ Monus(debt + reserved + 1, prepaid) = y
  BY <1>0, <1>5, <1>6 DEF Monus
<1>2. Rate' = R /\ issued' = issued /\ deducted' = deducted
  BY DEF Rate
<1>. HIDE DEF y, R
<1>3. y * R \in Nat
  BY <1>1
<1>4. issued + y * R <= StopAt
  BY <1>1, <1>3, StopFact DEF SpendWouldExceed, R, Counts
<1>. QED
  BY <1>2, <1>3, <1>4, StopFact DEF y, Counts

\* A cheque or prepayment that is paid moves cost from owed to spent.
LEMMA PaidProjected ==
    ASSUME Counts, Counts', Flags, Projected, NEW n \in Nat, NEW q \in Quotes,
           Paid(n, q), user' = user, Owing' = Owing - n
    PROVE  Projected'
<1>. SUFFICES ASSUME user' = "growth", ~risen', Owing' > 0
              PROVE  issued' + Owing' * Rate' <= StopAt + deducted'
  BY Zenon DEF Projected, StopAt
<1>1. q \in Nat \ {0}
  BY ExposureAssumption
<1>2. /\ rate' = (IF rate = 0 THEN q ELSE rate)
      /\ risen' = (risen \/ q > Rate)
  BY DEF Paid
<1>3. ~risen /\ ~(q > Rate)
  BY <1>2, Zenon
<1>. DEFINE w == Owing'
            R == Rate
            r == Rate'
            x == n * q
            c == Cost(n, q)
<1>0. R \in Nat /\ r \in Nat
  BY ExposureAssumption DEF Counts, Rate
<1>11. PICK o \in Int : o = Owing
  BY DEF Counts, Owing
<1>4. w \in Nat /\ R \in Nat /\ r \in Nat /\ Owing = n + w /\ Owing > 0
  BY <1>0, <1>11
<1>5. q <= R /\ r <= R
  BY <1>1, <1>2, <1>3, <1>4 DEF Rate
<1>6. issued + (n + w) * R <= StopAt + deducted
  BY <1>3, <1>4 DEF Projected
<1>7. issued' = issued + c /\ deducted' = deducted + c - x
  BY DEF Paid
<1>8. x \in Nat /\ c \in Nat
  BY <1>1, CostFact
<1>9. x + w * r <= (n + w) * R /\ w * r \in Nat /\ (n + w) * R \in Nat
  BY <1>1, <1>4, <1>5, RatesFall
<1>. HIDE DEF w, R, r, x, c
<1>10. issued' + w * r <= StopAt + deducted'
  BY <1>6, <1>7, <1>8, <1>9, StopFact DEF Counts
<1>. QED
  BY <1>10 DEF w, r

\* A cheque of any fate within the debt.
LEMMA EmitProjected ==
    ASSUME Counts, Counts', Flags, Projected, NEW n \in Nat, n <= debt, Emit(n),
           UNCHANGED <<user, reserved, prepaid>>
    PROVE  Projected'
<1>0. PICK q \in Quotes : \/ Paid(n, q) /\ debt' = Monus(debt, n) /\ UNCHANGED fails
                          \/ NotPaid(n, q) /\ UNCHANGED debt
  BY DEF Emit
<1>1. CASE Paid(n, q) /\ debt' = Monus(debt, n) /\ UNCHANGED fails
  <2>1. Owing' = Owing - n
    BY <1>1, MonusFact DEF Owing, Counts
  <2>. QED
    BY <1>1, <2>1, PaidProjected
<1>2. CASE NotPaid(n, q) /\ UNCHANGED debt
  <2>1. Owing' = Owing /\ Owing \in Int
    BY <1>2 DEF Owing, Counts
  <2>2. UNCHANGED <<user, issued, deducted, rate, risen>>
    BY <1>2 DEF NotPaid, quoteVars
  <2>. QED
    BY <2>1, <2>2, LessProjected
<1>. QED
  BY <1>0, <1>1, <1>2

\* No step takes the probe beyond its projection.
LEMMA StepProjected ==
    ASSUME Books, Books', Projected, [Next]_vars
    PROVE  Projected'
<1>. USE DEF bookVars, quoteVars, chequeVars, windowVars, loopVars, boundVars
<1>0. Counts /\ Counts' /\ Flags
  BY DEF Books
<1>1. ASSUME UNCHANGED <<user, issued, deducted, rate, risen, debt, reserved, prepaid>>
      PROVE  Projected'
  <2>1. Owing' = Owing /\ Owing \in Int
    BY <1>0, <1>1 DEF Owing, Counts
  <2>. QED
    BY <1>0, <1>1, <2>1, LessProjected
<1>2. CASE Spawn
  <2>1. CASE user = "growth" /\ SpendWouldExceed
    BY <1>1, <1>2, <2>1 DEF Spawn
  <2>2. CASE user = "growth" /\ ~SpendWouldExceed
    <3>1. Owing' = Owing + 1
      BY <1>0, <1>2, <2>2 DEF Spawn, Owing, Counts
    <3>. QED
      BY <1>0, <1>2, <2>2, <3>1, MoreProjected DEF Spawn
  <2>3. CASE user # "growth"
    BY <1>2, <2>3 DEF Spawn, Projected
  <2>. QED
    BY <2>1, <2>2, <2>3
<1>3. CASE Retrieved
  <2>2. reserved' = reserved - 1 /\ prepaid' = prepaid
    BY <1>3 DEF Retrieved
  <2>3. debt' = debt => Owing' <= Owing
    BY <1>0, <2>2 DEF Owing, Counts
  <2>4. debt' = debt + 1 => Owing' <= Owing
    BY <1>0, <2>2 DEF Owing, Counts
  <2>1. Owing' <= Owing
    BY <1>3, <2>3, <2>4 DEF Retrieved
  <2>. QED
    BY <1>0, <1>3, <2>1, LessProjected DEF Retrieved
<1>4. CASE Refresh
  <2>1. Owing' <= Owing
    BY <1>0, <1>4 DEF Refresh, Owing, Counts, Monus
  <2>. QED
    BY <1>0, <1>4, <2>1, LessProjected DEF Refresh
<1>5. CASE GrowthCheque
  <2>1. threshold \div 4 \in Nat /\ threshold \div 4 <= debt /\ Emit(threshold \div 4)
        /\ UNCHANGED <<user, reserved, prepaid>>
    BY <1>0, <1>5, CeilingRoom DEF GrowthCheque, Counts
  <2>. QED
    BY <1>0, <2>1, EmitProjected
<1>6. CASE CeilingCheque
  <2>1. Unpaid \in Nat /\ Unpaid <= debt /\ Emit(Unpaid)
        /\ UNCHANGED <<user, reserved, prepaid>>
    BY <1>0, <1>6, UnpaidFact DEF CeilingCheque
  <2>. QED
    BY <1>0, <2>1, EmitProjected
<1>7. CASE TopUp
  BY <1>7 DEF TopUp, Projected
<1>8. CASE Build
  <2>1. Owing' = Owing + 1
    BY <1>0, <1>8 DEF Build, Owing, Counts
  <2>. QED
    BY <1>0, <1>8, <2>1, MoreProjected DEF Build
<1>9. CASE Sweep0
  <2>1. CASE ~alive \/ debt < MinSwept
    BY <1>1, <1>9, <2>1 DEF Sweep0
  <2>2. CASE ~(~alive \/ debt < MinSwept)
    <3>1. debt \in Nat /\ debt <= debt /\ Emit(debt) /\ UNCHANGED <<user, reserved, prepaid>>
      BY <1>0, <1>9, <2>2 DEF Sweep0, Counts
    <3>. QED
      BY <1>0, <3>1, EmitProjected
  <2>. QED
    BY <2>1, <2>2
<1>10. CASE Prepay
  <2>1. prepaid = 0 /\ PrepayUnits \in Nat
    BY <1>10, ExposureAssumption DEF Books, Idle, Prepay
  <2>2. ASSUME NEW q \in Quotes, Paid(PrepayUnits, q), prepaid' = PrepayUnits
        PROVE  Projected'
    <3>1. Owing' = Owing - PrepayUnits
      BY <1>0, <1>10, <2>1, <2>2 DEF Prepay, Owing, Counts
    <3>. QED
      BY <1>0, <1>10, <2>1, <2>2, <3>1, PaidProjected DEF Prepay
  <2>3. ASSUME NEW q \in Quotes, NotPaid(PrepayUnits, q), UNCHANGED prepaid
        PROVE  Projected'
    BY <1>1, <1>10, <2>3 DEF Prepay, NotPaid
  <2>4. CASE UNCHANGED <<prepaid, issued, deducted, quoteVars, owed, fresh, fails>>
    BY <1>1, <1>10, <2>4 DEF Prepay
  <2>. QED
    BY <1>10, <2>2, <2>3, <2>4 DEF Prepay
<1>11. CASE Sweep
  <2>1. CASE Unpaid = 0 \/ ~alive \/ tries = 3
    BY <1>1, <1>11, <2>1 DEF Sweep
  <2>2. CASE ~(Unpaid = 0 \/ ~alive \/ tries = 3)
    <3>1. Unpaid \in Nat /\ Unpaid <= debt /\ Emit(Unpaid)
          /\ UNCHANGED <<user, reserved, prepaid>>
      BY <1>0, <1>11, <2>2, UnpaidFact DEF Sweep
    <3>. QED
      BY <1>0, <3>1, EmitProjected
  <2>. QED
    BY <2>1, <2>2
<1>12. CASE Stop \/ PhaseEnd \/ NextSample \/ Probe \/ ProbeTimeout
  BY <1>1, <1>12 DEF Stop, PhaseEnd, NextSample, Probe, ProbeTimeout
<1>13. CASE Waited \/ Confirm \/ Upgrade \/ HangUp \/ Validate \/ Expire
  BY <1>1, <1>13 DEF Waited, Confirm, Upgrade, HangUp, Validate, Expire
<1>14. CASE UNCHANGED vars
  BY <1>1, <1>14 DEF vars
<1>. QED
  BY <1>2, <1>3, <1>4, <1>5, <1>6, <1>7, <1>8, <1>9, <1>10, <1>11, <1>12, <1>13, <1>14
  DEF Next, Cheque, Lambda, Closing, Ended

\* No step disturbs the invariant.
LEMMA StepIInv == IInv /\ [Next]_vars => IInv'
BY StepBooks, StepProjected DEF IInv

\* The probe and the scheduler's connections keep the strengthened invariant.
LEMMA IInvAlways == Spec => []IInv
<1>. QED
  BY InitIInv, StepIInv, PTL DEF Spec

-----------------------------------------------------------------------------
\* Every field of the connection and the probe keeps its type; no unsigned
\* counter goes below zero.
THEOREM TypeCorrect == Spec => []TypeOK
<1>1. IInv => TypeOK
  BY TypeSplit DEF IInv, Books
<1>. QED
  BY <1>1, IInvAlways, PTL

\* The mirror never shows less than is owed beyond the prepayment.
THEOREM MirrorAlwaysCovers == Spec => []MirrorCovers
<1>1. IInv => MirrorCovers
  BY DEF IInv, Books
<1>. QED
  BY <1>1, IInvAlways, PTL

\* As long as no cheque outlives the window unvalidated, the storer's books
\* with everything in flight stay within the ceiling.
THEOREM ExposureAlwaysBounded == Spec => []ExposureBounded
<1>1. IInv => ExposureBounded
  BY DEF IInv, Books, Exposed, ExposureBounded, Ceiling
<1>. QED
  BY <1>1, IInvAlways, PTL

\* As long as no cheque was quoted above the rate of the projection and the
\* deductions fit the margin, the spend guard cannot refuse the probe's final
\* sweep at that rate or below, for every set of quotes and every default.
THEOREM SweepAlwaysAffordable == Spec => []SweepAffordable
<1>1. ASSUME IInv PROVE SweepAffordable
  <2>. SUFFICES ASSUME user = "growth", stage = "sweep", Unpaid > 0, ~risen,
                       NEW q \in Quotes, q <= Rate,
                       deducted + Cost(0, q) <= MaxIssue - StopAt
                PROVE  Affordable(Unpaid, q)
    BY Zenon DEF SweepAffordable
  <2>0. Counts /\ Flags /\ reserved = 0 /\ q \in Nat /\ Rate \in Nat
    BY <1>1, RateFact, ExposureAssumption DEF IInv, Books, Idle, Fetching
  <2>. DEFINE u == Unpaid
  <2>1. u \in Nat /\ u > 0 /\ Owing = u + 0
    BY <2>0, UnpaidFact DEF Counts, Owing
  <2>2. issued + Owing * Rate <= StopAt + deducted
    BY <1>1, <2>1 DEF IInv, Projected
  <2>3. u * q + 0 * 0 <= (u + 0) * Rate /\ u * q \in Nat /\ (u + 0) * Rate \in Nat
    BY <2>0, <2>1, RatesFall
  <2>4. Cost(0, q) \in Nat /\ Cost(u, q) = u * q + Cost(0, q)
    BY <2>0, <2>1, CostFact
  <2>. DEFINE x == u * q
              y == (u + 0) * Rate
              c == Cost(0, q)
  <2>5. /\ x \in Nat /\ y \in Nat /\ c \in Nat /\ x <= y
        /\ issued + y <= StopAt + deducted /\ deducted + c <= MaxIssue - StopAt
        /\ Cost(u, q) = x + c
    BY <2>1, <2>2, <2>3, <2>4
  <2>. HIDE DEF u, x, y, c
  <2>6. issued + Cost(u, q) <= MaxIssue
    BY <2>0, <2>5, StopFact, ExposureAssumption DEF Counts
  <2>. QED
    BY <2>6 DEF Affordable, u
<1>. QED
  BY <1>1, IInvAlways, PTL

\* A run that ends on a live connection within its sweep attempts owes
\* nothing.
THEOREM EndsSettled == Spec => []SettledAtEnd
<1>1. IInv => SettledAtEnd
  BY DEF IInv, Books
<1>. QED
  BY <1>1, IInvAlways, PTL
=============================================================================
