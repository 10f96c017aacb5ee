-------------------------- MODULE StorerProbeProofs --------------------------
(***************************************************************************)
(* Proofs about StorerProbe: for every list of prices, pipeline depth,     *)
(* threshold and refresh allowance, the mirror covers what is owed, the    *)
(* storer's books stay within half the threshold and what it has still to  *)
(* validate, the final sweep's residual is truthful, and neither unsigned  *)
(* counter wraps.  For the last, pending_cheque_units and the reservations *)
(* are sums over the open cheques and over the flying tasks; a sum is      *)
(* stated by its partial sums, which each step can exhibit anew.           *)
(***************************************************************************)
EXTENDS StorerProbe, TLAPS

\* The types the arithmetic below needs.
Typed ==
    /\ spawned \in Nat /\ waiting \subseteq Chunk /\ flying \subseteq Chunk
    /\ cap \in Nat /\ balance \in Nat /\ debt \in Nat /\ residual \in Nat
    /\ reserved \in Int /\ pending \in Int /\ owed \in Int
    /\ open \in Seq(Nat) /\ mid \in Nat /\ blur \in Nat /\ unval \in Nat
    /\ finishing \in BOOLEAN

\* Nothing is asked for and nothing paid before the handshake is over.
EarlyIdle ==
    phase \in Early => /\ balance = 0 /\ reserved = 0 /\ pc = "off"
                       /\ waiting = {} /\ flying = {} /\ finishing = FALSE

\* The reservations and the debt fit the cap.
CapRespected == balance + reserved <= cap

\* The final sweep begins when every retrieval was joined.
SweepQuiet ==
    /\ finishing => phase \in {"sweep", "bye"}
    /\ phase \in {"sweep", "bye"} => waiting = {} /\ flying = {}

\* What the sweep has read of the balance covers what is owed, before and
\* after the pending cheques were taken off.
SweepReads ==
    finishing =>
       /\ pc \in {"effective", "residual", "dead"} => debt >= owed + pending - mid
       /\ pc = "emit" => owed <= debt + blur
       /\ pc = "ended" => owed <= residual + blur

IInv == Typed /\ EarlyIdle /\ CapRespected /\ MirrorCovers /\ SweepQuiet /\ SweepReads

\* saturating_sub loses at most what is taken off and never grows.
LEMMA MonusFact ==
    \A a, b \in Nat : Monus(a, b) \in Nat /\ Monus(a, b) <= a /\ Monus(a, b) >= a - b
BY DEF Monus

\* The same with a pending counter only known to be an integer.
LEMMA MonusInt ==
    \A a \in Nat, b \in Int : Monus(a, b) \in Nat /\ Monus(a, b) >= a - b
BY DEF Monus

\* Prices are positive units.
LEMMA PriceNat == \A c \in Chunk : Price[c] \in Nat
BY ProbeAssumption DEF Chunk

\* Nothing is owed, asked for or paid when the probe is called.
LEMMA InitIInv == Init => IInv
<1>. SUFFICES ASSUME Init PROVE IInv
  OBVIOUS
<1>1. Typed
  <2>1. <<>> \in Seq(Nat) /\ 0 \in Nat /\ 0 \in Int
    OBVIOUS
  <2>. QED
    BY <2>1, Zenon DEF Init, Typed
<1>2. EarlyIdle /\ CapRespected /\ MirrorCovers
  BY DEF Init, EarlyIdle, CapRespected, MirrorCovers
<1>3. SweepQuiet /\ SweepReads
  BY DEF Init, SweepQuiet, SweepReads
<1>. QED
  BY <1>1, <1>2, <1>3 DEF IInv

\* Dial, identify, handshake and the spawning of the settlement task.
LEMMA ConnectIInv == IInv /\ Connect => IInv'
<1>. SUFFICES ASSUME IInv, Connect PROVE IInv'
  OBVIOUS
<1>. USE DEF IInv, Typed, EarlyIdle, CapRespected, MirrorCovers, SweepQuiet,
             SweepReads, Early, taskVars, mirrorVars, loopVars, chequeVars,
             boundVars
<1>1. CASE Established
  BY <1>1 DEF Established
<1>2. CASE Identified
  BY <1>2 DEF Identified, Give
<1>3. CASE Handshake
  BY <1>3 DEF Handshake
<1>4. CASE Start
  <2>1. cap' \in Nat
    BY <1>4, ProbeAssumption DEF Start, Announced
  <2>. QED
    BY <1>4, <2>1 DEF Start
<1>. QED
  BY <1>1, <1>2, <1>3, <1>4 DEF Connect

\* The retrieval tasks and their semaphore.
LEMMA TasksIInv ==
    IInv /\ (Spawn \/ (\E c \in Chunk : Task(c)) \/ Joined \/ Bye) => IInv'
<1>. SUFFICES ASSUME IInv, Spawn \/ (\E c \in Chunk : Task(c)) \/ Joined \/ Bye
              PROVE  IInv'
  OBVIOUS
<1>. USE DEF IInv, Typed, EarlyIdle, CapRespected, MirrorCovers, SweepQuiet,
             SweepReads, Early, taskVars, mirrorVars, loopVars, chequeVars,
             boundVars
<1>1. CASE Spawn
  <2>1. spawned' \in Chunk
    BY <1>1, ProbeAssumption DEF Spawn, Chunk
  <2>. QED
    BY <1>1, <2>1 DEF Spawn
<1>2. CASE \E c \in Chunk : Task(c)
  <2>1. PICK c \in Chunk : Task(c)
    BY <1>2
  <2>2. Price[c] \in Nat
    BY PriceNat
  <2>3. CASE Reserve(c)
    BY <2>2, <2>3 DEF Reserve
  <2>4. CASE Closed(c)
    BY <2>4 DEF Closed
  <2>5. CASE Retrieved(c)
    <3>1. phase \notin {"sweep", "bye"} /\ phase \notin Early /\ ~finishing
      BY <2>5 DEF Retrieved
    <3>2. CASE balance' = balance + Price[c] /\ owed' = owed + Price[c]
      <4>1. /\ Typed' /\ EarlyIdle' /\ SweepQuiet'
        BY <2>2, <2>5, <3>1, <3>2 DEF Retrieved
      <4>2. CapRespected' /\ MirrorCovers'
        BY <2>2, <2>5, <3>2 DEF Retrieved
      <4>3. SweepReads'
        BY <2>5, <3>1 DEF Retrieved
      <4>. QED
        BY <4>1, <4>2, <4>3
    <3>3. CASE UNCHANGED <<balance, owed>>
      BY <2>2, <2>5, <3>1, <3>3 DEF Retrieved
    <3>. QED
      BY <2>5, <3>2, <3>3 DEF Retrieved
  <2>. QED
    BY <2>1, <2>3, <2>4, <2>5 DEF Task
<1>3. CASE Joined
  BY <1>3 DEF Joined
<1>4. CASE Bye
  BY <1>4 DEF Bye
<1>. QED
  BY <1>1, <1>2, <1>3, <1>4

\* The settlement loop, its refreshes included.
LEMMA SettleIInv == IInv /\ (Refresh \/ Settle) => IInv'
<1>. SUFFICES ASSUME IInv, Refresh \/ Settle PROVE IInv'
  OBVIOUS
<1>. USE DEF IInv, Typed, EarlyIdle, CapRespected, MirrorCovers, SweepQuiet,
             SweepReads, Early, taskVars, mirrorVars, loopVars, chequeVars,
             boundVars, Goto, Forget
<1>1. CASE Refresh
  <2>1. PICK a \in 1..Allowance : balance' = Credited(a) /\ owed' = owed - a
    BY <1>1 DEF Refresh
  <2>2. a \in Nat
    BY ProbeAssumption
  <2>3. balance' \in Nat /\ balance' <= balance /\ balance' >= balance - a
    BY <2>1, <2>2, MonusFact DEF Credited
  <2>. QED
    BY <1>1, <2>1, <2>2, <2>3 DEF Refresh
<1>2. CASE Wake
  <2>1. debt' \in Nat /\ finishing' \in BOOLEAN
    BY <1>2 DEF Wake
  <2>2. CASE alive
    BY <1>2, <2>1, <2>2 DEF Wake
  <2>3. CASE ~alive
    BY <1>2, <2>1, <2>3 DEF Wake
  <2>. QED
    BY <2>2, <2>3
<1>3. CASE ReadDebt
  BY <1>3 DEF ReadDebt
<1>4. CASE AfterDebt
  <2>1. Effective \in Nat /\ Effective >= debt - pending
    BY MonusInt DEF Effective
  <2>2. CASE pc' = "emit" /\ debt' = Effective /\ blur' = mid
    BY <1>4, <2>1, <2>2 DEF AfterDebt
  <2>3. CASE pc' \in {"last", "wait"} /\ debt' = 0 /\ blur' = 0
    BY <1>4, <2>3 DEF AfterDebt
  <2>. QED
    BY <1>4, <2>2, <2>3 DEF AfterDebt, Cheque
<1>5. CASE Emitted
  <2>1. CASE finishing
    <3>1. balance' \in Nat /\ balance' <= balance /\ balance' >= balance - debt
      BY <1>5, <2>1, MonusFact DEF Emitted, Credited
    <3>. QED
      BY <1>5, <2>1, <3>1 DEF Emitted, Written
  <2>2. CASE ~finishing
    <3>1. open' \in Seq(Nat)
      BY <1>5, <2>2 DEF Emitted
    <3>. QED
      BY <1>5, <2>2, <3>1 DEF Emitted, Written
  <2>. QED
    BY <2>1, <2>2
<1>6. CASE EmitFailed
  BY <1>6 DEF EmitFailed, Written
<1>7. CASE ReadLast
  BY <1>7 DEF ReadLast
<1>8. CASE Residual
  <2>1. Effective \in Nat /\ Effective >= debt - pending
    BY MonusInt DEF Effective
  <2>. QED
    BY <1>8, <2>1 DEF Residual
<1>. QED
  BY <1>1, <1>2, <1>3, <1>4, <1>5, <1>6, <1>7, <1>8 DEF Settle

\* The detached credits, the storer's validation, a hang-up and the end.
LEMMA OthersIInv == IInv /\ (HangUp \/ Detached \/ Validate \/ Ended) => IInv'
<1>. SUFFICES ASSUME IInv, HangUp \/ Detached \/ Validate \/ Ended PROVE IInv'
  OBVIOUS
<1>. USE DEF IInv, Typed, EarlyIdle, CapRespected, MirrorCovers, SweepQuiet,
             SweepReads, Early, taskVars, mirrorVars, loopVars, chequeVars,
             boundVars
<1>1. CASE HangUp
  BY <1>1 DEF HangUp
<1>2. CASE CreditLater
  <2>1. Head(open) \in Nat /\ Tail(open) \in Seq(Nat)
    BY <1>2 DEF CreditLater
  <2>2. balance' \in Nat /\ balance' <= balance /\ balance' >= balance - mid'
    BY <1>2, <2>1, MonusFact DEF CreditLater, Credited
  <2>. QED
    BY <1>2, <2>1, <2>2 DEF CreditLater
<1>3. CASE Unpend
  BY <1>3 DEF Unpend
<1>4. CASE Validate
  BY <1>4 DEF Validate
<1>5. CASE Ended
  BY <1>5 DEF Ended, vars
<1>. QED
  BY <1>1, <1>2, <1>3, <1>4, <1>5 DEF Detached

\* No step of the probe disturbs the invariant.
LEMMA StepIInv == IInv /\ [Next]_vars => IInv'
<1>. SUFFICES ASSUME IInv, [Next]_vars PROVE IInv'
  OBVIOUS
<1>1. CASE Next
  BY <1>1, ConnectIInv, TasksIInv, SettleIInv, OthersIInv DEF Next
<1>2. CASE UNCHANGED vars
  BY <1>2
  DEF vars, IInv, Typed, EarlyIdle, CapRespected, MirrorCovers, SweepQuiet,
      SweepReads, Early, taskVars, mirrorVars, loopVars, chequeVars, boundVars
<1>. QED
  BY <1>1, <1>2

\* probe_storer and settlement_loop keep the strengthened invariant.
LEMMA IInvAlways == Spec => []IInv
<1>. QED
  BY InitIInv, StepIInv, PTL DEF Spec

\* The mirror the tasks reserve against never shows less than is owed once
\* every cheque under way is credited: the delayed credit of a cheque, the
\* direct credit of the final sweep and partial refreshes are each taken off
\* the balance at most once.
THEOREM MirrorAlwaysCovers == Spec => []MirrorCovers
<1>1. IInv => MirrorCovers
  BY DEF IInv
<1>. QED
  BY <1>1, IInvAlways, PTL

\* With every reserved chunk added, the storer's books exceed half of the
\* threshold at most by cheques credited here that it has yet to validate.
THEOREM PeakAlwaysBounded == Spec => []PeakBounded
<1>1. IInv => PeakBounded
  BY DEF IInv, Typed, CapRespected, MirrorCovers, PeakBounded, PeerLedger
<1>. QED
  BY <1>1, IInvAlways, PTL

\* The residual the final sweep reports, after an emission that failed, a
\* connection that died or a clean end, hides no more of the debt than one
\* detached credit caught between its two writes.
THEOREM ResidualAlwaysTruthful == Spec => []ResidualTruthful
<1>1. IInv => ResidualTruthful
  BY DEF IInv, SweepReads, ResidualTruthful
<1>. QED
  BY <1>1, IInvAlways, PTL

-----------------------------------------------------------------------------
(* Neither unsigned counter wraps.                                         *)

\* The fields no counter's argument is about.
Fields ==
    /\ phase \in Early \cup {"fetch", "sweep", "bye", "failed"}
    /\ linked \in BOOLEAN /\ alive \in BOOLEAN
    /\ pc \in {"off", "wait", "debt", "effective", "emit", "last", "residual",
              "dead", "ended"}
    /\ refreshes \in Nat /\ fails \in Nat

\* A task looks for room or has its reservation, and was spawned once.
TasksApart ==
    /\ waiting \cap flying = {}
    /\ \A c \in waiting \cup flying : c <= spawned

\* S[i] is what the first i chunks of those under way have reserved.
PartialSums(S, F) ==
    /\ S[0] = 0
    /\ \A i \in Chunk : S[i] = S[i - 1] + (IF i \in F THEN Price[i] ELSE 0)
    /\ \A i, j \in 0..Len(Price) : i <= j => S[i] <= S[j]

ReservedIsSum ==
    \E S \in [0..Len(Price) -> Nat] :
       PartialSums(S, flying) /\ reserved = S[Len(Price)]

\* Q[i] is what the open cheques from the i-th on add up to.
SuffixSums(Q, s) ==
    /\ Q[Len(s) + 1] = 0
    /\ \A i \in 1..Len(s) : Q[i] = s[i] + Q[i + 1]

PendingIsSum ==
    \E Q \in [1..(Len(open) + 1) -> Nat] :
       SuffixSums(Q, open) /\ pending = mid + Q[1]

Sums == Fields /\ TasksApart /\ ReservedIsSum /\ PendingIsSum

LEMMA LenPrice == Len(Price) \in Nat /\ Chunk \subseteq 0..Len(Price) /\ \A i \in Chunk : i - 1 \in 0..Len(Price)
BY ProbeAssumption DEF Chunk

\* A reservation more raises every partial sum from that chunk on.
LEMMA SumTaken ==
    ASSUME NEW S \in [0..Len(Price) -> Nat], NEW F, NEW c \in Chunk,
           PartialSums(S, F), c \notin F
    PROVE  \E T \in [0..Len(Price) -> Nat] :
              /\ PartialSums(T, F \cup {c})
              /\ T[Len(Price)] = S[Len(Price)] + Price[c]
<1> DEFINE T == [i \in 0..Len(Price) |-> IF i >= c THEN S[i] + Price[c] ELSE S[i]]
<1>1. Price[c] \in Nat /\ Len(Price) \in Nat /\ c \in 1..Len(Price)
  BY PriceNat, LenPrice DEF Chunk
<1>2. T \in [0..Len(Price) -> Nat]
  BY <1>1
<1>3. T[0] = 0
  BY <1>1 DEF PartialSums
<1>4. ASSUME NEW i \in Chunk
      PROVE  T[i] = T[i - 1] + (IF i \in F \cup {c} THEN Price[i] ELSE 0)
  <2>1. /\ i \in 0..Len(Price) /\ i - 1 \in 0..Len(Price) /\ Price[i] \in Nat
        /\ S[i] \in Nat /\ S[i - 1] \in Nat
        /\ S[i] = S[i - 1] + (IF i \in F THEN Price[i] ELSE 0)
    BY LenPrice, PriceNat DEF PartialSums
  <2>2. CASE i = c
    BY <1>1, <2>1, <2>2
  <2>3. CASE i > c
    BY <1>1, <2>1, <2>3
  <2>4. CASE i < c
    BY <1>1, <2>1, <2>4
  <2>. QED
    BY <1>1, <2>1, <2>2, <2>3, <2>4
<1>5. ASSUME NEW i \in 0..Len(Price), NEW j \in 0..Len(Price), i <= j
      PROVE  T[i] <= T[j]
  <2>1. S[i] \in Nat /\ S[j] \in Nat /\ S[i] <= S[j]
    BY <1>5 DEF PartialSums
  <2>. QED
    BY <1>1, <1>5, <2>1
<1>6. T[Len(Price)] = S[Len(Price)] + Price[c]
  BY <1>1
<1>7. PartialSums(T, F \cup {c})
  BY <1>3, <1>4, <1>5 DEF PartialSums
<1>. QED
  BY <1>2, <1>6, <1>7

\* A reservation less: the partial sums from that chunk on hold its price.
LEMMA SumGiven ==
    ASSUME NEW S \in [0..Len(Price) -> Nat], NEW F, NEW c \in Chunk,
           PartialSums(S, F), c \in F
    PROVE  \E T \in [0..Len(Price) -> Nat] :
              /\ PartialSums(T, F \ {c})
              /\ T[Len(Price)] = S[Len(Price)] - Price[c]
<1> DEFINE T == [i \in 0..Len(Price) |-> IF i >= c THEN S[i] - Price[c] ELSE S[i]]
<1>1. /\ Price[c] \in Nat /\ Len(Price) \in Nat /\ c \in 1..Len(Price)
      /\ c \in 0..Len(Price) /\ c - 1 \in 0..Len(Price)
  BY PriceNat, LenPrice DEF Chunk
<1>2. S[c] = S[c - 1] + Price[c] /\ S[c] \in Nat /\ S[c - 1] \in Nat
  BY <1>1 DEF PartialSums
<1>3. ASSUME NEW i \in 0..Len(Price), i >= c
      PROVE  S[i] - Price[c] >= S[c - 1] /\ S[i] - Price[c] \in Nat
  <2>1. S[i] \in Nat /\ S[c] <= S[i]
    BY <1>1, <1>3 DEF PartialSums
  <2>. QED
    BY <1>1, <1>2, <2>1
<1>4. T \in [0..Len(Price) -> Nat]
  BY <1>1, <1>3
<1>5. T[0] = 0
  BY <1>1 DEF PartialSums
<1>6. ASSUME NEW i \in Chunk
      PROVE  T[i] = T[i - 1] + (IF i \in F \ {c} THEN Price[i] ELSE 0)
  <2>1. /\ i \in 0..Len(Price) /\ i - 1 \in 0..Len(Price) /\ Price[i] \in Nat
        /\ S[i] \in Nat /\ S[i - 1] \in Nat
        /\ S[i] = S[i - 1] + (IF i \in F THEN Price[i] ELSE 0)
    BY LenPrice, PriceNat DEF PartialSums
  <2>2. CASE i = c
    BY <1>1, <1>2, <2>1, <2>2
  <2>3. CASE i > c
    BY <1>1, <2>1, <2>3
  <2>4. CASE i < c
    BY <1>1, <2>1, <2>4
  <2>. QED
    BY <1>1, <2>1, <2>2, <2>3, <2>4
<1>7. ASSUME NEW i \in 0..Len(Price), NEW j \in 0..Len(Price), i <= j
      PROVE  T[i] <= T[j]
  <2>1. S[i] \in Nat /\ S[j] \in Nat /\ S[i] <= S[j]
    BY <1>7 DEF PartialSums
  <2>2. ASSUME i < c PROVE S[i] <= S[c - 1]
    <3>1. i <= c - 1
      BY <1>1, <2>2
    <3>. QED
      BY <1>1, <3>1 DEF PartialSums
  <2>3. j >= c => S[j] - Price[c] >= S[c - 1]
    BY <1>3
  <2>4. CASE i >= c
    BY <1>1, <1>7, <2>1, <2>4
  <2>5. CASE i < c /\ j >= c
    BY <1>1, <1>2, <2>1, <2>2, <2>3, <2>5
  <2>6. CASE i < c /\ j < c
    BY <1>1, <2>1, <2>6
  <2>. QED
    BY <1>1, <2>4, <2>5, <2>6
<1>8. T[Len(Price)] = S[Len(Price)] - Price[c]
  BY <1>1
<1>9. PartialSums(T, F \ {c})
  BY <1>5, <1>6, <1>7 DEF PartialSums
<1>. QED
  BY <1>4, <1>8, <1>9

\* One cheque more is open.
LEMMA SumAppended ==
    ASSUME NEW s \in Seq(Nat), NEW d \in Nat,
           NEW Q \in [1..(Len(s) + 1) -> Nat], SuffixSums(Q, s)
    PROVE  \E R \in [1..(Len(Append(s, d)) + 1) -> Nat] :
              SuffixSums(R, Append(s, d)) /\ R[1] = Q[1] + d
<1> DEFINE n == Len(s)
           t == Append(s, d)
           R == [i \in 1..(n + 2) |-> IF i = n + 2 THEN 0 ELSE Q[i] + d]
<1>1. n \in Nat /\ t \in Seq(Nat) /\ Len(t) = n + 1 /\ t[n + 1] = d
  OBVIOUS
<1>2. \A i \in 1..n : t[i] = s[i] /\ s[i] \in Nat
  OBVIOUS
<1>3. R \in [1..(Len(t) + 1) -> Nat]
  BY <1>1
<1>4. R[Len(t) + 1] = 0 /\ R[1] = Q[1] + d
  BY <1>1
<1>5. ASSUME NEW i \in 1..Len(t) PROVE R[i] = t[i] + R[i + 1]
  <2>1. CASE i = n + 1
    <3>1. Q[i] = 0
      BY <2>1 DEF SuffixSums
    <3>. QED
      BY <1>1, <2>1, <3>1
  <2>2. CASE i # n + 1
    <3>1. i \in 1..n
      BY <1>1, <2>2
    <3>2. Q[i] = s[i] + Q[i + 1]
      BY <3>1 DEF SuffixSums
    <3>3. Q[i] \in Nat /\ Q[i + 1] \in Nat /\ i + 1 # n + 2 /\ i # n + 2
      BY <1>1, <3>1
    <3>. QED
      BY <1>1, <1>2, <3>1, <3>2, <3>3
  <2>. QED
    BY <2>1, <2>2
<1>6. SuffixSums(R, t)
  BY <1>4, <1>5 DEF SuffixSums
<1>. QED
  BY <1>3, <1>4, <1>6

\* The oldest open cheque is credited.
LEMMA SumTailed ==
    ASSUME NEW s \in Seq(Nat), s # <<>>,
           NEW Q \in [1..(Len(s) + 1) -> Nat], SuffixSums(Q, s)
    PROVE  \E R \in [1..(Len(Tail(s)) + 1) -> Nat] :
              SuffixSums(R, Tail(s)) /\ Q[1] = Head(s) + R[1]
<1> DEFINE n == Len(s)
           t == Tail(s)
           R == [i \in 1..n |-> Q[i + 1]]
<1>1. n \in Nat \ {0} /\ t \in Seq(Nat) /\ Len(t) = n - 1 /\ Head(s) = s[1]
  OBVIOUS
<1>2. \A i \in 1..Len(t) : t[i] = s[i + 1] /\ i + 1 \in 1..n
  BY <1>1
<1>3. R \in [1..(Len(t) + 1) -> Nat]
  BY <1>1
<1>4. R[Len(t) + 1] = 0
  BY <1>1 DEF SuffixSums
<1>5. Q[1] = Head(s) + R[1]
  BY <1>1 DEF SuffixSums
<1>6. ASSUME NEW i \in 1..Len(t) PROVE R[i] = t[i] + R[i + 1]
  <2>1. Q[i + 1] = s[i + 1] + Q[(i + 1) + 1]
    BY <1>2 DEF SuffixSums
  <2>. QED
    BY <1>1, <1>2, <2>1
<1>7. SuffixSums(R, t)
  BY <1>4, <1>6 DEF SuffixSums
<1>. QED
  BY <1>3, <1>5, <1>7

\* Nothing is reserved and no cheque is open when the probe is called.
LEMMA InitSums == Init => Sums
<1>. SUFFICES ASSUME Init PROVE Sums
  OBVIOUS
<1>1. Fields /\ TasksApart
  BY DEF Init, Fields, TasksApart, Early
<1>2. ReservedIsSum
  <2> DEFINE S == [i \in 0..Len(Price) |-> 0]
  <2>1. S \in [0..Len(Price) -> Nat] /\ S[Len(Price)] = 0
    BY LenPrice
  <2>2. PartialSums(S, {})
    BY LenPrice DEF PartialSums
  <2>. QED
    BY <2>1, <2>2 DEF Init, ReservedIsSum
<1>3. PendingIsSum
  <2> DEFINE Q == [i \in 1..1 |-> 0]
  <2>1. Q \in [1..(Len(<<>>) + 1) -> Nat] /\ SuffixSums(Q, <<>>) /\ Q[1] = 0
    BY DEF SuffixSums
  <2>. QED
    BY <2>1 DEF Init, PendingIsSum
<1>. QED
  BY <1>1, <1>2, <1>3 DEF Sums

\* Every step moves within the phases and counts.
LEMMA FieldsStep == Fields /\ [Next]_vars => Fields'
<1>. SUFFICES ASSUME Fields, [Next]_vars PROVE Fields'
  OBVIOUS
<1>. USE DEF Fields, Early, taskVars, mirrorVars, loopVars, chequeVars,
             boundVars, Goto
<1>1. CASE Connect
  BY <1>1 DEF Connect, Established, Identified, Give, Handshake, Start
<1>2. CASE HangUp \/ Spawn \/ Joined \/ Bye \/ Validate
  BY <1>2 DEF HangUp, Spawn, Joined, Bye, Validate
<1>3. CASE Refresh
  BY <1>3 DEF Refresh
<1>4. CASE Wake
  BY <1>4 DEF Wake
<1>5. CASE ReadDebt \/ AfterDebt \/ ReadLast
  BY <1>5 DEF ReadDebt, AfterDebt, Cheque, ReadLast
<1>6. CASE Emitted
  BY <1>6 DEF Emitted
<1>7. CASE EmitFailed
  BY <1>7 DEF EmitFailed
<1>8. CASE Residual
  BY <1>8 DEF Residual
<1>9. CASE \E c \in Chunk : Task(c)
  BY <1>9 DEF Task, Reserve, Closed, Retrieved
<1>10. CASE Detached
  BY <1>10 DEF Detached, CreditLater, Unpend
<1>11. CASE Ended \/ UNCHANGED vars
  BY <1>11 DEF Ended, vars
<1>. QED
  BY <1>1, <1>2, <1>3, <1>4, <1>5, <1>6, <1>7, <1>8, <1>9, <1>10, <1>11
  DEF Next, Settle

\* Only the tasks and their semaphore touch the reservations.
LEMMA ReservationsStep ==
    Typed /\ TasksApart /\ ReservedIsSum /\ [Next]_vars => TasksApart' /\ ReservedIsSum'
<1>. SUFFICES ASSUME Typed, TasksApart, ReservedIsSum, [Next]_vars
              PROVE  TasksApart' /\ ReservedIsSum'
  OBVIOUS
<1>1. PICK S \in [0..Len(Price) -> Nat] :
         PartialSums(S, flying) /\ reserved = S[Len(Price)]
  BY DEF ReservedIsSum
<1>2. ASSUME UNCHANGED <<taskVars, reserved>> PROVE TasksApart' /\ ReservedIsSum'
  BY <1>2 DEF TasksApart, ReservedIsSum, PartialSums, taskVars
<1>3. CASE Spawn
  <2>1. TasksApart'
    BY <1>3 DEF Spawn, TasksApart, Typed, Chunk
  <2>2. flying' = flying /\ reserved' = reserved
    BY <1>3 DEF Spawn, mirrorVars
  <2>. QED
    BY <2>1, <2>2 DEF ReservedIsSum, PartialSums
<1>4. ASSUME NEW c \in Chunk, Task(c) PROVE TasksApart' /\ ReservedIsSum'
  <2>1. CASE Reserve(c)
    <3>1. TasksApart'
      BY <2>1 DEF Reserve, TasksApart, Typed
    <3>2. c \notin flying
      BY <2>1 DEF Reserve, TasksApart
    <3>3. PICK T \in [0..Len(Price) -> Nat] :
             /\ PartialSums(T, flying \cup {c})
             /\ T[Len(Price)] = S[Len(Price)] + Price[c]
      BY <1>1, <3>2, SumTaken
    <3>4. flying' = flying \cup {c} /\ reserved' = reserved + Price[c]
      BY <2>1 DEF Reserve
    <3>5. PartialSums(T, flying') /\ reserved' = T[Len(Price)]
      BY <1>1, <3>3, <3>4
    <3>6. ReservedIsSum'
      BY <3>5 DEF ReservedIsSum, PartialSums
    <3>. QED
      BY <3>1, <3>6
  <2>2. CASE Closed(c)
    <3>1. TasksApart'
      BY <2>2 DEF Closed, TasksApart, Typed
    <3>2. flying' = flying /\ reserved' = reserved
      BY <2>2 DEF Closed, mirrorVars
    <3>. QED
      BY <3>1, <3>2 DEF ReservedIsSum, PartialSums
  <2>3. CASE Retrieved(c)
    <3>1. TasksApart'
      BY <2>3 DEF Retrieved, TasksApart, Typed
    <3>2. c \in flying
      BY <2>3 DEF Retrieved
    <3>3. PICK T \in [0..Len(Price) -> Nat] :
             /\ PartialSums(T, flying \ {c})
             /\ T[Len(Price)] = S[Len(Price)] - Price[c]
      BY <1>1, <3>2, SumGiven
    <3>4. flying' = flying \ {c} /\ reserved' = reserved - Price[c]
      BY <2>3 DEF Retrieved
    <3>5. PartialSums(T, flying') /\ reserved' = T[Len(Price)]
      BY <1>1, <3>3, <3>4
    <3>6. ReservedIsSum'
      BY <3>5 DEF ReservedIsSum, PartialSums
    <3>. QED
      BY <3>1, <3>6
  <2>. QED
    BY <1>4, <2>1, <2>2, <2>3 DEF Task
<1>5. CASE Connect
  BY <1>2, <1>5 DEF Connect, Established, Identified, Handshake, Start, mirrorVars
<1>6. CASE HangUp \/ Joined \/ Bye \/ Validate \/ Refresh
  BY <1>2, <1>6 DEF HangUp, Joined, Bye, Validate, Refresh, mirrorVars
<1>7. CASE Wake \/ ReadDebt \/ AfterDebt \/ ReadLast \/ Residual
  BY <1>2, <1>7 DEF Wake, ReadDebt, AfterDebt, ReadLast, Residual, mirrorVars
<1>8. CASE Emitted \/ EmitFailed \/ Detached
  BY <1>2, <1>8 DEF Emitted, EmitFailed, Detached, CreditLater, Unpend, mirrorVars
<1>9. CASE Ended \/ UNCHANGED vars
  BY <1>2, <1>9 DEF Ended, vars, mirrorVars
<1>. QED
  BY <1>3, <1>4, <1>5, <1>6, <1>7, <1>8, <1>9 DEF Next, Settle

\* Only an emission and the detached task touch the pending cheques.
LEMMA PendingStep == Typed /\ PendingIsSum /\ [Next]_vars => PendingIsSum'
<1>. SUFFICES ASSUME Typed, PendingIsSum, [Next]_vars PROVE PendingIsSum'
  OBVIOUS
<1>1. PICK Q \in [1..(Len(open) + 1) -> Nat] :
         SuffixSums(Q, open) /\ pending = mid + Q[1]
  BY DEF PendingIsSum
<1>2. open \in Seq(Nat) /\ mid \in Nat /\ debt \in Nat /\ Q[1] \in Nat
  BY DEF Typed
<1>3. ASSUME UNCHANGED <<pending, open, mid>> PROVE PendingIsSum'
  BY <1>3 DEF PendingIsSum, SuffixSums
<1>4. CASE Emitted
  <2>1. CASE finishing
    BY <1>3, <1>4, <2>1 DEF Emitted
  <2>2. CASE ~finishing
    <3>1. open' = Append(open, debt) /\ pending' = pending + debt /\ mid' = mid
      BY <1>4, <2>2 DEF Emitted
    <3>2. PICK R \in [1..(Len(Append(open, debt)) + 1) -> Nat] :
             SuffixSums(R, Append(open, debt)) /\ R[1] = Q[1] + debt
      BY <1>1, <1>2, SumAppended
    <3>3. pending' = mid' + R[1]
      BY <1>1, <1>2, <3>1, <3>2
    <3>4. R \in [1..(Len(open') + 1) -> Nat] /\ SuffixSums(R, open')
      BY <3>1, <3>2
    <3>. QED
      BY <3>3, <3>4 DEF PendingIsSum, SuffixSums
  <2>. QED
    BY <2>1, <2>2
<1>5. CASE CreditLater
  <2>1. /\ open # <<>> /\ mid = 0 /\ mid' = Head(open)
        /\ open' = Tail(open) /\ pending' = pending
    BY <1>5 DEF CreditLater
  <2>2. PICK R \in [1..(Len(Tail(open)) + 1) -> Nat] :
           SuffixSums(R, Tail(open)) /\ Q[1] = Head(open) + R[1]
    BY <1>1, <1>2, <2>1, SumTailed
  <2>3. pending' = mid' + R[1]
    BY <1>1, <1>2, <2>1, <2>2
  <2>4. R \in [1..(Len(open') + 1) -> Nat] /\ SuffixSums(R, open')
    BY <2>1, <2>2
  <2>. QED
    BY <2>3, <2>4 DEF PendingIsSum, SuffixSums
<1>6. CASE Unpend
  <2>1. pending' = mid' + Q[1] /\ open' = open
    BY <1>1, <1>2, <1>6 DEF Unpend
  <2>. QED
    BY <1>1, <2>1 DEF PendingIsSum, SuffixSums
<1>7. CASE Connect
  BY <1>3, <1>7 DEF Connect, Established, Identified, Handshake, Start, chequeVars
<1>8. CASE HangUp \/ Joined \/ Bye \/ Validate \/ Refresh \/ Spawn
  BY <1>3, <1>8 DEF HangUp, Joined, Bye, Validate, Refresh, Spawn, chequeVars
<1>9. CASE Wake \/ ReadDebt \/ AfterDebt \/ ReadLast \/ Residual \/ EmitFailed
  BY <1>3, <1>9
  DEF Wake, ReadDebt, AfterDebt, ReadLast, Residual, EmitFailed, chequeVars
<1>10. CASE \E c \in Chunk : Task(c)
  BY <1>3, <1>10 DEF Task, Reserve, Closed, Retrieved, chequeVars
<1>11. CASE Ended \/ UNCHANGED vars
  BY <1>3, <1>11 DEF Ended, vars, chequeVars
<1>. QED
  BY <1>4, <1>5, <1>6, <1>7, <1>8, <1>9, <1>10, <1>11 DEF Next, Settle, Detached

\* Neither unsigned counter of the probe wraps: pending_cheque_units is at
\* every moment what the detached tasks have still to take off, and the
\* reservations are what the tasks under way have still to give back.
THEOREM TypeCorrect == Spec => []TypeOK
<1>1. IInv /\ Sums /\ [Next]_vars => Sums'
  BY FieldsStep, ReservationsStep, PendingStep DEF Sums, IInv
<1>2. IInv /\ Sums => TypeOK
  <2>. SUFFICES ASSUME IInv, Sums PROVE TypeOK
    OBVIOUS
  <2>1. reserved \in Nat
    BY LenPrice DEF Sums, ReservedIsSum
  <2>2. pending \in Nat
    <3>1. PICK Q \in [1..(Len(open) + 1) -> Nat] : pending = mid + Q[1]
      BY DEF Sums, PendingIsSum
    <3>2. Q[1] \in Nat /\ mid \in Nat
      BY DEF IInv, Typed
    <3>. QED
      BY <3>1, <3>2
  <2>. QED
    BY <2>1, <2>2 DEF IInv, Typed, Sums, Fields, TypeOK
<1>. QED
  BY <1>1, <1>2, InitSums, IInvAlways, PTL DEF Spec
=============================================================================
