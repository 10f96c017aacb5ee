------------------------- MODULE ChequeEmissionProofs -------------------------
(***************************************************************************)
(* Invariance proofs for ChequeEmission, for any set of connections, any   *)
(* amount of work, any rates the peers quote and any number of failing     *)
(* streams: types; a cheque pays no more than is owed; the surplus a peer  *)
(* holds is bounded, whatever its refreshes accept; unless two emissions   *)
(* to one beneficiary overlap, the ledger never goes back and every cheque *)
(* exceeds the last one; the counter issued_plur leaks nothing; and what   *)
(* payees can cash is bounded by the spend cap.                            *)
(***************************************************************************)
EXTENDS ChequeEmission, FiniteSetTheorems, TLAPS

-----------------------------------------------------------------------------
(* Types.                                                                  *)

LEMMA MonusNat == \A a, b \in Nat : Monus(a, b) \in Nat
  BY DEF Monus

LEMMA SumNat == \A a, b \in Nat : a + b \in Nat
  OBVIOUS

LEMMA ProductNat == \A a, b \in Nat : a * b \in Nat
  OBVIOUS

LEMMA ProductPositive ==
    ASSUME NEW a \in Nat, NEW b \in Nat, a > 0, b > 0
    PROVE  a * b \in Nat /\ a * b > 0
  OBVIOUS

LEMMA ClampNat == \A n \in Nat : Clamp(n) \in 0..(Wrap - 1)
  BY EmissionAssumption DEF Clamp, Min2

LEMMA Modulo == \A n \in Nat : n % Wrap \in 0..(Wrap - 1)
  BY EmissionAssumption

\* The states of a connection whose emission is under way.
Emitting == {"open", "guard", "wire", "record"}

\* A reserved unit has its task; a finishing connection has no task; the
\* locals of an emission are live exactly while it runs.
Joined(c) ==
    /\ reserved[c] <= tasks[c]
    /\ c \in finishing => tasks[c] = 0
    /\ kind[c] # "none" <=> pc[c] \in Emitting

TypeInv == TypeOK /\ \A c \in Conn : Joined(c)

LEMMA TypeInit == Init => TypeInv
<1> SUFFICES ASSUME Init PROVE TypeInv
  OBVIOUS
<1>1. \A c \in Conn : Joined(c)
  BY DEF Init, Joined, Emitting
<1>2. prepaid \in [Conn -> Nat] /\ rate \in [Conn -> Nat]
  BY EmissionAssumption DEF Init
<1>3. issued \in 0..(Wrap - 1) /\ work \in Nat /\ tasks \in [Conn -> 0..Pipeline]
  BY EmissionAssumption DEF Init
<1>4. QED BY <1>1, <1>2, <1>3 DEF Init, TypeInv, TypeOK, Where

LEMMA QuoteType ==
    ASSUME TypeInv, NEW c \in Conn, NEW q \in Quotes
    PROVE  /\ q[1] \in Nat /\ q[2] \in Nat
           /\ units[c] * q[1] + q[2] \in Nat
           /\ (issued + Clamp(units[c] * q[1] + q[2])) % Wrap \in 0..(Wrap - 1)
<1>1. q[1] \in Nat /\ q[2] \in Nat
  BY EmissionAssumption
<1>2. units[c] * q[1] \in Nat
  BY <1>1, ProductNat DEF TypeInv, TypeOK
<1> DEFINE n == units[c] * q[1] + q[2]
<1>3. n \in Nat
  BY <1>1, <1>2
<1>4. issued + Clamp(n) \in Nat
  <2> HIDE DEF n
  <2>1. Clamp(n) \in 0..(Wrap - 1)
    BY <1>3, ClampNat
  <2>2. QED BY <2>1, EmissionAssumption DEF TypeInv, TypeOK
<1>5. QED BY <1>1, <1>3, <1>4, Modulo

LEMMA ReleaseType ==
    ASSUME TypeInv, NEW c \in Conn, Release(c)
    PROVE  issued' \in 0..(Wrap - 1)
<1>1. Clamp(plur[c]) \in 0..(Wrap - 1)
  BY ClampNat DEF TypeInv, TypeOK
<1>2. issued + Wrap - Clamp(plur[c]) \in Nat
  BY <1>1, EmissionAssumption DEF TypeInv, TypeOK
<1>3. QED BY <1>2, Modulo DEF Release

LEMMA TypeDrive ==
    ASSUME TypeInv, NEW c \in Conn, Drive(c) \/ Served(c)
    PROVE  TypeInv'
<1> USE EmissionAssumption
<1> USE DEF TypeInv, TypeOK, Joined, Emitting, Where, Goto, Begin, mirrorVars, loopVars,
            quoteVars, chequeVars, sharedVars
<1>1. CASE Start(c)
  BY <1>1 DEF Start
<1>2. CASE Top(c)
  BY <1>2 DEF Top
<1>3. CASE Admit(c)
  BY <1>3 DEF Admit
<1>4. CASE Refresh(c)
  <2>1. PICK n \in 1..debt[c] : /\ debt' = [debt EXCEPT ![c] = @ - n]
                                /\ accepted' = [accepted EXCEPT ![c] = @ + n]
    BY <1>4 DEF Refresh
  <2>2. debt' \in [Conn -> Nat] /\ accepted' \in [Conn -> Nat]
    BY <2>1
  <2>3. QED BY <1>4, <2>2 DEF Refresh, Reap
<1>5. CASE NoRefresh(c)
  BY <1>5 DEF NoRefresh, Reap
<1>6. CASE Settle(c)
  <2>1. Due(c) \in Nat /\ Desired(c) \in Nat
    BY DEF Due, Unpaid, Monus, Desired, Min2
  <2>2. Desired(c) > prepaid[c] + Slack => TopUp(c) \in Nat
    BY <2>1 DEF TopUp
  <2>3. QED BY <1>6, <2>1, <2>2 DEF Settle
<1>7. CASE Turn(c)
  BY <1>7 DEF Turn
<1>8. CASE Dead(c)
  BY <1>8 DEF Dead
<1>9. CASE Served(c)
  BY <1>9 DEF Served
<1>10. QED BY <1>1, <1>2, <1>3, <1>4, <1>5, <1>6, <1>7, <1>8, <1>9 DEF Drive

LEMMA TypeEmit ==
    ASSUME TypeInv, NEW c \in Conn, Emit(c)
    PROVE  TypeInv'
<1> USE EmissionAssumption
<1> USE DEF TypeInv, TypeOK, Joined, Emitting, Where, Goto, After, Forget, EmitFailed,
            mirrorVars, loopVars, quoteVars, chequeVars, sharedVars
<1>1. CASE NoQuote(c)
  BY <1>1 DEF NoQuote
<1>2. ASSUME NEW q \in Quotes, Quote(c, q) PROVE TypeInv'
  BY <1>2, QuoteType DEF Quote
<1>3. CASE Refuse(c)
  BY <1>3, ReleaseType DEF Refuse
<1>4. CASE Unbacked(c)
  BY <1>4, ReleaseType DEF Unbacked
<1>5. CASE Sign(c)
  BY <1>5 DEF Sign
<1>6. CASE WireOk(c)
  BY <1>6 DEF WireOk, Deliver
<1>7. CASE WireErr(c)
  BY <1>7, ReleaseType DEF WireErr, Deliver
<1>8. CASE Record(c)
  BY <1>8 DEF Record, RecordIssued, Credit, Monus
<1>9. QED BY <1>1, <1>2, <1>3, <1>4, <1>5, <1>6, <1>7, <1>8 DEF Emit

LEMMA TypeNext == TypeInv /\ [Next]_vars => TypeInv'
<1> SUFFICES ASSUME TypeInv, [Next]_vars PROVE TypeInv'
  OBVIOUS
<1>1. CASE WindDown
  BY <1>1 DEF WindDown, TypeInv, TypeOK, Joined, mirrorVars, loopVars, quoteVars, chequeVars
<1>2. CASE UNCHANGED vars
  BY <1>2 DEF vars, sharedVars, TypeInv, TypeOK, Joined, mirrorVars, loopVars, quoteVars,
              chequeVars
<1>3. QED BY <1>1, <1>2, TypeDrive, TypeEmit DEF Next, Done

\* Every reachable state is well typed, whatever peers quote and streams do;
\* issued_plur stays in its word and no retrieval is left on a connection
\* that closed (schedule.rs drive, direct.rs emit_settlement_cheque).
THEOREM TypeCorrect == Spec => []TypeOK
<1>1. Spec => []TypeInv
  BY TypeInit, TypeNext, PTL DEF Spec
<1>2. TypeInv => TypeOK
  BY DEF TypeInv
<1>3. QED BY <1>1, <1>2, PTL

-----------------------------------------------------------------------------
(* What is paid, against what is owed.                                     *)

\* The amount of an emission under way still fits the connection's books: a
\* cheque is covered by the debt, a prepayment ends at most one slice above
\* the debt or the surplus it started from.
Fits(c) ==
    /\ kind[c] = "first" => units[c] > 0 /\ prepaid[c] + units[c] <= Surplus + Slice
    /\ kind[c] = "topup" => units[c] > 0 /\ prepaid[c] + units[c] <= debt[c] + Slice
    /\ kind[c] = "cheque" => units[c] > 0 /\ units[c] <= Unpaid(c)

\* What the peer holds beyond what it served.
Bounded(c) ==
    LET surplus == Monus(prepaid[c], debt[c] + accepted[c])
    IN surplus <= Surplus + Slice \/ surplus <= Parked[c]

PayInv == \A c \in Conn : Fits(c) /\ Bounded(c)

LEMMA PayInit == Init => PayInv
  BY EmissionAssumption DEF Init, PayInv, Fits, Bounded, Monus

\* The books of a connection that takes no step stay as they are.
LEMMA PayFrame ==
    ASSUME PayInv, NEW d \in Conn,
           kind'[d] = kind[d], units'[d] = units[d],
           debt'[d] = debt[d], prepaid'[d] = prepaid[d], accepted'[d] = accepted[d]
    PROVE  Fits(d)' /\ Bounded(d)'
  BY DEF PayInv, Fits, Bounded, Unpaid

LEMMA PayDrive ==
    ASSUME TypeInv, PayInv, Trigger > 0, NEW c \in Conn, Drive(c) \/ Served(c)
    PROVE  PayInv'
<1> SUFFICES ASSUME NEW d \in Conn PROVE Fits(d)' /\ Bounded(d)'
  BY DEF PayInv
<1> USE EmissionAssumption
<1> USE DEF mirrorVars, loopVars, quoteVars, chequeVars, sharedVars
<1>0. /\ kind[d] \in {"none", "first", "topup", "cheque"}
      /\ debt \in [Conn -> Nat] /\ prepaid \in [Conn -> Nat] /\ units \in [Conn -> Nat]
      /\ accepted \in [Conn -> Nat]
      /\ kind \in [Conn -> {"none", "first", "topup", "cheque"}]
      /\ work \in Nat /\ tasks[c] \in Nat /\ reserved[c] \in Nat
      /\ kind[c] # "none" => pc[c] \in Emitting
  BY DEF TypeInv, TypeOK, Joined
<1>1. CASE Start(c)
  <2>1. CASE d = c /\ Prepay /\ prepaid[c] < Surplus
    BY <1>0, <1>1, <2>1 DEF Start, Begin, Fits, Bounded, PayInv, Unpaid
  <2>2. CASE ~(d = c /\ Prepay /\ prepaid[c] < Surplus)
    BY <1>0, <1>1, <2>2, PayFrame DEF Start, Begin
  <2>3. QED BY <2>1, <2>2
<1>2. CASE Top(c)
  BY <1>2, PayFrame DEF Top
<1>3. CASE Admit(c)
  BY <1>3, PayFrame DEF Admit
<1>4. CASE Refresh(c)
  <2>1. CASE d = c
    <3>1. kind[c] = "none"
      BY <1>0, <1>4 DEF Refresh, Emitting
    <3>2. PICK n \in 1..debt[c] : /\ debt' = [debt EXCEPT ![c] = @ - n]
                                  /\ accepted' = [accepted EXCEPT ![c] = @ + n]
      BY <1>4 DEF Refresh
    <3>3. debt'[c] + accepted'[c] = debt[c] + accepted[c]
      BY <1>0, <3>2
    <3>4. kind' = kind /\ prepaid' = prepaid
      BY <1>4 DEF Refresh
    <3>5. Bounded(c)
      BY DEF PayInv
    <3>6. QED BY <2>1, <3>1, <3>3, <3>4, <3>5 DEF Fits, Bounded
  <2>2. CASE d # c
    BY <1>0, <1>4, <2>2, PayFrame DEF Refresh
  <2>3. QED BY <2>1, <2>2
<1>5. CASE NoRefresh(c)
  BY <1>5, PayFrame DEF NoRefresh
<1>6. CASE Settle(c)
  <2>1. prepaid' = prepaid /\ debt' = debt /\ accepted' = accepted
    BY <1>6 DEF Settle
  <2>2. CASE d = c /\ Desired(c) > prepaid[c] + Slack /\ Begin(c, "topup", TopUp(c))
    <3>1. kind'[c] = "topup" /\ units'[c] = TopUp(c)
      BY <1>0, <2>2 DEF Begin
    <3>2. /\ Desired(c) \in Nat /\ Desired(c) <= debt[c] + Slice
          /\ TopUp(c) > 0 /\ prepaid[c] + TopUp(c) = Desired(c)
      BY <1>0, <2>2 DEF Desired, Min2, TopUp
    <3>3. QED BY <2>1, <2>2, <3>1, <3>2 DEF Fits, Bounded, PayInv
  <2>3. CASE /\ d = c /\ Begin(c, "cheque", Due(c))
             /\ IF c \in finishing \cup halted THEN Unpaid(c) > 0 ELSE Unpaid(c) >= Trigger
    <3>1. kind'[c] = "cheque" /\ units'[c] = Unpaid(c)
      BY <1>0, <2>3 DEF Begin, Due
    <3>2. Unpaid(c) > 0 /\ Unpaid(c) \in Nat
      BY <1>0, <2>3 DEF Unpaid, Monus
    <3>3. QED BY <2>1, <2>3, <3>1, <3>2 DEF Fits, Bounded, PayInv, Unpaid
  <2>4. CASE d # c \/ UNCHANGED <<kind, units>>
    BY <1>0, <1>6, <2>1, <2>4, PayFrame DEF Settle, Begin
  <2>5. QED BY <1>6, <2>2, <2>3, <2>4 DEF Settle
<1>7. CASE Turn(c)
  BY <1>7, PayFrame DEF Turn
<1>8. CASE Dead(c)
  BY <1>8, PayFrame DEF Dead
<1>9. CASE Served(c)
  BY <1>0, <1>9 DEF Served, PayInv, Fits, Bounded, Unpaid, Monus
<1>10. QED BY <1>1, <1>2, <1>3, <1>4, <1>5, <1>6, <1>7, <1>8, <1>9 DEF Drive

LEMMA PayEmit ==
    ASSUME TypeInv, PayInv, NEW c \in Conn, Emit(c)
    PROVE  PayInv'
<1> SUFFICES ASSUME NEW d \in Conn PROVE Fits(d)' /\ Bounded(d)'
  BY DEF PayInv
<1> USE EmissionAssumption
<1> USE DEF mirrorVars, loopVars, quoteVars, chequeVars, sharedVars
<1>0. /\ debt \in [Conn -> Nat] /\ prepaid \in [Conn -> Nat] /\ units \in [Conn -> Nat]
      /\ accepted \in [Conn -> Nat]
      /\ kind \in [Conn -> {"none", "first", "topup", "cheque"}]
      /\ kind[c] # "none" <=> pc[c] \in Emitting
  BY DEF TypeInv, TypeOK, Joined
<1>1. ASSUME Forget(c), debt' = debt, prepaid' = prepaid, accepted' = accepted
      PROVE  Fits(d)' /\ Bounded(d)'
  <2>1. CASE d = c
    BY <1>0, <1>1, <2>1 DEF Forget, Fits, Bounded, PayInv
  <2>2. CASE d # c
    BY <1>0, <1>1, <2>2, PayFrame DEF Forget
  <2>3. QED BY <2>1, <2>2
<1>2. CASE NoQuote(c)
  BY <1>1, <1>2 DEF NoQuote, EmitFailed
<1>3. ASSUME NEW q \in Quotes, Quote(c, q) PROVE Fits(d)' /\ Bounded(d)'
  BY <1>3, PayFrame DEF Quote
<1>4. CASE Refuse(c)
  BY <1>1, <1>4 DEF Refuse, EmitFailed
<1>5. CASE Unbacked(c)
  BY <1>1, <1>5 DEF Unbacked, EmitFailed
<1>6. CASE Sign(c)
  BY <1>6, PayFrame DEF Sign
<1>7. CASE WireOk(c)
  BY <1>7, PayFrame DEF WireOk
<1>8. CASE WireErr(c)
  BY <1>1, <1>8 DEF WireErr, EmitFailed
<1>9. CASE Record(c)
  <2>1. CASE d = c
    <3>1. kind'[c] = "none"
      BY <1>0, <1>9 DEF Record, Forget
    <3>2. kind[c] # "none"
      BY <1>0, <1>9 DEF Record, Emitting
    <3>3. Bounded(c)'
      BY <1>0, <1>9, <3>2 DEF Record, Credit, PayInv, Fits, Bounded, Unpaid, Monus
    <3>4. QED BY <2>1, <3>1, <3>3 DEF Fits
  <2>2. CASE d # c
    BY <1>0, <1>9, <2>2, PayFrame DEF Record, Credit, Forget
  <2>3. QED BY <2>1, <2>2
<1>10. QED BY <1>2, <1>3, <1>4, <1>5, <1>6, <1>7, <1>8, <1>9 DEF Emit

LEMMA PayNext == Trigger > 0 /\ TypeInv /\ PayInv /\ [Next]_vars => PayInv'
<1> SUFFICES ASSUME Trigger > 0, TypeInv, PayInv, [Next]_vars PROVE PayInv'
  OBVIOUS
<1>1. CASE WindDown
  BY <1>1 DEF WindDown, PayInv, Fits, Bounded, Unpaid, mirrorVars, chequeVars
<1>2. CASE UNCHANGED vars
  BY <1>2 DEF vars, PayInv, Fits, Bounded, Unpaid, sharedVars, mirrorVars, chequeVars
<1>3. QED BY <1>1, <1>2, PayDrive, PayEmit DEF Next, Done

LEMMA PayAlways == Trigger > 0 /\ Spec => [](TypeInv /\ PayInv)
<1>1. TypeInv /\ PayInv /\ Trigger > 0 /\ [Next]_vars => (TypeInv /\ PayInv)'
  BY TypeNext, PayNext
<1>2. Init => TypeInv /\ PayInv
  BY TypeInit, PayInit
<1>3. SUFFICES ASSUME Trigger > 0 PROVE Spec => [](TypeInv /\ PayInv)
  OBVIOUS
<1>4. TypeInv /\ PayInv /\ [Next]_vars => (TypeInv /\ PayInv)'
  BY <1>1, <1>3
<1>5. QED BY <1>2, <1>4, PTL DEF Spec

\* A cheque never pays more than is owed and never pays nothing, however
\* retrievals, refreshes and other connections interleave with its stream
\* (schedule.rs emit), for thresholds of at least five units, whose fifth is
\* not zero.
THEOREM ChequeCovered == Trigger > 0 /\ Spec => []CreditExact
<1>1. TypeInv /\ PayInv => CreditExact
  BY DEF PayInv, Fits, CreditExact
<1>2. QED BY <1>1, PayAlways, PTL

\* What a peer holds beyond what it served is at most one slice over the
\* surplus it started with, whatever its refreshes accept (schedule.rs drive,
\* refresh and emit_prepay).
THEOREM SurplusBounded == Trigger > 0 /\ Spec => []PrepayBounded
<1>1. TypeInv /\ PayInv => PrepayBounded
  BY DEF PayInv, Bounded, PrepayBounded
<1>2. QED BY <1>1, PayAlways, PTL

-----------------------------------------------------------------------------
(* The ledger, unless two emissions to one beneficiary overlap.            *)

Reserving == {"guard", "wire"}
Sending == {"wire", "record"}

\* As long as no emissions to its beneficiary crossed, a connection that has
\* signed is alone with it, and its cheque adds its amount to what the ledger
\* has.
OnTop(c) ==
    (pc[c] \in Sending /\ BenOf[c] \notin crossed) =>
        /\ newCum[c] = cum[BenOf[c]] + plur[c]
        /\ \A d \in Conn : (BenOf[d] = BenOf[c] /\ pc[d] \in Sending) => d = c

\* A cheque is for something.
Positive(c) == pc[c] \in {"guard", "wire", "record"} => plur[c] > 0

\* A connection about to record what its beneficiary has.
Covers(c, b) == BenOf[c] = b /\ pc[c] = "record" /\ held[b] <= newCum[c]

\* The beneficiary has at most what is recorded or about to be, unless a
\* stream to it failed late.
Known(b) ==
    b \notin ambiguous \cup crossed =>
        held[b] <= cum[b] \/ \E c \in Conn : Covers(c, b)

LedgerInv == \A c \in Conn : OnTop(c)
KnownInv == (\A c \in Conn : Positive(c)) /\ (\A b \in Ben : Known(b))

LEMMA LedgerInit == Init => LedgerInv /\ KnownInv
  BY DEF Init, LedgerInv, KnownInv, OnTop, Positive, Known, Sending

\* What a step that neither signs, sends nor records leaves as it was.
LEMMA LedgerFrame ==
    ASSUME TypeInv, LedgerInv, KnownInv, NEW c \in Conn,
           UNCHANGED <<cum, held, crossed, ambiguous>>,
           pc'[c] = pc[c] \/ {pc[c], pc'[c]} \cap Sending = {},
           \A d \in Conn \ {c} : pc'[d] = pc[d],
           \A d \in Conn : pc[d] \in Sending => newCum'[d] = newCum[d] /\ plur'[d] = plur[d],
           \A d \in Conn : Positive(d)'
    PROVE  LedgerInv' /\ KnownInv'
<1>1. \A d \in Conn : pc'[d] \in Sending => pc[d] \in Sending /\ pc'[d] = pc[d]
  OBVIOUS
<1>2. \A d \in Conn : pc[d] \in Sending => pc'[d] = pc[d]
  OBVIOUS
<1>3. LedgerInv'
  BY <1>1 DEF LedgerInv, OnTop
<1>4. ASSUME NEW b \in Ben PROVE Known(b)'
  <2>1. Known(b)
    BY DEF KnownInv
  <2>2. \A d \in Conn : Covers(d, b) => Covers(d, b)'
    BY <1>2 DEF Covers, Sending
  <2>3. QED BY <2>1, <2>2 DEF Known
<1>5. QED BY <1>3, <1>4 DEF KnownInv

LEMMA LedgerDrive ==
    ASSUME TypeInv, LedgerInv, KnownInv, NEW c \in Conn, Drive(c) \/ Served(c)
    PROVE  LedgerInv' /\ KnownInv'
<1>1. UNCHANGED <<newCum, plur, cum, held, ambiguous, crossed>>
  BY DEF Drive, Served, Start, Top, Admit, Refresh, NoRefresh, Settle, Turn, Dead,
         mirrorVars, loopVars, quoteVars, chequeVars, sharedVars
<1>2. /\ pc'[c] = pc[c] \/ {pc[c], pc'[c]} \cap {"guard", "wire", "record"} = {}
      /\ \A d \in Conn \ {c} : pc'[d] = pc[d]
  <2>1. pc \in [Conn -> Where]
    BY DEF TypeInv, TypeOK
  <2>2. CASE Served(c) \/ Admit(c)
    BY <2>2 DEF Served, Admit
  <2>3. CASE Start(c) \/ Top(c) \/ Refresh(c) \/ NoRefresh(c) \/ Dead(c)
    BY <2>1, <2>3 DEF Start, Top, Refresh, NoRefresh, Dead, Goto, Begin
  <2>4. CASE Settle(c) \/ Turn(c)
    BY <2>1, <2>4 DEF Settle, Turn, Goto, Begin
  <2>5. QED BY <2>2, <2>3, <2>4 DEF Drive
<1>3. \A d \in Conn : Positive(d)'
  BY <1>1, <1>2 DEF KnownInv, Positive
<1>4. pc'[c] = pc[c] \/ {pc[c], pc'[c]} \cap Sending = {}
  BY <1>2 DEF Sending
<1>5. QED BY <1>1, <1>2, <1>3, <1>4, LedgerFrame

\* An emission that fails leaves the record alone, and the beneficiary too
\* unless the stream failed late.
LEMMA LedgerFailed ==
    ASSUME TypeInv, LedgerInv, KnownInv, NEW c \in Conn,
           pc[c] # "record", EmitFailed(c), UNCHANGED <<cum, crossed>>,
           \/ UNCHANGED <<held, ambiguous>>
           \/ Deliver(c) /\ ambiguous' = ambiguous \cup {BenOf[c]}
    PROVE  LedgerInv' /\ KnownInv'
<1>1. /\ pc \in [Conn -> Where] /\ newCum \in [Conn -> Nat] /\ plur \in [Conn -> Nat]
      /\ held \in [Ben -> Nat]
  BY DEF TypeInv, TypeOK
<1>2. /\ pc'[c] \in {"closed", "top", "turn"}
      /\ \A d \in Conn \ {c} : pc'[d] = pc[d] /\ newCum'[d] = newCum[d] /\ plur'[d] = plur[d]
  BY <1>1 DEF EmitFailed, Goto, After, Forget
<1>3. \A d \in Conn : Positive(d)'
  BY <1>2 DEF KnownInv, Positive
<1>4. LedgerInv'
  BY <1>2 DEF LedgerInv, OnTop, Sending
<1>5. ASSUME NEW b \in Ben, b \notin ambiguous' \cup crossed' PROVE Known(b)'
  <2>1. held'[b] = held[b] /\ b \notin ambiguous \cup crossed
    BY <1>1, <1>5 DEF Deliver
  <2>2. \A d \in Conn : Covers(d, b) => Covers(d, b)'
    BY <1>2, <2>1 DEF Covers
  <2>3. Known(b)
    BY DEF KnownInv
  <2>4. QED BY <2>1, <2>2, <2>3 DEF Known
<1>6. \A b \in Ben : Known(b)'
  BY <1>5 DEF Known
<1>7. QED BY <1>3, <1>4, <1>6 DEF KnownInv

LEMMA LedgerQuote ==
    ASSUME TypeInv, PayInv, LedgerInv, KnownInv, NEW c \in Conn, NEW q \in Quotes, Quote(c, q)
    PROVE  LedgerInv' /\ KnownInv'
<1>1. pc \in [Conn -> Where] /\ plur \in [Conn -> Nat] /\ (kind[c] # "none" <=> pc[c] \in Emitting)
  BY DEF TypeInv, TypeOK, Joined
<1>2. /\ pc[c] = "open" /\ pc'[c] = "guard" /\ UNCHANGED <<newCum, cum, held, crossed, ambiguous>>
      /\ \A d \in Conn \ {c} : pc'[d] = pc[d] /\ plur'[d] = plur[d]
  BY <1>1 DEF Quote, Goto, sharedVars
<1>3. units[c] > 0 /\ units[c] \in Nat
  BY <1>1, <1>2 DEF PayInv, Fits, Emitting, TypeInv, TypeOK
<1>4. units[c] * q[1] \in Nat /\ units[c] * q[1] > 0 /\ q[2] \in Nat
  BY <1>3, QuoteType, ProductPositive DEF Quote
<1>5. plur'[c] > 0
  BY <1>1, <1>4 DEF Quote
<1>6. \A d \in Conn : Positive(d)'
  BY <1>2, <1>5 DEF KnownInv, Positive
<1>7. \A d \in Conn : pc[d] \in Sending => newCum'[d] = newCum[d] /\ plur'[d] = plur[d]
  BY <1>2 DEF Sending
<1>8. pc'[c] = pc[c] \/ {pc[c], pc'[c]} \cap Sending = {}
  BY <1>2 DEF Sending
<1>9. QED BY <1>2, <1>6, <1>7, <1>8, LedgerFrame

LEMMA LedgerSign ==
    ASSUME TypeInv, LedgerInv, KnownInv, NEW c \in Conn, Sign(c)
    PROVE  LedgerInv' /\ KnownInv'
<1>1. /\ pc \in [Conn -> Where] /\ newCum \in [Conn -> Nat]
      /\ pc[c] = "guard" /\ UNCHANGED <<plur, cum, held, ambiguous>>
      /\ newCum' = [newCum EXCEPT ![c] = cum[BenOf[c]] + plur[c]]
      /\ crossed' = IF Crosses(c) THEN crossed \cup {BenOf[c]} ELSE crossed
      /\ pc' = [pc EXCEPT ![c] = "wire"]
  BY DEF TypeInv, TypeOK, Sign, Goto, quoteVars
<1>2. \A d \in Conn : Positive(d)'
  BY <1>1 DEF KnownInv, Positive
<1>3. ASSUME NEW d \in Conn PROVE OnTop(d)'
  <2>1. CASE d = c
    BY <1>1, <2>1 DEF OnTop, Crosses, Sending
  <2>2. CASE d # c /\ BenOf[d] = BenOf[c] /\ pc[d] \in Sending
    BY <1>1, <2>2 DEF OnTop, Crosses, Sending
  <2>3. CASE d # c /\ ~(BenOf[d] = BenOf[c] /\ pc[d] \in Sending)
    <3>1. OnTop(d)
      BY DEF LedgerInv
    <3>2. pc'[d] = pc[d] /\ newCum'[d] = newCum[d] /\ plur'[d] = plur[d] /\ cum' = cum
      BY <1>1, <2>3
    <3>3. crossed \subseteq crossed'
      BY <1>1
    <3>4. CASE BenOf[d] = BenOf[c]
      BY <2>3, <3>2, <3>4 DEF OnTop
    <3>5. CASE BenOf[d] # BenOf[c]
      BY <1>1, <3>1, <3>2, <3>3, <3>5 DEF OnTop
    <3>6. QED BY <3>4, <3>5
  <2>4. QED BY <2>1, <2>2, <2>3
<1>4. ASSUME NEW b \in Ben PROVE Known(b)'
  <2>1. \A d \in Conn : Covers(d, b) => Covers(d, b)'
    BY <1>1 DEF Covers
  <2>2. Known(b)
    BY DEF KnownInv
  <2>3. QED BY <1>1, <2>1, <2>2 DEF Known
<1>5. QED BY <1>2, <1>3, <1>4 DEF LedgerInv, KnownInv

LEMMA LedgerSend ==
    ASSUME TypeInv, LedgerInv, KnownInv, NEW c \in Conn, WireOk(c)
    PROVE  LedgerInv' /\ KnownInv'
<1>1. /\ pc \in [Conn -> Where] /\ newCum \in [Conn -> Nat] /\ plur \in [Conn -> Nat]
      /\ cum \in [Ben -> Nat] /\ held \in [Ben -> Nat] /\ BenOf[c] \in Ben
      /\ pc[c] = "wire" /\ UNCHANGED <<plur, newCum, cum, ambiguous, crossed>>
      /\ Deliver(c) /\ pc' = [pc EXCEPT ![c] = "record"]
  BY EmissionAssumption DEF TypeInv, TypeOK, WireOk, Goto, quoteVars, chequeVars
<1>2. \A d \in Conn : Positive(d)'
  BY <1>1 DEF KnownInv, Positive
<1>3. LedgerInv'
  BY <1>1 DEF LedgerInv, OnTop, Sending
<1>4. ASSUME NEW b \in Ben, b \notin ambiguous' \cup crossed' PROVE Known(b)'
  <2>1. Known(b) /\ b \notin ambiguous \cup crossed
    BY <1>1, <1>4 DEF KnownInv
  <2>2. CASE b = BenOf[c]
    <3>1. OnTop(c)
      BY DEF LedgerInv
    <3>2. newCum[c] = cum[b] + plur[c] /\ ~\E d \in Conn : Covers(d, b)
      BY <1>1, <2>1, <2>2, <3>1 DEF OnTop, Covers, Sending
    <3>3. held[b] <= cum[b]
      BY <2>1, <3>2 DEF Known
    <3>4. held'[b] <= newCum'[c]
      BY <1>1, <2>2, <3>2, <3>3 DEF Deliver
    <3>5. Covers(c, b)'
      BY <1>1, <2>2, <3>4 DEF Covers
    <3>6. QED BY <3>5 DEF Known
  <2>3. CASE b # BenOf[c]
    <3>1. held'[b] = held[b]
      BY <1>1, <2>3 DEF Deliver
    <3>2. \A d \in Conn : Covers(d, b) => Covers(d, b)'
      BY <1>1, <3>1 DEF Covers
    <3>3. QED BY <1>1, <2>1, <3>1, <3>2 DEF Known
  <2>4. QED BY <2>2, <2>3
<1>5. \A b \in Ben : Known(b)'
  BY <1>4 DEF Known
<1>6. QED BY <1>2, <1>3, <1>5 DEF KnownInv

LEMMA LedgerRecord ==
    ASSUME TypeInv, LedgerInv, KnownInv, NEW c \in Conn, Record(c)
    PROVE  LedgerInv' /\ KnownInv'
<1>1. /\ pc \in [Conn -> Where] /\ newCum \in [Conn -> Nat] /\ plur \in [Conn -> Nat]
      /\ cum \in [Ben -> Nat] /\ held \in [Ben -> Nat] /\ BenOf \in [Conn -> Ben]
      /\ pc[c] = "record" /\ UNCHANGED <<held, ambiguous, crossed>>
      /\ cum' = [cum EXCEPT ![BenOf[c]] = newCum[c]]
      /\ pc'[c] \in {"top", "turn"}
      /\ \A d \in Conn \ {c} : pc'[d] = pc[d] /\ newCum'[d] = newCum[d] /\ plur'[d] = plur[d]
  BY EmissionAssumption DEF TypeInv, TypeOK, Record, RecordIssued, Goto, After, Forget
<1>2. \A d \in Conn : Positive(d)'
  BY <1>1 DEF KnownInv, Positive
<1>3. ASSUME NEW d \in Conn, pc'[d] \in Sending, BenOf[d] \notin crossed' PROVE OnTop(d)'
  <2>1. d # c /\ pc[d] \in Sending /\ OnTop(d)
    BY <1>1, <1>3 DEF LedgerInv, Sending
  <2>2. BenOf[d] # BenOf[c]
    BY <1>1, <1>3, <2>1 DEF OnTop, Sending
  <2>3. cum'[BenOf[d]] = cum[BenOf[d]]
    BY <1>1, <2>2
  <2>4. QED BY <1>1, <1>3, <2>1, <2>3 DEF OnTop, Sending
<1>4. ASSUME NEW b \in Ben, b \notin ambiguous' \cup crossed' PROVE Known(b)'
  <2>1. Known(b) /\ b \notin ambiguous \cup crossed
    BY <1>1, <1>4 DEF KnownInv
  <2>2. CASE b = BenOf[c]
    <3>1. OnTop(c)
      BY DEF LedgerInv
    <3>2. newCum[c] = cum[b] + plur[c] /\ \A d \in Conn : Covers(d, b) => d = c
      BY <1>1, <2>1, <2>2, <3>1 DEF OnTop, Covers, Sending
    <3>3. held[b] <= newCum[c]
      BY <1>1, <2>1, <3>2 DEF Known, Covers
    <3>4. held'[b] <= cum'[b]
      BY <1>1, <2>2, <3>3
    <3>5. QED BY <3>4 DEF Known
  <2>3. CASE b # BenOf[c]
    <3>1. \A d \in Conn : Covers(d, b) => Covers(d, b)'
      BY <1>1, <2>3 DEF Covers
    <3>2. QED BY <1>1, <2>1, <2>3, <3>1 DEF Known
  <2>4. QED BY <2>2, <2>3
<1>5. LedgerInv'
  BY <1>3 DEF LedgerInv, OnTop
<1>6. \A b \in Ben : Known(b)'
  BY <1>4 DEF Known
<1>7. QED BY <1>2, <1>5, <1>6 DEF KnownInv

LEMMA LedgerEmit ==
    ASSUME TypeInv, PayInv, LedgerInv, KnownInv, NEW c \in Conn, Emit(c)
    PROVE  LedgerInv' /\ KnownInv'
<1>1. CASE NoQuote(c) \/ Refuse(c) \/ Unbacked(c)
  BY <1>1, LedgerFailed DEF NoQuote, Refuse, Unbacked, sharedVars
<1>2. CASE WireErr(c)
  BY <1>2, LedgerFailed DEF WireErr
<1>3. QED BY <1>1, <1>2, LedgerQuote, LedgerSign, LedgerSend, LedgerRecord DEF Emit

Inv == TypeInv /\ PayInv /\ LedgerInv /\ KnownInv

LEMMA InvNext == Trigger > 0 /\ Inv /\ [Next]_vars => Inv'
<1> SUFFICES ASSUME Trigger > 0, Inv, [Next]_vars PROVE Inv'
  OBVIOUS
<1>1. TypeInv' /\ PayInv'
  BY TypeNext, PayNext DEF Inv
<1>2. CASE WindDown \/ UNCHANGED vars
  <2>1. UNCHANGED <<pc, newCum, plur, cum, held, ambiguous, crossed>>
    BY <1>2 DEF WindDown, vars, sharedVars, chequeVars, quoteVars
  <2>2. LedgerInv' /\ KnownInv'
    BY <2>1 DEF Inv, LedgerInv, KnownInv, OnTop, Positive, Known, Covers
  <2>3. QED BY <1>1, <2>2 DEF Inv
<1>3. ASSUME NEW c \in Conn, Drive(c) \/ Served(c) \/ Emit(c) PROVE Inv'
  BY <1>1, <1>3, LedgerDrive, LedgerEmit DEF Inv
<1>4. QED BY <1>2, <1>3 DEF Next, Done

LEMMA InvAlways == Trigger > 0 /\ Spec => []Inv
<1>1. SUFFICES ASSUME Trigger > 0 PROVE Spec => []Inv
  OBVIOUS
<1>2. Init => Inv
  BY TypeInit, PayInit, LedgerInit DEF Inv
<1>3. Inv /\ [Next]_vars => Inv'
  BY <1>1, InvNext
<1>4. QED BY <1>2, <1>3, PTL DEF Spec

\* Every cheque sent is higher than all its beneficiary has had, unless a
\* stream to it failed after delivery or two of its connections emitted at
\* once (direct.rs emit_settlement_cheque, ledger.rs cumulative_for).
THEOREM ChequesAdvance == Trigger > 0 /\ Spec => []ChequeAdvances
<1>1. Inv => ChequeAdvances
  <2> SUFFICES ASSUME Inv, NEW c \in Conn, pc[c] = "wire",
                      BenOf[c] \notin ambiguous \cup crossed
               PROVE  newCum[c] > held[BenOf[c]]
    BY DEF ChequeAdvances
  <2>1. OnTop(c) /\ Positive(c) /\ Known(BenOf[c]) /\ BenOf[c] \in Ben
    BY EmissionAssumption DEF Inv, LedgerInv, KnownInv
  <2>2. cum[BenOf[c]] \in Nat /\ plur[c] \in Nat /\ held[BenOf[c]] \in Nat
    BY <2>1 DEF Inv, TypeInv, TypeOK
  <2>3. newCum[c] = cum[BenOf[c]] + plur[c] /\ plur[c] > 0
    BY <2>1 DEF OnTop, Positive, Sending
  <2>4. ~\E d \in Conn : Covers(d, BenOf[c])
    BY <2>1 DEF OnTop, Covers, Sending
  <2>5. held[BenOf[c]] <= cum[BenOf[c]]
    BY <2>1, <2>4 DEF Known
  <2>6. QED BY <2>2, <2>3, <2>5
<1>2. QED BY <1>1, InvAlways, PTL

\* No step takes a beneficiary's recorded cumulative back (ledger.rs
\* record_issued), unless two of its connections emitted at once.
THEOREM LedgerNeverBack == Trigger > 0 /\ Spec => LedgerHighest
<1>1. Inv /\ [Next]_vars => [\A b \in Ben \ crossed' : cum[b] <= cum'[b]]_vars
  <2> SUFFICES ASSUME Inv, Next, NEW b \in Ben \ crossed' PROVE cum[b] <= cum'[b]
    OBVIOUS
  <2>1. cum \in [Ben -> Nat]
    BY DEF Inv, TypeInv, TypeOK
  <2>2. CASE UNCHANGED cum
    BY <2>1, <2>2
  <2>3. ASSUME NEW c \in Conn, Record(c) PROVE cum[b] <= cum'[b]
    <3>1. /\ plur[c] \in Nat /\ BenOf[c] \in Ben /\ pc[c] = "record" /\ crossed' = crossed
          /\ OnTop(c) /\ cum' = [cum EXCEPT ![BenOf[c]] = newCum[c]]
      BY <2>3, EmissionAssumption DEF Inv, LedgerInv, Record, RecordIssued, TypeInv, TypeOK
    <3>2. BenOf[c] = b => newCum[c] = cum[b] + plur[c]
      BY <3>1 DEF OnTop, Sending
    <3>3. QED BY <2>1, <3>1, <3>2
  <2>4. (\E c \in Conn : Record(c)) \/ UNCHANGED cum
    BY DEF Next, Drive, Served, Emit, Done, WindDown, Start, Top, Admit, Refresh, NoRefresh,
           Settle, Turn, Dead, NoQuote, Quote, Refuse, Unbacked, Sign, WireOk, WireErr,
           vars, sharedVars
  <2>5. QED BY <2>2, <2>3, <2>4
<1>2. QED BY <1>1, InvAlways, PTL DEF Spec, LedgerHighest

-----------------------------------------------------------------------------
(* Sums over finite sets, and over connections.                            *)

Tokens(f, S) == UNION {{x} \X (1..f[x]) : x \in S}

LEMMA SumTokens ==
    ASSUME NEW D, IsFiniteSet(D), NEW m \in Nat,
           NEW f \in [D -> 0..m], NEW S \in SUBSET D, NEW t
    PROVE  t \in Tokens(f, S) <=> \E x \in S : \E k \in 1..f[x] : t = <<x, k>>
  BY DEF Tokens

LEMMA SumBound ==
    ASSUME NEW D, IsFiniteSet(D), NEW m \in Nat,
           NEW f \in [D -> 0..m], NEW S \in SUBSET D
    PROVE  /\ IsFiniteSet(Tokens(f, S)) /\ Total(f, S) = Cardinality(Tokens(f, S))
           /\ Total(f, S) \in Nat /\ Total(f, S) <= Cardinality(S) * m
           /\ Cardinality(S) \in Nat
<1>1. IsFiniteSet(S) /\ Cardinality(S) \in Nat
  BY FS_Subset, FS_CardinalityType
<1>2. IsFiniteSet(1..m) /\ Cardinality(1..m) = m
  BY FS_Interval
<1>3. IsFiniteSet(S \X (1..m)) /\ Cardinality(S \X (1..m)) = Cardinality(S) * m
  BY <1>1, <1>2, FS_Product
<1>4. Tokens(f, S) \subseteq S \X (1..m)
  <2> SUFFICES ASSUME NEW t \in Tokens(f, S) PROVE t \in S \X (1..m)
    OBVIOUS
  <2>1. PICK x \in S : \E k \in 1..f[x] : t = <<x, k>>
    BY SumTokens
  <2>2. PICK k \in 1..f[x] : t = <<x, k>>
    BY <2>1
  <2>3. f[x] \in Nat /\ f[x] <= m
    OBVIOUS
  <2>4. k \in 1..m
    BY <2>2, <2>3
  <2>5. QED BY <2>2, <2>4
<1>5. IsFiniteSet(Tokens(f, S)) /\ Cardinality(Tokens(f, S)) <= Cardinality(S) * m
  BY <1>3, <1>4, FS_Subset
<1>6. Cardinality(Tokens(f, S)) \in Nat
  BY <1>5, FS_CardinalityType
<1>7. QED BY <1>1, <1>5, <1>6 DEF Total, Tokens

LEMMA SumType ==
    ASSUME NEW D, IsFiniteSet(D), NEW m \in Nat,
           NEW f \in [D -> 0..m], NEW S \in SUBSET D
    PROVE  /\ IsFiniteSet(Tokens(f, S)) /\ Total(f, S) = Cardinality(Tokens(f, S))
           /\ Total(f, S) \in Nat
  BY SumBound

LEMMA SumMonotone ==
    ASSUME NEW D, IsFiniteSet(D), NEW m \in Nat,
           NEW f \in [D -> 0..m], NEW T \in SUBSET D, NEW S \in SUBSET T
    PROVE  Total(f, S) <= Total(f, T)
<1>1. S \in SUBSET D
  OBVIOUS
<1>2. Tokens(f, S) \subseteq Tokens(f, T)
  BY <1>1, SumTokens
<1>3. QED BY <1>1, <1>2, SumType, FS_Subset

LEMMA SumSame ==
    ASSUME NEW D, IsFiniteSet(D), NEW m \in Nat,
           NEW f \in [D -> 0..m], NEW g \in [D -> 0..m], NEW S \in SUBSET D,
           \A x \in S : f[x] = g[x]
    PROVE  Total(f, S) = Total(g, S)
<1>1. \A t : t \in Tokens(f, S) <=> \E x \in S : \E k \in 1..f[x] : t = <<x, k>>
  BY SumTokens
<1>2. \A t : t \in Tokens(g, S) <=> \E x \in S : \E k \in 1..g[x] : t = <<x, k>>
  BY SumTokens
<1>3. \A t : t \in Tokens(f, S) <=> t \in Tokens(g, S)
  BY <1>1, <1>2
<1>4. Tokens(f, S) = Tokens(g, S)
  BY <1>3
<1>5. QED BY <1>4 DEF Total, Tokens

LEMMA SumPlus ==
    ASSUME NEW D, IsFiniteSet(D), NEW m \in Nat,
           NEW f \in [D -> 0..m], NEW S \in SUBSET D, NEW c \in D \ S
    PROVE  Total(f, S \cup {c}) = Total(f, S) + f[c]
<1>1. S \cup {c} \in SUBSET D /\ f[c] \in Nat
  OBVIOUS
<1>2. IsFiniteSet({c}) /\ Cardinality({c}) = 1
  BY FS_Singleton
<1>3. IsFiniteSet(1..f[c]) /\ Cardinality(1..f[c]) = f[c]
  BY <1>1, FS_Interval
<1>4. IsFiniteSet({c} \X (1..f[c])) /\ Cardinality({c} \X (1..f[c])) = f[c]
  <2>1. /\ IsFiniteSet({c} \X (1..f[c]))
        /\ Cardinality({c} \X (1..f[c])) = Cardinality({c}) * Cardinality(1..f[c])
    BY <1>2, <1>3, FS_Product
  <2>2. 1 * f[c] = f[c]
    BY <1>1
  <2>3. QED BY <1>2, <1>3, <2>1, <2>2
<1>5. Tokens(f, S \cup {c}) = Tokens(f, S) \cup ({c} \X (1..f[c]))
  <2>1. \A t : t \in {c} \X (1..f[c]) <=> \E k \in 1..f[c] : t = <<c, k>>
    OBVIOUS
  <2>2. \A t : t \in Tokens(f, S \cup {c}) <=> t \in Tokens(f, S) \/ t \in {c} \X (1..f[c])
    BY <1>1, <2>1, SumTokens
  <2>3. QED BY <2>2
<1>6. Tokens(f, S) \cap ({c} \X (1..f[c])) = {}
  BY SumTokens
<1>7. Cardinality(Tokens(f, S) \cup ({c} \X (1..f[c]))) = Cardinality(Tokens(f, S)) + f[c]
  <2> DEFINE A == Tokens(f, S)
             B == {c} \X (1..f[c])
  <2>1. IsFiniteSet(A) /\ IsFiniteSet(B) /\ A \cap B = {} /\ Cardinality(B) = f[c]
    BY <1>4, <1>6, SumType
  <2>2. Cardinality(A) \in Nat
    BY <2>1, FS_CardinalityType
  <2> HIDE DEF A, B
  <2>3. Cardinality(A \cup B) = Cardinality(A) + Cardinality(B) - Cardinality(A \cap B)
    BY <2>1, FS_Union
  <2>4. Cardinality(A \cap B) = 0
    BY <2>1, FS_EmptySet
  <2>5. Cardinality(A \cup B) = Cardinality(A) + f[c]
    BY <1>1, <2>1, <2>2, <2>3, <2>4
  <2>6. QED BY <2>5 DEF A, B
<1>8. QED BY <1>1, <1>5, <1>7, SumType

\* What one connection adds or takes away.
LEMMA SumChange ==
    ASSUME NEW D, IsFiniteSet(D), NEW m \in Nat,
           NEW f \in [D -> 0..m], NEW g \in [D -> 0..m], NEW S \in SUBSET D, NEW c \in S,
           \A x \in S \ {c} : f[x] = g[x]
    PROVE  Total(g, S) + f[c] = Total(f, S) + g[c]
<1> DEFINE R == S \ {c}
<1>1. R \in SUBSET D /\ c \in D \ R /\ S = R \cup {c}
  OBVIOUS
<1>2. Total(f, S) = Total(f, R) + f[c] /\ Total(g, S) = Total(g, R) + g[c]
  BY <1>1, SumPlus
<1>3. Total(f, R) = Total(g, R)
  BY <1>1, SumSame
<1>4. Total(f, R) \in Nat /\ f[c] \in Nat /\ g[c] \in Nat
  BY <1>1, SumType
<1>5. QED BY <1>2, <1>3, <1>4

\* The same for the connections' reservations.
Amounts == [Conn -> 0..(Wrap - 1)]

LEMMA ConnFinite == IsFiniteSet(Conn) /\ Wrap - 1 \in Nat
  BY EmissionAssumption

LEMMA TokensBound ==
    ASSUME NEW f \in Amounts, NEW m \in Nat, \A c \in Conn : f[c] <= m
    PROVE  /\ Total(f, Conn) \in Nat /\ Total(f, Conn) <= Cardinality(Conn) * m
           /\ Cardinality(Conn) \in Nat
<1>1. f \in [Conn -> 0..m] /\ Conn \in SUBSET Conn
  BY ConnFinite DEF Amounts
<1>2. QED BY <1>1, ConnFinite, SumBound

LEMMA TotalType ==
    ASSUME NEW f \in Amounts, NEW S \in SUBSET Conn
    PROVE  Total(f, S) \in Nat
  BY ConnFinite, SumType DEF Amounts

LEMMA TotalMonotone ==
    ASSUME NEW f \in Amounts, NEW T \in SUBSET Conn, NEW S \in SUBSET T
    PROVE  Total(f, S) <= Total(f, T)
  BY ConnFinite, SumMonotone DEF Amounts

LEMMA TotalSame ==
    ASSUME NEW f \in Amounts, NEW g \in Amounts, NEW S \in SUBSET Conn,
           \A x \in S : f[x] = g[x]
    PROVE  Total(f, S) = Total(g, S)
  BY ConnFinite, SumSame DEF Amounts

LEMMA TotalPlus ==
    ASSUME NEW f \in Amounts, NEW S \in SUBSET Conn, NEW c \in Conn \ S
    PROVE  Total(f, S \cup {c}) = Total(f, S) + f[c]
  BY ConnFinite, SumPlus DEF Amounts

LEMMA TotalChange ==
    ASSUME NEW f \in Amounts, NEW g \in Amounts, NEW S \in SUBSET Conn, NEW c \in S,
           \A x \in S \ {c} : f[x] = g[x]
    PROVE  Total(g, S) + f[c] = Total(f, S) + g[c]
  BY ConnFinite, SumChange DEF Amounts

-----------------------------------------------------------------------------
(* The counter and the emissions under way.                                *)

\* Only amounts the counter holds in full are signed.
Whole == \A c \in Conn : pc[c] = "wire" => plur[c] < Wrap

\* The four things a step does to the counter.
Still == UNCHANGED <<issued, paid>> /\ \A d \in Conn : Outstanding'[d] = Outstanding[d]

Others(c) == \A d \in Conn \ {c} : Outstanding'[d] = Outstanding[d]

Reserves(c) ==
    /\ Outstanding[c] = 0 /\ Others(c)
    /\ issued' = (issued + Outstanding'[c]) % Wrap /\ paid' = paid

Releases(c) ==
    /\ Outstanding'[c] = 0 /\ Others(c)
    /\ issued' = (issued + Wrap - Outstanding[c]) % Wrap /\ paid' = paid

Pays(c) ==
    /\ Outstanding'[c] = 0 /\ Others(c)
    /\ issued' = issued /\ paid' = paid + Outstanding[c]

LEMMA OutstandingType ==
    ASSUME TypeInv
    PROVE  /\ Outstanding \in Amounts
           /\ \A c \in Conn : Outstanding[c] \in Nat
<1>1. 0 \in 0..(Wrap - 1) /\ \A n \in 0..(Wrap - 1) : n \in Nat
  BY EmissionAssumption
<1>2. \A c \in Conn : Clamp(plur[c]) \in 0..(Wrap - 1)
  BY ClampNat DEF TypeInv, TypeOK
<1>3. QED BY <1>1, <1>2 DEF Outstanding, Amounts

\* A connection's reservation stays while its emission does.
LEMMA OutstandingFrame ==
    ASSUME NEW d \in Conn, plur'[d] = plur[d],
           pc'[d] \in Reserving <=> pc[d] \in Reserving
    PROVE  Outstanding'[d] = Outstanding[d]
<1>1. Outstanding'[d] = IF pc'[d] \in {"guard", "wire"} THEN Clamp(plur'[d]) ELSE 0
  BY DEF Outstanding, Clamp, Min2
<1>2. QED BY <1>1 DEF Outstanding, Reserving

LEMMA WholeInit == Init => Whole
  BY DEF Init, Whole

LEMMA SignedWhole ==
    ASSUME TypeInv, Cap + 1 < Wrap, NEW c \in Conn, ~OverCap(c)
    PROVE  /\ plur[c] < Wrap /\ Clamp(plur[c]) = plur[c]
           /\ before[c] + plur[c] <= Cap
<1>1. plur[c] \in Nat /\ before[c] \in Nat /\ Wrap \in Nat /\ Cap \in Nat
  BY EmissionAssumption DEF TypeInv, TypeOK
<1>2. plur[c] < Wrap - 1
  BY <1>1 DEF OverCap, Clamp, Min2
<1>3. Clamp(plur[c]) = plur[c]
  BY <1>1, <1>2 DEF Clamp, Min2
<1>4. before[c] + plur[c] < Wrap - 1 \/ Clamp(before[c] + plur[c]) = Wrap - 1
  BY <1>1 DEF Clamp, Min2
<1>5. before[c] + plur[c] <= Cap
  BY <1>1, <1>3, <1>4 DEF OverCap, Clamp, Min2
<1>6. QED BY <1>1, <1>2, <1>3, <1>5

LEMMA DriveStill ==
    ASSUME TypeInv, NEW c \in Conn, Drive(c) \/ Served(c)
    PROVE  Still /\ (Whole => Whole') /\ UNCHANGED <<plur, before>>
           /\ \A d \in Conn : pc'[d] = pc[d] \/ {pc[d], pc'[d]} \cap Reserving = {}
<1>1. UNCHANGED <<plur, before, issued, paid>>
  BY DEF Drive, Served, Start, Top, Admit, Refresh, NoRefresh, Settle, Turn, Dead,
         mirrorVars, loopVars, quoteVars, chequeVars, sharedVars
<1>2. \A d \in Conn : pc'[d] = pc[d] \/ {pc[d], pc'[d]} \cap Reserving = {}
  <2>1. pc \in [Conn -> Where]
    BY DEF TypeInv, TypeOK
  <2>2. CASE Served(c) \/ Admit(c)
    BY <2>2 DEF Served, Admit
  <2>3. CASE Start(c) \/ Top(c) \/ Refresh(c) \/ NoRefresh(c) \/ Dead(c)
    BY <2>1, <2>3 DEF Start, Top, Refresh, NoRefresh, Dead, Goto, Begin, Reserving
  <2>4. CASE Settle(c) \/ Turn(c)
    BY <2>1, <2>4 DEF Settle, Turn, Goto, Begin, Reserving
  <2>5. QED BY <2>2, <2>3, <2>4 DEF Drive
<1>3. \A d \in Conn : Outstanding'[d] = Outstanding[d]
  BY <1>1, <1>2, OutstandingFrame
<1>4. Whole => Whole'
  BY <1>1, <1>2 DEF Whole, Reserving
<1>5. QED BY <1>1, <1>2, <1>3, <1>4 DEF Still

\* A failed emission gives up its reservation, if it had one.
LEMMA FailedFrees ==
    ASSUME TypeInv, Whole, NEW c \in Conn, EmitFailed(c)
    PROVE  /\ pc'[c] \notin Reserving /\ Outstanding'[c] = 0 /\ Others(c) /\ Whole'
           /\ \A d \in Conn \ {c} : pc'[d] = pc[d] /\ plur'[d] = plur[d] /\ before'[d] = before[d]
<1>1. /\ pc \in [Conn -> Where] /\ plur \in [Conn -> Nat] /\ before \in [Conn -> Nat]
      /\ 0 < Wrap
  BY EmissionAssumption DEF TypeInv, TypeOK
<1>2. pc'[c] \in {"closed", "top", "turn"}
  BY <1>1 DEF EmitFailed, Goto, After
<1>3. \A d \in Conn \ {c} : pc'[d] = pc[d] /\ plur'[d] = plur[d] /\ before'[d] = before[d]
  BY <1>1 DEF EmitFailed, Goto, Forget
<1>4. Others(c)
  BY <1>3, OutstandingFrame DEF Others
<1>5. Outstanding'[c] = 0
  BY <1>2 DEF Outstanding
<1>6. Whole'
  BY <1>2, <1>3 DEF Whole
<1>7. QED BY <1>2, <1>3, <1>4, <1>5, <1>6 DEF Reserving

LEMMA ReleaseFrees ==
    ASSUME TypeInv, Whole, NEW c \in Conn, pc[c] \in Reserving, EmitFailed(c), Release(c),
           paid' = paid
    PROVE  Releases(c)
<1>1. Outstanding[c] = Clamp(plur[c])
  BY DEF Outstanding, Reserving
<1>2. QED BY <1>1, FailedFrees DEF Release, Releases

LEMMA QuoteReserves ==
    ASSUME TypeInv, Whole, NEW c \in Conn, NEW q \in Quotes, Quote(c, q)
    PROVE  /\ Reserves(c) /\ Whole'
           /\ pc[c] = "open" /\ pc'[c] = "guard"
           /\ before'[c] = issued
           /\ \A d \in Conn \ {c} : pc'[d] = pc[d] /\ plur'[d] = plur[d] /\ before'[d] = before[d]
<1>1. pc \in [Conn -> Where] /\ plur \in [Conn -> Nat] /\ before \in [Conn -> Nat]
  BY DEF TypeInv, TypeOK
<1>2. /\ pc[c] = "open" /\ pc'[c] = "guard" /\ before'[c] = issued /\ paid' = paid
      /\ plur'[c] = units[c] * q[1] + q[2]
      /\ issued' = (issued + Clamp(units[c] * q[1] + q[2])) % Wrap
  BY <1>1 DEF Quote, Goto, sharedVars
<1>3. \A d \in Conn \ {c} : pc'[d] = pc[d] /\ plur'[d] = plur[d] /\ before'[d] = before[d]
  BY <1>1 DEF Quote, Goto
<1>4. Others(c)
  BY <1>3, OutstandingFrame DEF Others
<1>5. Outstanding[c] = 0
  BY <1>2 DEF Outstanding
<1>6. Outstanding'[c] = Clamp(plur'[c])
  BY <1>2 DEF Outstanding, Clamp, Min2
<1>7. issued' = (issued + Outstanding'[c]) % Wrap
  BY <1>2, <1>6
<1>8. Whole'
  BY <1>2, <1>3 DEF Whole
<1>9. QED BY <1>2, <1>3, <1>4, <1>5, <1>7, <1>8 DEF Reserves

\* Signing leaves the counter alone.
LEMMA SignStill ==
    ASSUME TypeInv, Cap + 1 < Wrap, Whole, NEW c \in Conn, Sign(c)
    PROVE  /\ Still /\ Whole' /\ UNCHANGED <<plur, before>>
           /\ pc[c] \in Reserving /\ pc'[c] \in Reserving
           /\ \A d \in Conn \ {c} : pc'[d] = pc[d]
<1>1. pc \in [Conn -> Where]
  BY DEF TypeInv, TypeOK
<1>2. /\ UNCHANGED <<plur, before, issued, paid>>
      /\ pc[c] \in Reserving /\ pc'[c] \in Reserving
      /\ \A d \in Conn \ {c} : pc'[d] = pc[d]
  BY <1>1 DEF Sign, Goto, Reserving, quoteVars
<1>3. \A d \in Conn : Outstanding'[d] = Outstanding[d]
  BY <1>2, OutstandingFrame
<1>4. plur[c] < Wrap
  BY SignedWhole DEF Sign
<1>5. Whole'
  BY <1>2, <1>4 DEF Whole
<1>6. QED BY <1>2, <1>3, <1>5 DEF Still

LEMMA SendPays ==
    ASSUME TypeInv, Whole, NEW c \in Conn, WireOk(c)
    PROVE  /\ Pays(c) /\ Whole'
           /\ pc[c] = "wire" /\ pc'[c] \notin Reserving
           /\ \A d \in Conn \ {c} : pc'[d] = pc[d] /\ plur'[d] = plur[d] /\ before'[d] = before[d]
<1>1. /\ pc \in [Conn -> Where] /\ plur \in [Conn -> Nat] /\ Wrap \in Nat
  BY EmissionAssumption DEF TypeInv, TypeOK
<1>2. /\ pc[c] = "wire" /\ pc'[c] = "record" /\ issued' = issued
      /\ paid' = paid + plur[c]
  BY <1>1 DEF WireOk, Goto
<1>3. \A d \in Conn \ {c} : pc'[d] = pc[d] /\ plur'[d] = plur[d] /\ before'[d] = before[d]
  BY <1>1 DEF WireOk, Goto, chequeVars, quoteVars
<1>4. Others(c)
  BY <1>3, OutstandingFrame DEF Others
<1>5. plur[c] < Wrap
  BY <1>2 DEF Whole
<1>6. Outstanding[c] = plur[c]
  BY <1>1, <1>2, <1>5 DEF Outstanding, Clamp, Min2
<1>7. Outstanding'[c] = 0
  BY <1>2 DEF Outstanding
<1>8. Whole'
  BY <1>2, <1>3 DEF Whole
<1>9. QED BY <1>2, <1>3, <1>4, <1>6, <1>7, <1>8 DEF Pays, Reserving

\* Recording a cheque that was sent leaves the counter alone as well.
LEMMA RecordStill ==
    ASSUME TypeInv, Whole, NEW c \in Conn, Record(c)
    PROVE  /\ Still /\ Whole'
           /\ pc'[c] \notin Reserving
           /\ \A d \in Conn \ {c} : pc'[d] = pc[d] /\ plur'[d] = plur[d] /\ before'[d] = before[d]
<1>1. pc \in [Conn -> Where] /\ plur \in [Conn -> Nat] /\ before \in [Conn -> Nat]
  BY DEF TypeInv, TypeOK
<1>2. /\ pc[c] = "record" /\ pc'[c] \in {"top", "turn"} /\ UNCHANGED <<issued, paid>>
      /\ \A d \in Conn \ {c} : pc'[d] = pc[d] /\ plur'[d] = plur[d] /\ before'[d] = before[d]
  BY <1>1 DEF Record, Goto, After, Forget
<1>3. Outstanding'[c] = Outstanding[c]
  BY <1>2 DEF Outstanding
<1>4. \A d \in Conn \ {c} : Outstanding'[d] = Outstanding[d]
  BY <1>2, OutstandingFrame
<1>5. Whole'
  BY <1>2 DEF Whole
<1>6. QED BY <1>2, <1>3, <1>4, <1>5 DEF Still, Reserving

\* Every step does one of the four things to the counter.
LEMMA CounterMoves ==
    ASSUME TypeInv, Cap + 1 < Wrap, Whole, [Next]_vars
    PROVE  /\ Whole'
           /\ \/ Still
              \/ \E c \in Conn : Reserves(c) \/ Releases(c) \/ Pays(c)
<1>1. CASE WindDown \/ UNCHANGED vars
  <2>1. UNCHANGED <<pc, plur, issued, paid>>
    BY <1>1 DEF WindDown, vars, sharedVars, chequeVars, quoteVars
  <2>2. QED BY <2>1, OutstandingFrame DEF Still, Whole
<1>2. ASSUME NEW c \in Conn, Drive(c) \/ Served(c) PROVE Still /\ Whole'
  BY <1>2, DriveStill
<1>3. ASSUME NEW c \in Conn, NoQuote(c) PROVE Still /\ Whole'
  <2>1. /\ pc[c] = "open" /\ EmitFailed(c) /\ UNCHANGED <<issued, paid>>
    BY <1>3 DEF NoQuote, sharedVars
  <2>2. Outstanding[c] = 0
    BY <2>1 DEF Outstanding
  <2>3. QED BY <2>1, <2>2, FailedFrees DEF Still, Others
<1>4. ASSUME NEW c \in Conn, NEW q \in Quotes, Quote(c, q) PROVE Reserves(c) /\ Whole'
  BY <1>4, QuoteReserves
<1>5. ASSUME NEW c \in Conn, Refuse(c) \/ Unbacked(c) \/ WireErr(c)
      PROVE  Releases(c) /\ Whole'
  <2>1. pc[c] \in Reserving /\ EmitFailed(c) /\ Release(c) /\ paid' = paid
    BY <1>5 DEF Refuse, Unbacked, WireErr, Reserving, sharedVars
  <2>2. QED BY <2>1, ReleaseFrees, FailedFrees
<1>6. ASSUME NEW c \in Conn, Sign(c) \/ Record(c) PROVE Still /\ Whole'
  BY <1>6, SignStill, RecordStill
<1>7. ASSUME NEW c \in Conn, WireOk(c) PROVE Pays(c) /\ Whole'
  BY <1>7, SendPays
<1>8. QED BY <1>1, <1>2, <1>3, <1>4, <1>5, <1>6, <1>7 DEF Next, Emit, Done

LEMMA OutstandingTypeNext ==
    ASSUME TypeInv'
    PROVE  /\ Outstanding' \in Amounts
           /\ \A c \in Conn : Outstanding'[c] \in Nat
<1>1. 0 \in 0..(Wrap - 1) /\ \A n \in 0..(Wrap - 1) : n \in Nat
  BY EmissionAssumption
<1>2. \A c \in Conn : Clamp(plur'[c]) \in 0..(Wrap - 1)
  BY ClampNat DEF TypeInv, TypeOK
<1>3. Outstanding' =
        [c \in Conn |-> IF pc'[c] \in {"guard", "wire"} THEN Clamp(plur'[c]) ELSE 0]
  BY DEF Outstanding, Clamp, Min2
<1>4. QED BY <1>1, <1>2, <1>3 DEF Amounts

\* The counter is what was paid and what is reserved, less whole words.
Balance == \E k \in Int : issued + k * Wrap = paid + Total(Outstanding, Conn)

LEMMA BalanceInit == Init => Balance
<1> SUFFICES ASSUME Init PROVE Balance
  OBVIOUS
<1>1. Outstanding \in Amounts
  BY TypeInit, OutstandingType
<1>2. \A c \in Conn : Outstanding[c] = 0
  BY DEF Init, Outstanding
<1>3. Total(Outstanding, Conn) <= Cardinality(Conn) * 0 /\ Total(Outstanding, Conn) \in Nat
      /\ Cardinality(Conn) \in Nat
  BY <1>1, <1>2, TokensBound
<1>4. Total(Outstanding, Conn) = 0
  BY <1>3
<1>5. issued + 0 * Wrap = paid + Total(Outstanding, Conn)
  BY <1>4, EmissionAssumption DEF Init
<1>6. QED BY <1>5 DEF Balance

\* Adding to a word, and taking back from it.
LEMMA WordAdd ==
    ASSUME NEW i \in 0..(Wrap - 1), NEW a \in 0..(Wrap - 1)
    PROVE  (i + a) % Wrap = IF i + a < Wrap THEN i + a ELSE i + a - Wrap
  BY EmissionAssumption

LEMMA WordSub ==
    ASSUME NEW i \in 0..(Wrap - 1), NEW a \in 0..(Wrap - 1)
    PROVE  (i + Wrap - a) % Wrap = IF i < a THEN i + Wrap - a ELSE i - a
  BY EmissionAssumption

LEMMA Turns ==
    ASSUME NEW k \in Int
    PROVE  /\ k * Wrap \in Int
           /\ (k + 1) * Wrap = k * Wrap + Wrap
           /\ (k - 1) * Wrap = k * Wrap - Wrap
  BY EmissionAssumption

LEMMA BalanceNext ==
    ASSUME TypeInv, TypeInv', Cap + 1 < Wrap, Whole, Balance, [Next]_vars
    PROVE  Balance'
<1> DEFINE T == Total(Outstanding, Conn)
<1> DEFINE U == Total(Outstanding', Conn)
<1>1. /\ issued \in 0..(Wrap - 1) /\ issued' \in 0..(Wrap - 1)
      /\ paid \in Nat /\ paid' \in Nat /\ Wrap \in Nat
  BY EmissionAssumption DEF TypeInv, TypeOK
<1>2. T \in Nat /\ U \in Nat /\ Outstanding \in Amounts /\ Outstanding' \in Amounts
  BY OutstandingType, OutstandingTypeNext, TotalType
<1>3. PICK k \in Int : issued + k * Wrap = paid + T
  BY DEF Balance
<1>4. /\ k * Wrap \in Int /\ (k + 1) * Wrap = k * Wrap + Wrap /\ (k - 1) * Wrap = k * Wrap - Wrap
  BY Turns
<1>5. SUFFICES \E j \in Int : issued' + j * Wrap = paid' + U
  BY DEF Balance, Total
<1>6. CASE Still
  <2>1. U = T
    BY <1>2, <1>6, TotalSame DEF Still
  <2>2. issued' + k * Wrap = paid' + U
    BY <1>3, <1>6, <2>1 DEF Still
  <2>3. QED BY <2>2
<1>7. ASSUME NEW c \in Conn, Reserves(c) \/ Releases(c) \/ Pays(c)
      PROVE  \E j \in Int : issued' + j * Wrap = paid' + U
  <2> DEFINE a == Outstanding[c]
             b == Outstanding'[c]
  <2>1. a \in 0..(Wrap - 1) /\ b \in 0..(Wrap - 1)
    BY <1>2 DEF Amounts
  <2>2. U + a = T + b
    BY <1>2, <1>7, TotalChange DEF Reserves, Releases, Pays, Others
  <2>3. CASE Reserves(c)
    <3>1. a = 0 /\ issued' = (issued + b) % Wrap /\ paid' = paid
      BY <2>3 DEF Reserves
    <3> HIDE DEF T, U, a, b
    <3>2. CASE issued + b < Wrap
      <4>1. issued' = issued + b
        BY <1>1, <2>1, <3>1, <3>2, WordAdd
      <4>2. U = T + b /\ b \in Int
        BY <1>2, <2>1, <2>2, <3>1
      <4>3. issued' + k * Wrap = paid' + U
        <5> DEFINE w == k * Wrap
        <5>1. w \in Int /\ issued + w = paid + T
          BY <1>3, <1>4
        <5> HIDE DEF w
        <5>2. issued' + w = paid' + U
          BY <1>1, <1>2, <3>1, <4>1, <4>2, <5>1
        <5>3. QED BY <5>2 DEF w
      <4>4. QED BY <4>3
    <3>3. CASE issued + b >= Wrap
      <4>1. issued' = issued + b - Wrap
        BY <1>1, <2>1, <3>1, <3>3, WordAdd
      <4>2. issued' + (k + 1) * Wrap = paid' + U
        BY <1>1, <1>2, <1>3, <1>4, <2>1, <2>2, <3>1, <4>1
      <4>3. QED BY <4>2
    <3>4. QED BY <1>1, <2>1, <3>2, <3>3
  <2>4. CASE Releases(c)
    <3>1. b = 0 /\ issued' = (issued + Wrap - a) % Wrap /\ paid' = paid
      BY <2>4 DEF Releases
    <3> HIDE DEF T, U, a, b
    <3>2. CASE issued >= a
      <4>1. issued' = issued - a
        BY <1>1, <2>1, <3>1, <3>2, WordSub
      <4>2. issued' + k * Wrap = paid' + U
        BY <1>1, <1>2, <1>3, <1>4, <2>1, <2>2, <3>1, <4>1
      <4>3. QED BY <4>2
    <3>3. CASE issued < a
      <4>1. issued' = issued + Wrap - a
        BY <1>1, <2>1, <3>1, <3>3, WordSub
      <4>2. issued' + (k - 1) * Wrap = paid' + U
        BY <1>1, <1>2, <1>3, <1>4, <2>1, <2>2, <3>1, <4>1
      <4>3. QED BY <4>2
    <3>4. QED BY <1>1, <2>1, <3>2, <3>3
  <2>5. CASE Pays(c)
    <3>1. b = 0 /\ issued' = issued /\ paid' = paid + a
      BY <2>5 DEF Pays
    <3> HIDE DEF T, U, a, b
    <3>2. issued' + k * Wrap = paid' + U
      BY <1>1, <1>2, <1>3, <1>4, <2>1, <2>2, <3>1
    <3>3. QED BY <3>2
  <2>6. QED BY <1>7, <2>3, <2>4, <2>5
<1>8. QED BY <1>6, <1>7, CounterMoves

LEMMA BalanceAlways == Cap + 1 < Wrap /\ Spec => [](TypeInv /\ Whole /\ Balance)
<1>1. SUFFICES ASSUME Cap + 1 < Wrap PROVE Spec => [](TypeInv /\ Whole /\ Balance)
  OBVIOUS
<1>2. Init => TypeInv /\ Whole /\ Balance
  BY TypeInit, WholeInit, BalanceInit
<1>3. TypeInv /\ Whole /\ Balance /\ [Next]_vars => (TypeInv /\ Whole /\ Balance)'
  BY <1>1, TypeNext, CounterMoves, BalanceNext
<1>4. QED BY <1>2, <1>3, PTL DEF Spec

LEMMA BalanceModulo ==
    ASSUME TypeInv, Balance
    PROVE  IssuedBalances
<1>1. PICK k \in Int : issued + k * Wrap = paid + Total(Outstanding, Conn)
  BY DEF Balance
<1>2. issued \in 0..(Wrap - 1) /\ Wrap \in Nat \ {0}
  BY EmissionAssumption DEF TypeInv, TypeOK
<1>3. (Wrap * k + issued) % Wrap = issued
  BY <1>2
<1>4. Wrap * k + issued = issued + k * Wrap
  BY <1>2
<1>5. QED BY <1>1, <1>3, <1>4 DEF IssuedBalances

\* issued_plur leaks nothing, for any number of connections, any amounts
\* and any failures: it is what was sent on streams that did not fail plus
\* what emissions under way have reserved, modulo its word (direct.rs emit_settlement_cheque), for
\* any cap below the largest word.
THEOREM CounterBalances == Cap + 1 < Wrap /\ Spec => []IssuedBalances
<1>1. TypeInv /\ Whole /\ Balance => IssuedBalances
  BY BalanceModulo
<1>2. QED BY <1>1, BalanceAlways, PTL

-----------------------------------------------------------------------------
(* The spend cap.                                                          *)

\* m bounds every cheque, and the counter has room for the cap and one such
\* cheque on every connection at once.
RoomFor(m) ==
    /\ \A q \in Quotes : \A n \in 0..(Work + Slice) : n * q[1] + q[2] <= m
    /\ Cap + Cardinality(Conn) * m + 1 < Wrap

\* No mix of the peers' quotes makes the counter wrap.
NeverWraps == \E m \in Nat : RoomFor(m)

\* No connection owes more than the fetch is for, so no cheque is larger
\* than that and a slice.
Small(m) ==
    \A c \in Conn :
        /\ debt[c] + reserved[c] + work <= Work
        /\ units[c] <= Work + Slice
        /\ plur[c] <= m

LEMMA SmallInit == \A m \in Nat : Init => Small(m)
  BY EmissionAssumption DEF Init, Small

LEMMA SmallDrive ==
    ASSUME TypeInv, NEW m \in Nat, Small(m), NEW c \in Conn, Drive(c) \/ Served(c)
    PROVE  Small(m)'
<1> USE DEF mirrorVars, loopVars, quoteVars, chequeVars, sharedVars
<1>0. /\ debt \in [Conn -> Nat] /\ reserved \in [Conn -> Nat] /\ work \in Nat
      /\ units \in [Conn -> Nat] /\ prepaid \in [Conn -> Nat] /\ tasks[c] \in Nat
      /\ Work \in Nat /\ Slice \in Nat /\ plur' = plur
  BY EmissionAssumption, DriveStill DEF TypeInv, TypeOK
<1>1. CASE Start(c)
  BY <1>0, <1>1 DEF Start, Begin, Small
<1>2. CASE Top(c)
  BY <1>0, <1>2 DEF Top, Small
<1>3. CASE Admit(c)
  BY <1>0, <1>3 DEF Admit, Small
<1>4. CASE Refresh(c)
  <2>1. PICK n \in 1..debt[c] : debt' = [debt EXCEPT ![c] = @ - n]
    BY <1>4 DEF Refresh
  <2>3. debt'[c] \in Nat /\ debt'[c] <= debt[c] /\ \A d \in Conn \ {c} : debt'[d] = debt[d]
    BY <1>0, <2>1
  <2>4. UNCHANGED <<work, reserved, units>>
    BY <1>4 DEF Refresh
  <2>5. QED BY <1>0, <2>3, <2>4 DEF Small
<1>5. CASE NoRefresh(c)
  BY <1>0, <1>5 DEF NoRefresh, Small
<1>6. CASE Settle(c)
  <2>1. Due(c) \in Nat /\ Due(c) <= debt[c]
    BY <1>0 DEF Due, Unpaid, Monus
  <2>2. Desired(c) > prepaid[c] + Slack => TopUp(c) \in Nat /\ TopUp(c) <= debt[c] + Slice
    BY <1>0, EmissionAssumption DEF Desired, Min2, TopUp
  <2>3. debt[c] <= Work
    BY <1>0 DEF Small
  <2>4. units' = units \/ \E n \in 0..(Work + Slice) : units' = [units EXCEPT ![c] = n]
    BY <1>0, <1>6, <2>1, <2>2, <2>3 DEF Settle, Begin
  <2>5. UNCHANGED <<work, reserved, debt>>
    BY <1>6 DEF Settle
  <2>6. QED BY <1>0, <2>4, <2>5 DEF Small
<1>7. CASE Turn(c)
  BY <1>0, <1>7 DEF Turn, Small
<1>8. CASE Dead(c)
  BY <1>0, <1>8 DEF Dead, Small
<1>9. CASE Served(c)
  BY <1>0, <1>9 DEF Served, Small
<1>10. QED BY <1>1, <1>2, <1>3, <1>4, <1>5, <1>6, <1>7, <1>8, <1>9 DEF Drive

LEMMA SmallEmit ==
    ASSUME TypeInv, NEW m \in Nat, RoomFor(m), Small(m), NEW c \in Conn, Emit(c)
    PROVE  Small(m)'
<1> USE DEF mirrorVars, loopVars, quoteVars, chequeVars, sharedVars
<1>0. /\ debt \in [Conn -> Nat] /\ reserved \in [Conn -> Nat] /\ work \in Nat
      /\ units \in [Conn -> Nat] /\ plur \in [Conn -> Nat]
      /\ Work \in Nat /\ Slice \in Nat
  BY EmissionAssumption DEF TypeInv, TypeOK
<1>1. ASSUME Forget(c), UNCHANGED <<debt, reserved, work>> PROVE Small(m)'
  BY <1>0, <1>1 DEF Forget, Small
<1>2. CASE NoQuote(c)
  BY <1>1, <1>2 DEF NoQuote, EmitFailed
<1>3. ASSUME NEW q \in Quotes, Quote(c, q) PROVE Small(m)'
  <2>1. units[c] \in 0..(Work + Slice)
    BY <1>0 DEF Small
  <2>2. units[c] * q[1] + q[2] <= m
    BY <2>1 DEF RoomFor
  <2>3. plur' = [plur EXCEPT ![c] = units[c] * q[1] + q[2]] /\ UNCHANGED <<debt, reserved, work, units>>
    BY <1>3 DEF Quote
  <2>4. QED BY <1>0, <2>2, <2>3 DEF Small
<1>4. CASE Refuse(c)
  BY <1>1, <1>4 DEF Refuse, EmitFailed
<1>5. CASE Unbacked(c)
  BY <1>1, <1>5 DEF Unbacked, EmitFailed
<1>6. CASE Sign(c)
  BY <1>0, <1>6 DEF Sign, Small
<1>7. CASE WireOk(c)
  BY <1>0, <1>7 DEF WireOk, Small
<1>8. CASE WireErr(c)
  BY <1>1, <1>8 DEF WireErr, EmitFailed
<1>9. CASE Record(c)
  <2>1. debt'[c] \in Nat /\ debt'[c] <= debt[c] /\ \A d \in Conn \ {c} : debt'[d] = debt[d]
    BY <1>0, <1>9 DEF Record, Credit, Monus
  <2>2. UNCHANGED <<reserved, work>> /\ Forget(c)
    BY <1>9 DEF Record
  <2>3. QED BY <1>0, <2>1, <2>2 DEF Small, Forget
<1>10. QED BY <1>2, <1>3, <1>4, <1>5, <1>6, <1>7, <1>8, <1>9 DEF Emit

LEMMA SmallNext ==
    ASSUME TypeInv, NEW m \in Nat, RoomFor(m), Small(m), [Next]_vars
    PROVE  Small(m)'
<1>1. CASE WindDown \/ UNCHANGED vars
  BY <1>1 DEF WindDown, vars, Small, sharedVars, mirrorVars, chequeVars, quoteVars
<1>2. QED BY <1>1, SmallDrive, SmallEmit DEF Next, Done

\* As long as the counter does not wrap it is exact.
LEMMA Exact ==
    ASSUME TypeInv, NEW m \in Nat, RoomFor(m), Small(m), Balance, paid <= Cap
    PROVE  issued = paid + Total(Outstanding, Conn)
<1>1. Outstanding \in Amounts
  BY OutstandingType
<1>2. \A c \in Conn : Outstanding[c] <= m
  <2> SUFFICES ASSUME NEW c \in Conn PROVE Outstanding[c] <= m
    OBVIOUS
  <2>1. plur[c] \in Nat /\ plur[c] <= m /\ Wrap \in Nat
    BY EmissionAssumption DEF Small, TypeInv, TypeOK
  <2>2. QED BY <2>1 DEF Outstanding, Clamp, Min2
<1>3. /\ Total(Outstanding, Conn) \in Nat /\ Cardinality(Conn) \in Nat
      /\ Total(Outstanding, Conn) <= Cardinality(Conn) * m
  BY <1>1, <1>2, TokensBound
<1> DEFINE s == paid + Total(Outstanding, Conn)
<1>4. s \in Nat /\ s < Wrap
  <2>1. Cardinality(Conn) * m \in Nat
    BY <1>3, ProductNat
  <2>2. QED BY <1>3, <2>1, EmissionAssumption DEF RoomFor, TypeInv, TypeOK
<1>5. issued = s % Wrap
  BY BalanceModulo DEF IssuedBalances
<1> HIDE DEF s
<1>6. s % Wrap = s
  BY <1>4, EmissionAssumption
<1>7. QED BY <1>5, <1>6 DEF s

\* Emissions under way are ordered by their reservations: E[c] holds those
\* that came before c's, and maybe connections with nothing reserved.
Ordered(E) ==
    \A c \in Conn :
        /\ c \notin E[c]
        /\ \A d \in Conn \ {c} :
              pc[c] \in Reserving /\ pc[d] \in Reserving /\ d \notin E[c]
                  => c \in E[d] /\ E[c] \subseteq E[d]

\* What will have been paid when all that c's reservation saw, and c, pay.
Upto(E, c) == paid + Total(Outstanding, E[c]) + Outstanding[c]

\* That is within the cap, or the spend guard, which has yet to come, will
\* see as much.
Within(E, c) ==
    pc[c] \in Reserving =>
        \/ Upto(E, c) <= Cap
        \/ pc[c] = "guard" /\ Upto(E, c) <= before[c] + Outstanding[c]

CapInv ==
    /\ paid <= Cap
    /\ \E E \in [Conn -> SUBSET Conn] : Ordered(E) /\ \A c \in Conn : Within(E, c)

LEMMA CapInit == Init => CapInv
<1> SUFFICES ASSUME Init PROVE CapInv
  OBVIOUS
<1>1. paid <= Cap
  BY EmissionAssumption DEF Init
<1> DEFINE E == [c \in Conn |-> {}]
<1>2. E \in [Conn -> SUBSET Conn]
  OBVIOUS
<1>3. \A c \in Conn : pc[c] \notin Reserving /\ c \notin E[c]
  BY DEF Init, Reserving
<1>4. QED BY <1>1, <1>2, <1>3 DEF CapInv, Ordered, Within

\* Upto after a step, spelled out.
LEMMA UptoNext ==
    ASSUME NEW E, NEW c
    PROVE  Upto(E, c)' = paid' + Total(Outstanding', E[c]) + Outstanding'[c]
  BY DEF Upto, Total

LEMMA UptoType ==
    ASSUME TypeInv, NEW E \in [Conn -> SUBSET Conn], NEW c \in Conn
    PROVE  Upto(E, c) \in Nat
<1>1. Outstanding \in Amounts /\ Outstanding[c] \in Nat /\ E[c] \in SUBSET Conn
  BY OutstandingType
<1>2. Total(Outstanding, E[c]) \in Nat
  BY <1>1, TotalType
<1>3. QED BY <1>1, <1>2 DEF Upto, TypeInv, TypeOK

\* A step that leaves the counter alone keeps the order; a guard that lets
\* an emission pass has seen that it is within the cap.
LEMMA CapStill ==
    ASSUME TypeInv, TypeInv', CapInv, Still,
           \A d \in Conn : pc'[d] \in Reserving =>
              /\ pc[d] \in Reserving
              /\ \/ pc'[d] = pc[d] /\ before'[d] = before[d]
                 \/ pc[d] # "guard"
                 \/ before[d] + Outstanding[d] <= Cap
    PROVE  CapInv'
<1>1. PICK E \in [Conn -> SUBSET Conn] : Ordered(E) /\ \A c \in Conn : Within(E, c)
  BY DEF CapInv
<1>2. paid' <= Cap
  BY DEF CapInv, Still
<1>3. Ordered(E)'
  BY <1>1 DEF Ordered
<1>4. ASSUME NEW c \in Conn, pc'[c] \in Reserving
      PROVE  Upto(E, c)' <= Cap \/ (pc'[c] = "guard" /\ Upto(E, c)' <= before'[c] + Outstanding'[c])
  <2>1. /\ Outstanding \in Amounts /\ Outstanding' \in Amounts /\ E[c] \in SUBSET Conn
        /\ \A x \in E[c] : Outstanding'[x] = Outstanding[x]
    BY OutstandingType, OutstandingTypeNext DEF Still
  <2>2. Total(Outstanding', E[c]) = Total(Outstanding, E[c])
    BY <2>1, TotalSame
  <2>3. Upto(E, c)' = Upto(E, c) /\ Outstanding'[c] = Outstanding[c]
    BY <2>2, UptoNext DEF Upto, Still
  <2>4. Upto(E, c) \in Nat /\ before[c] \in Nat /\ Outstanding[c] \in Nat /\ Cap \in Nat
    BY UptoType, OutstandingType, EmissionAssumption DEF TypeInv, TypeOK
  <2>5. pc[c] \in Reserving /\ Within(E, c)
    BY <1>1, <1>4
  <2>6. QED BY <1>4, <2>3, <2>4, <2>5 DEF Within
<1>5. QED BY <1>1, <1>2, <1>3, <1>4 DEF CapInv, Within

\* A reservation comes after all others, and has seen them all.
LEMMA CapReserve ==
    ASSUME TypeInv, TypeInv', CapInv, NEW c \in Conn, Reserves(c),
           issued = paid + Total(Outstanding, Conn),
           pc'[c] = "guard", before'[c] = issued,
           \A d \in Conn \ {c} : pc'[d] = pc[d] /\ before'[d] = before[d]
    PROVE  CapInv'
<1>1. PICK E \in [Conn -> SUBSET Conn] : Ordered(E) /\ \A d \in Conn : Within(E, d)
  BY DEF CapInv
<1> DEFINE F == [d \in Conn |-> IF d = c THEN Conn \ {c} ELSE E[d] \ {c}]
<1>2. /\ F \in [Conn -> SUBSET Conn] /\ F[c] = Conn \ {c}
      /\ \A d \in Conn \ {c} : F[d] = E[d] \ {c} /\ F[d] \in SUBSET Conn
  OBVIOUS
<1>3. /\ Outstanding \in Amounts /\ Outstanding' \in Amounts
      /\ \A d \in Conn : Outstanding[d] \in Nat /\ Outstanding'[d] \in Nat
      /\ Outstanding[c] = 0 /\ paid' = paid /\ paid \in Nat
      /\ \A d \in Conn \ {c} : Outstanding'[d] = Outstanding[d]
  BY OutstandingType, OutstandingTypeNext DEF Reserves, Others, TypeInv, TypeOK
<1> HIDE DEF F
<1>4. Ordered(F)'
  <2> SUFFICES ASSUME NEW d \in Conn, NEW e \in Conn \ {d}, pc'[d] \in Reserving,
                      pc'[e] \in Reserving, e \notin F[d]
               PROVE  d \in F[e] /\ F[d] \subseteq F[e]
    BY <1>1, <1>2 DEF Ordered
  <2>1. d # c
    BY <1>2
  <2>2. CASE e = c
    BY <1>2, <2>1, <2>2
  <2>3. CASE e # c
    BY <1>1, <1>2, <2>1, <2>3 DEF Ordered
  <2>4. QED BY <2>2, <2>3
<1>5. Within(F, c)'
  <2>1. Total(Outstanding', F[c]) = Total(Outstanding, F[c])
    BY <1>2, <1>3, TotalSame
  <2>2. Total(Outstanding, F[c]) <= Total(Outstanding, Conn)
    BY <1>2, <1>3, TotalMonotone
  <2>3. Total(Outstanding, F[c]) \in Nat /\ Total(Outstanding, Conn) \in Nat
    BY <1>2, <1>3, TotalType
  <2>4. Upto(F, c)' <= before'[c] + Outstanding'[c]
    BY <1>3, <2>1, <2>2, <2>3, UptoNext
  <2>5. QED BY <2>4 DEF Within
<1>6. ASSUME NEW d \in Conn \ {c} PROVE Within(F, d)'
  <2>1. E[d] \in SUBSET Conn /\ F[d] \in SUBSET E[d] /\ \A x \in F[d] : Outstanding'[x] = Outstanding[x]
    BY <1>2, <1>3
  <2>2. Total(Outstanding', F[d]) = Total(Outstanding, F[d])
    BY <1>3, <2>1, TotalSame
  <2>3. Total(Outstanding, F[d]) <= Total(Outstanding, E[d])
    BY <1>3, <2>1, TotalMonotone
  <2>4. Total(Outstanding, F[d]) \in Nat /\ Total(Outstanding, E[d]) \in Nat
    BY <1>3, <2>1, TotalType
  <2>5. Upto(F, d)' \in Nat /\ Upto(E, d) \in Nat /\ Upto(F, d)' <= Upto(E, d)
    BY <1>3, <2>2, <2>3, <2>4, UptoNext DEF Upto
  <2>6. Within(E, d) /\ before[d] \in Nat /\ Cap \in Nat
    BY <1>1, EmissionAssumption DEF TypeInv, TypeOK
  <2>7. QED BY <1>3, <2>5, <2>6 DEF Within
<1>7. paid' <= Cap
  BY <1>3 DEF CapInv
<1>8. QED BY <1>2, <1>4, <1>5, <1>6, <1>7 DEF CapInv

\* A reservation that is released only makes room.
LEMMA CapRelease ==
    ASSUME TypeInv, TypeInv', CapInv, NEW c \in Conn, Releases(c), pc'[c] \notin Reserving,
           \A d \in Conn \ {c} : pc'[d] = pc[d] /\ before'[d] = before[d]
    PROVE  CapInv'
<1>1. PICK E \in [Conn -> SUBSET Conn] : Ordered(E) /\ \A d \in Conn : Within(E, d)
  BY DEF CapInv
<1>2. /\ Outstanding \in Amounts /\ Outstanding' \in Amounts
      /\ \A d \in Conn : Outstanding[d] \in Nat /\ Outstanding'[d] \in Nat
      /\ Outstanding'[c] = 0 /\ paid' = paid /\ paid \in Nat
      /\ \A d \in Conn \ {c} : Outstanding'[d] = Outstanding[d]
  BY OutstandingType, OutstandingTypeNext DEF Releases, Others, TypeInv, TypeOK
<1>3. Ordered(E)'
  BY <1>1 DEF Ordered
<1>4. ASSUME NEW d \in Conn \ {c} PROVE Within(E, d)'
  <2>1. E[d] \in SUBSET Conn
    OBVIOUS
  <2>2. Total(Outstanding, E[d]) \in Nat /\ Total(Outstanding', E[d]) \in Nat
    BY <1>2, <2>1, TotalType
  <2>3. Total(Outstanding', E[d]) <= Total(Outstanding, E[d])
    <3>1. CASE c \in E[d]
      <4>1. Total(Outstanding', E[d]) + Outstanding[c] = Total(Outstanding, E[d]) + Outstanding'[c]
        BY <1>2, <2>1, <3>1, TotalChange
      <4>2. QED BY <1>2, <2>2, <4>1
    <3>2. CASE c \notin E[d]
      <4>1. Total(Outstanding', E[d]) = Total(Outstanding, E[d])
        BY <1>2, <2>1, <3>2, TotalSame
      <4>2. QED BY <2>2, <4>1
    <3>3. QED BY <3>1, <3>2
  <2>4. Upto(E, d)' \in Nat /\ Upto(E, d) \in Nat /\ Upto(E, d)' <= Upto(E, d)
    BY <1>2, <2>2, <2>3, UptoNext DEF Upto
  <2>5. Within(E, d) /\ before[d] \in Nat /\ Cap \in Nat
    BY <1>1, EmissionAssumption DEF TypeInv, TypeOK
  <2>6. QED BY <1>2, <2>4, <2>5 DEF Within
<1>5. Within(E, c)'
  BY DEF Within
<1>6. paid' <= Cap
  BY <1>2 DEF CapInv
<1>7. QED BY <1>1, <1>3, <1>4, <1>5, <1>6 DEF CapInv

\* A cheque that is sent was within the cap together with all that were
\* reserved before it; what those reserved later still is.
LEMMA CapPay ==
    ASSUME TypeInv, TypeInv', CapInv, NEW c \in Conn, Pays(c), pc[c] = "wire",
           pc'[c] \notin Reserving,
           \A d \in Conn \ {c} : pc'[d] = pc[d] /\ before'[d] = before[d]
    PROVE  CapInv'
<1>1. PICK E \in [Conn -> SUBSET Conn] : Ordered(E) /\ \A d \in Conn : Within(E, d)
  BY DEF CapInv
<1>2. /\ Outstanding \in Amounts /\ Outstanding' \in Amounts
      /\ \A d \in Conn : Outstanding[d] \in Nat /\ Outstanding'[d] \in Nat
      /\ Outstanding'[c] = 0 /\ paid' = paid + Outstanding[c] /\ paid \in Nat
      /\ \A d \in Conn \ {c} : Outstanding'[d] = Outstanding[d]
      /\ Cap \in Nat
  BY OutstandingType, OutstandingTypeNext, EmissionAssumption DEF Pays, Others, TypeInv, TypeOK
<1>3. E[c] \in SUBSET Conn /\ Total(Outstanding, E[c]) \in Nat
  BY <1>2, TotalType
<1>4. paid + Total(Outstanding, E[c]) + Outstanding[c] <= Cap
  BY <1>1 DEF Within, Upto, Reserving
<1>5. paid' <= Cap
  BY <1>2, <1>3, <1>4
<1>6. Ordered(E)'
  BY <1>1 DEF Ordered
<1>7. ASSUME NEW d \in Conn \ {c}, pc[d] \in Reserving PROVE Within(E, d)'
  <2>1. E[d] \in SUBSET Conn
    OBVIOUS
  <2>2. Total(Outstanding, E[d]) \in Nat /\ Total(Outstanding', E[d]) \in Nat
    BY <1>2, <2>1, TotalType
  <2>3. CASE c \in E[d]
    <3>1. Total(Outstanding', E[d]) + Outstanding[c] = Total(Outstanding, E[d])
      <4>1. Total(Outstanding', E[d]) + Outstanding[c] = Total(Outstanding, E[d]) + Outstanding'[c]
        BY <1>2, <2>1, <2>3, TotalChange
      <4>2. QED BY <1>2, <2>2, <4>1
    <3>2. Upto(E, d)' = Upto(E, d)
      BY <1>2, <2>2, <3>1, UptoNext DEF Upto
    <3>3. QED BY <1>1, <1>2, <3>2 DEF Within
  <2>4. CASE c \notin E[d]
    <3>1. d \in E[c] /\ E[d] \subseteq E[c] /\ d \notin E[d]
      BY <1>1, <1>7, <2>4 DEF Ordered, Reserving
    <3>2. Total(Outstanding, E[d] \cup {d}) = Total(Outstanding, E[d]) + Outstanding[d]
      BY <1>2, <2>1, <3>1, TotalPlus
    <3>3. Total(Outstanding, E[d] \cup {d}) <= Total(Outstanding, E[c])
      <4>1. E[d] \cup {d} \in SUBSET E[c]
        BY <3>1
      <4>2. QED BY <1>2, <1>3, <4>1, TotalMonotone
    <3>4. Total(Outstanding', E[d]) = Total(Outstanding, E[d])
      BY <1>2, <2>1, <2>4, TotalSame
    <3>5. Upto(E, d)' <= Cap
      BY <1>2, <1>3, <1>4, <2>2, <3>2, <3>3, <3>4, UptoNext
    <3>6. QED BY <3>5 DEF Within
  <2>5. QED BY <2>3, <2>4
<1>8. ASSUME NEW d \in Conn PROVE Within(E, d)'
  <2>1. CASE d = c \/ pc'[d] \notin Reserving
    BY <2>1 DEF Within
  <2>2. CASE d # c /\ pc'[d] \in Reserving
    BY <1>7, <2>2
  <2>3. QED BY <2>1, <2>2
<1>9. QED BY <1>1, <1>5, <1>6, <1>8 DEF CapInv

MoneyInv(m) == TypeInv /\ Whole /\ Balance /\ Small(m) /\ CapInv

LEMMA CapNext ==
    ASSUME NEW m \in Nat, RoomFor(m), Cap + 1 < Wrap, MoneyInv(m), TypeInv', [Next]_vars
    PROVE  CapInv'
<1> USE DEF MoneyInv
<1>1. CASE WindDown \/ UNCHANGED vars
  <2>1. UNCHANGED <<pc, plur, before, issued, paid>>
    BY <1>1 DEF WindDown, vars, sharedVars, chequeVars, quoteVars
  <2>2. Still
    BY <2>1, OutstandingFrame DEF Still
  <2>3. QED BY <2>1, <2>2, CapStill
<1>2. ASSUME NEW c \in Conn, Drive(c) \/ Served(c) PROVE CapInv'
  <2>1. /\ Still /\ UNCHANGED before
        /\ \A d \in Conn : pc'[d] = pc[d] \/ {pc[d], pc'[d]} \cap Reserving = {}
    BY <1>2, DriveStill
  <2>2. QED BY <2>1, CapStill
<1>3. ASSUME NEW c \in Conn, NoQuote(c) PROVE CapInv'
  <2>1. pc[c] = "open" /\ EmitFailed(c) /\ UNCHANGED <<issued, paid>>
    BY <1>3 DEF NoQuote, sharedVars
  <2>2. Outstanding[c] = 0
    BY <2>1 DEF Outstanding
  <2>3. /\ pc'[c] \notin Reserving /\ Outstanding'[c] = 0 /\ Others(c)
        /\ \A d \in Conn \ {c} : pc'[d] = pc[d] /\ before'[d] = before[d]
    BY <2>1, FailedFrees
  <2>4. Still
    BY <2>1, <2>2, <2>3 DEF Still, Others
  <2>5. QED BY <2>3, <2>4, CapStill
<1>4. ASSUME NEW c \in Conn, NEW q \in Quotes, Quote(c, q) PROVE CapInv'
  <2>1. issued = paid + Total(Outstanding, Conn)
    BY Exact DEF CapInv
  <2>2. /\ Reserves(c) /\ pc'[c] = "guard" /\ before'[c] = issued
        /\ \A d \in Conn \ {c} : pc'[d] = pc[d] /\ before'[d] = before[d]
    BY <1>4, QuoteReserves
  <2>3. QED BY <2>1, <2>2, CapReserve
<1>5. ASSUME NEW c \in Conn, Refuse(c) \/ Unbacked(c) \/ WireErr(c) PROVE CapInv'
  <2>1. pc[c] \in Reserving /\ EmitFailed(c) /\ Release(c) /\ paid' = paid
    BY <1>5 DEF Refuse, Unbacked, WireErr, Reserving, sharedVars
  <2>2. /\ Releases(c) /\ pc'[c] \notin Reserving
        /\ \A d \in Conn \ {c} : pc'[d] = pc[d] /\ before'[d] = before[d]
    BY <2>1, ReleaseFrees, FailedFrees
  <2>3. QED BY <2>2, CapRelease
<1>6. ASSUME NEW c \in Conn, Sign(c) PROVE CapInv'
  <2>1. /\ Still /\ UNCHANGED before
        /\ pc[c] \in Reserving /\ \A d \in Conn \ {c} : pc'[d] = pc[d]
    BY <1>6, SignStill
  <2>2. Clamp(plur[c]) = plur[c] /\ before[c] + plur[c] <= Cap
    BY <1>6, SignedWhole DEF Sign
  <2>3. Outstanding[c] = Clamp(plur[c])
    BY <2>1 DEF Outstanding, Reserving
  <2>4. before[c] + Outstanding[c] <= Cap
    BY <2>2, <2>3
  <2>5. QED BY <2>1, <2>4, CapStill
<1>7. ASSUME NEW c \in Conn, WireOk(c) PROVE CapInv'
  BY <1>7, SendPays, CapPay
<1>8. ASSUME NEW c \in Conn, Record(c) PROVE CapInv'
  BY <1>8, RecordStill, CapStill
<1>9. QED BY <1>1, <1>2, <1>3, <1>4, <1>5, <1>6, <1>7, <1>8 DEF Next, Emit, Done

-----------------------------------------------------------------------------
(* What payees can cash.                                                   *)

\* A beneficiary has at least what is recorded; a signed cheque asks for at
\* most its amount above what the beneficiary has; and all have at most what
\* was sent, on streams that held and on streams that failed.
CashInv ==
    /\ \A b \in Ben : cum[b] <= held[b] /\ held[b] <= paid + stray
    /\ \A c \in Conn :
          /\ pc[c] = "wire" => newCum[c] <= held[BenOf[c]] + plur[c]
          /\ pc[c] = "record" => newCum[c] <= held[BenOf[c]]
    /\ Total(held, Ben) <= paid + stray

LEMMA CashInit == Init => CashInv
<1> SUFFICES ASSUME Init PROVE CashInv
  OBVIOUS
<1>1. held \in [Ben -> 0..0] /\ Ben \in SUBSET Ben /\ 0 \in Nat
  BY DEF Init
<1>2. Total(held, Ben) \in Nat /\ Total(held, Ben) <= Cardinality(Ben) * 0
      /\ Cardinality(Ben) \in Nat
  BY <1>1, SumBound, EmissionAssumption
<1>3. Total(held, Ben) = 0
  BY <1>2
<1>4. QED BY <1>3 DEF Init, CashInv

\* A step that delivers nothing.
LEMMA CashFrame ==
    ASSUME CashInv, UNCHANGED <<held, paid, stray>>,
           \A b \in Ben : cum'[b] = cum[b] \/ cum'[b] <= held[b],
           \A c \in Conn :
              \/ pc'[c] \notin Sending
              \/ pc'[c] = pc[c] /\ newCum'[c] = newCum[c] /\ plur'[c] = plur[c]
              \/ pc'[c] = "wire" /\ newCum'[c] <= held[BenOf[c]] + plur'[c]
    PROVE  CashInv'
  BY DEF CashInv, Sending, Total

\* A delivery raises what all have by at most the cheque's amount.
LEMMA CashDeliver ==
    ASSUME TypeInv, TypeInv', CashInv, NEW c \in Conn, pc[c] = "wire", Deliver(c),
           cum' = cum, paid' + stray' = paid + stray + plur[c],
           pc'[c] # "wire", pc'[c] = "record" => newCum'[c] = newCum[c],
           \A d \in Conn \ {c} : pc'[d] = pc[d] /\ newCum'[d] = newCum[d] /\ plur'[d] = plur[d]
    PROVE  CashInv'
<1> DEFINE b == BenOf[c]
           n == paid' + stray'
<1>1. /\ held \in [Ben -> Nat] /\ held' \in [Ben -> Nat] /\ cum \in [Ben -> Nat]
      /\ newCum \in [Conn -> Nat] /\ newCum' \in [Conn -> Nat] /\ plur \in [Conn -> Nat]
      /\ paid + stray \in Nat /\ n \in Nat /\ BenOf \in [Conn -> Ben] /\ IsFiniteSet(Ben)
  <2>1. paid \in Nat /\ stray \in Nat /\ paid' \in Nat /\ stray' \in Nat
    BY DEF TypeInv, TypeOK
  <2>2. paid + stray \in Nat /\ paid' + stray' \in Nat
    BY <2>1, SumNat
  <2>3. QED BY <2>2, EmissionAssumption DEF TypeInv, TypeOK
<1>2. newCum[c] <= held[b] + plur[c]
  BY DEF CashInv
<1>3. /\ held' = [held EXCEPT ![b] = IF newCum[c] > @ THEN newCum[c] ELSE @]
      /\ held'[b] >= held[b] /\ held'[b] >= newCum[c] /\ held'[b] <= held[b] + plur[c]
      /\ \A x \in Ben \ {b} : held'[x] = held[x]
  BY <1>1, <1>2 DEF Deliver
<1> HIDE DEF b
<1>4. b \in Ben /\ b = BenOf[c]
  BY <1>1 DEF b
<1>5. \A x \in Ben : held[x] <= paid + stray
  BY DEF CashInv
<1>6. n = paid + stray + plur[c]
  OBVIOUS
<1> HIDE DEF n
<1>7. \A x \in Ben : held[x] <= n /\ held'[x] <= n
  BY <1>1, <1>3, <1>4, <1>5, <1>6
<1>8. held \in [Ben -> 0..n] /\ held' \in [Ben -> 0..n] /\ Ben \in SUBSET Ben
  BY <1>1, <1>7
<1>9. /\ Total(held', Ben) + held[b] = Total(held, Ben) + held'[b]
      /\ Total(held, Ben) \in Nat /\ Total(held', Ben) \in Nat
  <2>1. \A x \in Ben \ {b} : held[x] = held'[x]
    BY <1>3
  <2>2. Total(held', Ben) + held[b] = Total(held, Ben) + held'[b]
    <3> DEFINE f == held
               g == held'
    <3>1. f \in [Ben -> 0..n] /\ g \in [Ben -> 0..n] /\ n \in Nat /\ IsFiniteSet(Ben)
      BY <1>1, <1>8
    <3>2. \A x \in Ben \ {b} : f[x] = g[x]
      BY <2>1
    <3> HIDE DEF f, g
    <3>3. Total(g, Ben) + f[b] = Total(f, Ben) + g[b]
      BY <1>4, <3>1, <3>2, SumChange
    <3>4. QED BY <3>3 DEF f, g
  <2>3. Total(held, Ben) \in Nat /\ Total(held', Ben) \in Nat
    BY <1>1, <1>8, SumType
  <2>4. QED BY <2>2, <2>3
<1>10. Total(held, Ben) <= paid + stray
  BY DEF CashInv
<1>11. Total(held', Ben) <= n
  BY <1>1, <1>3, <1>4, <1>6, <1>9, <1>10
<1>12. \A x \in Ben : cum'[x] <= held'[x]
  BY <1>1, <1>3, <1>4 DEF CashInv
<1>13. ASSUME NEW d \in Conn
       PROVE  /\ pc'[d] = "wire" => newCum'[d] <= held'[BenOf[d]] + plur'[d]
              /\ pc'[d] = "record" => newCum'[d] <= held'[BenOf[d]]
  <2>1. CASE d = c
    BY <1>3, <1>4, <2>1
  <2>2. CASE d # c
    <3>1. held'[BenOf[d]] >= held[BenOf[d]] /\ BenOf[d] \in Ben
      BY <1>1, <1>3, <1>4
    <3>2. /\ pc[d] = "wire" => newCum[d] <= held[BenOf[d]] + plur[d]
          /\ pc[d] = "record" => newCum[d] <= held[BenOf[d]]
      BY DEF CashInv
    <3>3. QED BY <1>1, <2>2, <3>1, <3>2
  <2>3. QED BY <2>1, <2>2
<1>14. QED BY <1>7, <1>11, <1>12, <1>13 DEF CashInv, Total, n

LEMMA CashNext ==
    ASSUME TypeInv, TypeInv', CashInv, [Next]_vars
    PROVE  CashInv'
<1>0. /\ pc \in [Conn -> Where] /\ newCum \in [Conn -> Nat] /\ plur \in [Conn -> Nat]
      /\ cum \in [Ben -> Nat] /\ held \in [Ben -> Nat] /\ BenOf \in [Conn -> Ben]
      /\ paid \in Nat /\ stray \in Nat
  BY EmissionAssumption DEF TypeInv, TypeOK
<1>1. CASE WindDown \/ UNCHANGED vars
  <2>1. UNCHANGED <<pc, newCum, plur, cum, held, paid, stray>>
    BY <1>1 DEF WindDown, vars, sharedVars, chequeVars, quoteVars
  <2>2. QED BY <2>1, CashFrame
<1>2. ASSUME NEW c \in Conn, Drive(c) \/ Served(c) PROVE CashInv'
  <2>1. UNCHANGED <<newCum, plur, cum, held, paid, stray>>
    BY <1>2 DEF Drive, Served, Start, Top, Admit, Refresh, NoRefresh, Settle, Turn, Dead,
               mirrorVars, loopVars, quoteVars, chequeVars, sharedVars
  <2>2. \A d \in Conn : pc'[d] = pc[d] \/ pc'[d] \notin Sending
    <3>1. CASE Served(c) \/ Admit(c)
      BY <3>1 DEF Served, Admit
    <3>2. CASE Start(c) \/ Top(c) \/ Refresh(c) \/ NoRefresh(c) \/ Dead(c)
      BY <1>0, <3>2 DEF Start, Top, Refresh, NoRefresh, Dead, Goto, Begin, Sending
    <3>3. CASE Settle(c) \/ Turn(c)
      BY <1>0, <3>3 DEF Settle, Turn, Goto, Begin, Sending
    <3>4. QED BY <1>2, <3>1, <3>2, <3>3 DEF Drive
  <2>3. QED BY <2>1, <2>2, CashFrame
<1>3. ASSUME NEW c \in Conn, EmitFailed(c), UNCHANGED <<cum, held, paid, stray>> PROVE CashInv'
  <2>1. /\ pc'[c] \notin Sending
        /\ \A d \in Conn \ {c} : pc'[d] = pc[d] /\ newCum'[d] = newCum[d] /\ plur'[d] = plur[d]
    BY <1>0, <1>3 DEF EmitFailed, Goto, After, Forget, Sending
  <2>2. QED BY <1>3, <2>1, CashFrame
<1>4. ASSUME NEW c \in Conn, NoQuote(c) \/ Refuse(c) \/ Unbacked(c) PROVE CashInv'
  BY <1>3, <1>4 DEF NoQuote, Refuse, Unbacked, sharedVars
<1>5. ASSUME NEW c \in Conn, NEW q \in Quotes, Quote(c, q) PROVE CashInv'
  <2>1. /\ pc'[c] = "guard" /\ UNCHANGED <<newCum, cum, held, paid, stray>>
        /\ \A d \in Conn \ {c} : pc'[d] = pc[d] /\ plur'[d] = plur[d]
    BY <1>0, <1>5 DEF Quote, Goto, sharedVars
  <2>2. QED BY <2>1, CashFrame DEF Sending
<1>6. ASSUME NEW c \in Conn, Sign(c) PROVE CashInv'
  <2>1. /\ pc'[c] = "wire" /\ UNCHANGED <<plur, cum, held, paid, stray>>
        /\ newCum'[c] = cum[BenOf[c]] + plur[c]
        /\ \A d \in Conn \ {c} : pc'[d] = pc[d] /\ newCum'[d] = newCum[d]
    BY <1>0, <1>6 DEF Sign, Goto, quoteVars
  <2>2. cum[BenOf[c]] <= held[BenOf[c]] /\ BenOf[c] \in Ben
    BY <1>0 DEF CashInv
  <2>3. newCum'[c] <= held[BenOf[c]] + plur'[c]
    BY <1>0, <2>1, <2>2
  <2>4. QED BY <2>1, <2>3, CashFrame
<1>7. ASSUME NEW c \in Conn, WireOk(c) PROVE CashInv'
  <2>1. /\ pc[c] = "wire" /\ Deliver(c) /\ UNCHANGED <<cum, stray, newCum, plur>>
        /\ paid' = paid + plur[c] /\ pc'[c] = "record"
        /\ \A d \in Conn \ {c} : pc'[d] = pc[d]
    BY <1>0, <1>7 DEF WireOk, Goto, chequeVars, quoteVars
  <2>2. paid' + stray' = paid + stray + plur[c]
    BY <1>0, <2>1
  <2>3. QED BY <2>1, <2>2, CashDeliver
<1>8. ASSUME NEW c \in Conn, WireErr(c) PROVE CashInv'
  <2>1. CASE UNCHANGED <<held, ambiguous, stray>>
    BY <1>3, <1>8, <2>1 DEF WireErr
  <2>2. CASE Deliver(c) /\ stray' = stray + plur[c]
    <3>1. /\ pc[c] = "wire" /\ UNCHANGED <<cum, paid>>
          /\ pc'[c] \in {"closed", "top", "turn"}
          /\ \A d \in Conn \ {c} : pc'[d] = pc[d] /\ newCum'[d] = newCum[d] /\ plur'[d] = plur[d]
      BY <1>0, <1>8 DEF WireErr, EmitFailed, Goto, After, Forget
    <3>2. paid' + stray' = paid + stray + plur[c]
      BY <1>0, <2>2, <3>1
    <3>3. QED BY <2>2, <3>1, <3>2, CashDeliver
  <2>3. QED BY <1>8, <2>1, <2>2 DEF WireErr
<1>9. ASSUME NEW c \in Conn, Record(c) PROVE CashInv'
  <2>1. /\ pc[c] = "record" /\ UNCHANGED <<held, paid, stray>>
        /\ cum' = [cum EXCEPT ![BenOf[c]] = newCum[c]] /\ pc'[c] \notin Sending
        /\ \A d \in Conn \ {c} : pc'[d] = pc[d] /\ newCum'[d] = newCum[d] /\ plur'[d] = plur[d]
    BY <1>0, <1>9 DEF Record, RecordIssued, Goto, After, Forget, Sending
  <2>2. newCum[c] <= held[BenOf[c]]
    BY <2>1 DEF CashInv
  <2>3. \A b \in Ben : cum'[b] = cum[b] \/ cum'[b] <= held[b]
    BY <1>0, <2>1, <2>2
  <2>4. QED BY <2>1, <2>3, CashFrame
<1>10. QED BY <1>1, <1>2, <1>4, <1>5, <1>6, <1>7, <1>8, <1>9 DEF Next, Emit, Done

LEMMA CashAlways == Spec => [](TypeInv /\ CashInv)
<1>1. Init => TypeInv /\ CashInv
  BY TypeInit, CashInit
<1>2. TypeInv /\ CashInv /\ [Next]_vars => (TypeInv /\ CashInv)'
  BY TypeNext, CashNext
<1>3. QED BY <1>1, <1>2, PTL DEF Spec

LEMMA MoneyAlways ==
    ASSUME NEW m \in Nat, RoomFor(m)
    PROVE  Spec => []MoneyInv(m)
<1>1. Cap + 1 < Wrap
  <2>1. Cardinality(Conn) \in Nat
    BY EmissionAssumption, FS_CardinalityType
  <2>2. Cardinality(Conn) * m \in Nat
    BY <2>1, ProductNat
  <2>3. QED BY <2>2, EmissionAssumption DEF RoomFor
<1>2. Init => MoneyInv(m)
  BY TypeInit, WholeInit, BalanceInit, SmallInit, CapInit DEF MoneyInv
<1>3. MoneyInv(m) /\ [Next]_vars => MoneyInv(m)'
  <2> SUFFICES ASSUME MoneyInv(m), [Next]_vars PROVE MoneyInv(m)'
    OBVIOUS
  <2>1. TypeInv'
    BY TypeNext DEF MoneyInv
  <2>2. Whole' /\ Balance' /\ Small(m)'
    BY <1>1, <2>1, CounterMoves, BalanceNext, SmallNext DEF MoneyInv
  <2>3. CapInv'
    BY <1>1, <2>1, CapNext
  <2>4. QED BY <2>1, <2>2, <2>3 DEF MoneyInv
<1>4. QED BY <1>2, <1>3, PTL DEF Spec

\* What all payees can cash after a fetch exceeds the cap by no more than the
\* cheques whose stream failed after delivery, however many connections
\* reserve, release and record in whatever order (direct.rs
\* emit_settlement_cheque, the fetch_add before the spend guard and the
\* release on a wire error), as long as no mix of quotes makes the 64-bit
\* counter wrap.
THEOREM CapHeld == NeverWraps /\ Spec => []SpendCapHeld
<1>1. SUFFICES ASSUME NeverWraps PROVE Spec => []SpendCapHeld
  OBVIOUS
<1>2. PICK m \in Nat : RoomFor(m)
  BY <1>1 DEF NeverWraps
<1>3. MoneyInv(m) /\ TypeInv /\ CashInv => SpendCapHeld
  <2> SUFFICES ASSUME TypeInv, CashInv, CapInv PROVE SpendCapHeld
    BY DEF MoneyInv
  <2>1. paid \in Nat /\ stray \in Nat /\ held \in [Ben -> 0..(paid + stray)]
        /\ paid + stray \in Nat /\ Ben \in SUBSET Ben /\ Cap \in Nat /\ IsFiniteSet(Ben)
    BY EmissionAssumption DEF TypeInv, TypeOK, CashInv
  <2>2. Total(held, Ben) \in Nat
    BY <2>1, SumType
  <2>3. paid <= Cap /\ Total(held, Ben) <= paid + stray
    BY DEF CapInv, CashInv
  <2>4. QED BY <2>1, <2>2, <2>3 DEF SpendCapHeld
<1>4. Spec => []MoneyInv(m)
  BY <1>2, MoneyAlways
<1>5. QED BY <1>3, <1>4, CashAlways, PTL
=============================================================================
