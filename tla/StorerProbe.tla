----------------------------- MODULE StorerProbe -----------------------------
(***************************************************************************)
(* One storer probed over one connection (ds-net/src/direct.rs):           *)
(* probe_storer dials, shakes hands, and retrieves chunks in concurrent    *)
(* tasks that reserve their price under a cap of half the payment          *)
(* threshold, while settlement_loop refreshes and pays by cheque.  A       *)
(* cheque is credited here after a fixed delay, by a detached task; the    *)
(* storer credits it when it has validated it, sooner or later.            *)
(***************************************************************************)
EXTENDS Integers, FiniteSets, Sequences

CONSTANTS
    Price,       \* the price of each chunk, in the order they are asked for
    Depth,       \* opts.pipeline_depth
    Threshold,   \* what the storer announces
    Default,     \* 1 350 000 in the code: used when nothing was announced
    Allowance,   \* units one pseudosettle refresh may settle
    MaxRefresh,  \* bound on the number of accepted refreshes
    MaxFails     \* bound on the number of failing cheque streams

ASSUME ProbeAssumption ==
    /\ Price \in Seq(Nat \ {0})
    /\ Depth \in Nat \ {0}
    /\ Threshold \in Nat /\ Default \in Nat
    /\ Allowance \in Nat /\ MaxRefresh \in Nat
    /\ MaxFails \in Nat

VARIABLES
    phase,       \* probe_storer: dial, v15, v14, greeted, fetch, sweep, bye, failed
    linked,      \* wait_connected: connected_addr is set
    alive,       \* the liveness flag
    cap,         \* reserve_cap
    spawned,     \* number of retrieval tasks spawned
    waiting, flying,        \* tasks looking for room; reserved and requested
    balance, reserved,      \* Accounting: debt and reservations
    pending,     \* pending_cheque_units
    pc,          \* settlement_loop: off, wait, debt, effective,
                 \* emit, last, residual, dead, ended
    finishing,   \* fetch_done was seen
    debt,        \* balance as the loop last read it; while emitting, the units
    residual,    \* summary.residual_debt_units
    open,        \* units of the cheques whose detached task has not run yet
    mid,         \* units a detached task has credited, still in pending
    refreshes, fails        \* counters of the bounds

VARIABLES          \* history
    owed,        \* units received, less refreshes and cheques sent
    unval,       \* units of cheques the storer has not validated
    blur         \* credited, still in pending, when the residual was taken

taskVars == <<spawned, waiting, flying>>
mirrorVars == <<balance, reserved>>
loopVars == <<pc, finishing, debt, residual, blur>>
chequeVars == <<pending, open, mid, unval>>
boundVars == <<refreshes, fails>>
vars == <<phase, linked, alive, cap, taskVars, mirrorVars, loopVars,
          chequeVars, boundVars, owed>>

Chunk == 1..Len(Price)
Monus(a, b) == IF a > b THEN a - b ELSE 0

\* Accounting::credit saturates at zero.
Credited(n) == Monus(balance, n)

\* What the storer's books say this node owes.
PeerLedger == owed + unval

-----------------------------------------------------------------------------
Init ==
    /\ phase = "dial" /\ linked = FALSE
    /\ alive = TRUE /\ cap = 0
    /\ spawned = 0 /\ waiting = {} /\ flying = {}
    /\ balance = 0 /\ reserved = 0 /\ pending = 0
    /\ pc = "off" /\ finishing = FALSE /\ debt = 0 /\ residual = 0
    /\ open = <<>> /\ mid = 0
    /\ refreshes = 0 /\ fails = 0
    /\ owed = 0 /\ unval = 0 /\ blur = 0

-----------------------------------------------------------------------------
(* Dial and handshake.                                                     *)

Early == {"dial", "v15", "v14", "greeted"}
Give == phase' = "failed"

Established ==
    /\ phase = "dial" /\ linked' = TRUE
    /\ UNCHANGED <<phase, alive, cap, taskVars, mirrorVars, loopVars,
                   chequeVars, boundVars, owed>>

\* Identify completes the dial only once the connection is established; a
\* dial error or the timeout gives up.
Identified ==
    /\ phase = "dial"
    /\ \/ linked /\ phase' = "v15"
       \/ Give
    /\ UNCHANGED <<linked, alive, cap, taskVars, mirrorVars, loopVars,
                   chequeVars, boundVars, owed>>

\* The newer wire version, then the older one; the overlay must be the one
\* that was asked for.
Handshake ==
    /\ \/ phase = "v15" /\ phase' \in {"greeted", "v14", "failed"}
       \/ phase = "v14" /\ phase' \in {"greeted", "failed"}
    /\ UNCHANGED <<linked, alive, cap, taskVars, mirrorVars, loopVars,
                   chequeVars, boundVars, owed>>

\* The pricing sink has parsed the storer's announcement by then, or has not.
Announced == {Threshold, Default}

\* The threshold is read once; the settlement task is spawned.
Start ==
    /\ phase = "greeted" /\ phase' = "fetch"
    /\ \E announced \in Announced : cap' = announced \div 2
    /\ pc' = "wait"
    /\ UNCHANGED <<linked, alive, taskVars, mirrorVars, finishing, debt,
                   residual, blur, chequeVars, boundVars, owed>>

HangUp ==
    /\ phase \in {"fetch", "sweep"} /\ alive /\ alive' = FALSE
    /\ UNCHANGED <<phase, linked, cap, taskVars, mirrorVars, loopVars,
                   chequeVars, boundVars, owed>>

-----------------------------------------------------------------------------
(* The retrieval tasks.                                                    *)

\* The semaphore admits another task.
Spawn ==
    /\ phase = "fetch" /\ spawned < Len(Price)
    /\ Cardinality(waiting \cup flying) < Depth
    /\ spawned' = spawned + 1 /\ waiting' = waiting \cup {spawned'}
    /\ UNCHANGED <<phase, linked, alive, cap, flying, mirrorVars,
                   loopVars, chequeVars, boundVars, owed>>

\* Mutant: a task reserves whenever the balance alone leaves room.
ReserveUnlocked(c) ==
    /\ c \in waiting /\ alive
    /\ balance + Price[c] <= cap
    /\ waiting' = waiting \ {c} /\ flying' = flying \cup {c}
    /\ reserved' = reserved + Price[c]
    /\ UNCHANGED <<phase, linked, alive, cap, spawned, balance,
                   loopVars, chequeVars, boundVars, owed>>

\* Under reserve_lock: there is room for the price.
Reserve(c) ==
    /\ c \in waiting /\ alive
    /\ balance + reserved + Price[c] <= cap
    /\ waiting' = waiting \ {c} /\ flying' = flying \cup {c}
    /\ reserved' = reserved + Price[c]
    /\ UNCHANGED <<phase, linked, alive, cap, spawned, balance,
                   loopVars, chequeVars, boundVars, owed>>

\* A task that still looks for room gives up once the peer is gone.
Closed(c) ==
    /\ c \in waiting /\ ~alive
    /\ waiting' = waiting \ {c}
    /\ UNCHANGED <<phase, linked, alive, cap, spawned, flying, mirrorVars,
                   loopVars, chequeVars, boundVars, owed>>

\* retrieve_chunk: guard.apply on success; on error the guard is dropped.
Retrieved(c) ==
    /\ c \in flying /\ flying' = flying \ {c}
    /\ reserved' = reserved - Price[c]
    /\ \/ balance' = balance + Price[c] /\ owed' = owed + Price[c]
       \/ UNCHANGED <<balance, owed>>
    /\ UNCHANGED <<phase, linked, alive, cap, spawned, waiting, loopVars,
                   chequeVars, boundVars>>

\* Every task was joined: fetch_done.notify_one.
Joined ==
    /\ phase = "fetch" /\ spawned = Len(Price) /\ waiting = {} /\ flying = {}
    /\ phase' = "sweep"
    /\ UNCHANGED <<linked, alive, cap, taskVars, mirrorVars, loopVars,
                   chequeVars, boundVars, owed>>

\* The settlement task was joined: disconnect and report.
Bye ==
    /\ phase = "sweep" /\ pc = "ended"
    /\ phase' = "bye" /\ alive' = FALSE
    /\ UNCHANGED <<linked, cap, taskVars, mirrorVars, loopVars, chequeVars,
                   boundVars, owed>>

-----------------------------------------------------------------------------
(* settlement_loop.  The balance is read under the accounting's lock and   *)
(* pending_cheque_units after it, so a credit can come between the two.    *)

Goto(where) == pc' = where

\* The tick, a hot hint or the done notification; a dead connection ends the
\* loop with what is outstanding.
Wake ==
    /\ pc = "wait"
    /\ \/ UNCHANGED finishing
       \/ phase = "sweep" /\ finishing' = TRUE
    /\ IF alive THEN Goto("debt") /\ UNCHANGED debt
                ELSE Goto("dead") /\ debt' = balance
    /\ UNCHANGED <<phase, linked, alive, cap, taskVars, mirrorVars,
                   residual, blur, chequeVars, boundVars, owed>>

\* A due refresh is accepted in part, up to what the storer's books say.
Refresh ==
    /\ pc = "debt" /\ balance > 0 /\ alive
    /\ refreshes < MaxRefresh /\ refreshes' = refreshes + 1
    /\ \E a \in 1..Allowance :
          /\ a <= PeerLedger
          /\ balance' = Credited(a) /\ owed' = owed - a
    /\ UNCHANGED <<phase, linked, alive, cap, taskVars, reserved, loopVars,
                   chequeVars, fails>>

ReadDebt ==
    /\ pc = "debt" /\ debt' = balance /\ Goto("effective")
    /\ UNCHANGED <<phase, linked, alive, cap, taskVars, mirrorVars,
                   finishing, residual, blur, chequeVars, boundVars, owed>>

\* Effective debt excludes cheques emitted and not yet credited.
Effective == Monus(debt, pending)

\* The locals of a turn are gone at its end.
Forget == debt' = 0 /\ blur' = 0

\* A cheque for the effective debt, if one is due.
Cheque(due) ==
    IF due THEN Goto("emit") /\ debt' = Effective /\ blur' = mid
           ELSE Goto(IF finishing THEN "last" ELSE "wait") /\ Forget


\* A cheque is due from the trigger on; in the final sweep, for any debt.
AfterDebt ==
    LET trigger == cap \div 2 IN
    /\ pc = "effective"
    /\ Cheque(IF finishing THEN Effective > 0 ELSE Effective >= trigger)
    /\ UNCHANGED <<phase, linked, alive, cap, taskVars, mirrorVars,
                   finishing, residual, chequeVars, boundVars, owed>>

\* A cheque of n units is on the wire.
Written(n) == alive /\ owed' = owed - n /\ unval' = unval + n

\* Mutant: the units are not added to pending_cheque_units.
EmittedUnpended ==
    /\ pc = "emit" /\ Written(debt)
    /\ IF finishing
       THEN balance' = Credited(debt) /\ UNCHANGED open
       ELSE open' = Append(open, debt) /\ UNCHANGED balance
    /\ Goto(IF finishing THEN "last" ELSE "wait") /\ Forget
    /\ UNCHANGED <<phase, linked, alive, cap, taskVars, reserved, finishing,
                   residual, pending, mid, boundVars>>

\* Mutant: the credit is applied at once and later again.
EmittedEager ==
    /\ pc = "emit" /\ Written(debt)
    /\ balance' = Credited(debt)
    /\ open' = Append(open, debt) /\ pending' = pending + debt
    /\ Goto(IF finishing THEN "last" ELSE "wait") /\ Forget
    /\ UNCHANGED <<phase, linked, alive, cap, taskVars, reserved, finishing,
                   residual, mid, boundVars>>

\* emit_cheque_at_rate returned Ok: the final sweep credits directly, else
\* the units are pending and a detached task credits them later.
Emitted ==
    /\ pc = "emit" /\ Written(debt)
    /\ IF finishing
       THEN balance' = Credited(debt) /\ UNCHANGED <<pending, open>>
       ELSE /\ open' = Append(open, debt) /\ pending' = pending + debt
            /\ UNCHANGED balance
    /\ Goto(IF finishing THEN "last" ELSE "wait") /\ Forget
    /\ UNCHANGED <<phase, linked, alive, cap, taskVars, reserved, finishing,
                   residual, mid, boundVars>>

\* It returned an error, before or after the cheque left: the final sweep
\* reports the debt and ends, else the loop goes on.
EmitFailed ==
    /\ pc = "emit"
    /\ \/ ~alive /\ UNCHANGED fails
       \/ fails < MaxFails /\ fails' = fails + 1
    /\ UNCHANGED <<owed, unval>> \/ Written(debt)
    /\ IF finishing THEN Goto("ended") /\ residual' = debt /\ UNCHANGED <<debt, blur>>
                    ELSE Goto("wait") /\ Forget /\ UNCHANGED residual
    /\ UNCHANGED <<phase, linked, alive, cap, taskVars, mirrorVars,
                   finishing, pending, open, mid, refreshes>>

ReadLast ==
    /\ pc = "last" /\ debt' = balance /\ Goto("residual")
    /\ UNCHANGED <<phase, linked, alive, cap, taskVars, mirrorVars,
                   finishing, residual, blur, chequeVars, boundVars, owed>>

\* Mutant: what is pending is taken off twice.
ResidualShort ==
    LET r == Monus(Monus(debt, pending), pending) IN
    /\ pc \in {"residual", "dead"}
    /\ IF pc = "dead" \/ r = 0
       THEN Goto("ended") /\ residual' = r /\ blur' = mid /\ UNCHANGED debt
       ELSE Goto("wait") /\ Forget /\ UNCHANGED residual
    /\ UNCHANGED <<phase, linked, alive, cap, taskVars, mirrorVars,
                   finishing, chequeVars, boundVars, owed>>

\* The residual of a dead connection, or after the sweep: nothing left ends
\* the loop, else it sweeps once more.
Residual ==
    LET r == Effective IN
    /\ pc \in {"residual", "dead"}
    /\ IF pc = "dead" \/ r = 0
       THEN Goto("ended") /\ residual' = r /\ blur' = mid /\ UNCHANGED debt
       ELSE Goto("wait") /\ Forget /\ UNCHANGED residual
    /\ UNCHANGED <<phase, linked, alive, cap, taskVars, mirrorVars,
                   finishing, chequeVars, boundVars, owed>>

-----------------------------------------------------------------------------
(* The detached task of a cheque: it credits, then takes the units off     *)
(* pending_cheque_units.  Cheques leave at least a tick apart, so the      *)
(* tasks run one after another.                                            *)

CreditLater ==
    /\ phase # "bye" /\ open # <<>> /\ mid = 0
    /\ balance' = Credited(Head(open))
    /\ mid' = Head(open) /\ open' = Tail(open)
    /\ UNCHANGED <<phase, linked, alive, cap, taskVars, reserved, loopVars,
                   pending, unval, boundVars, owed>>

Unpend ==
    /\ phase # "bye" /\ mid > 0
    /\ pending' = pending - mid /\ mid' = 0
    /\ UNCHANGED <<phase, linked, alive, cap, taskVars, mirrorVars,
                   loopVars, open, unval, boundVars, owed>>

\* The storer has validated some cheques and credits them.
Validate ==
    /\ phase # "bye" /\ \E n \in 0..(unval - 1) : unval' = n
    /\ UNCHANGED <<phase, linked, alive, cap, taskVars, mirrorVars,
                   loopVars, pending, open, mid, boundVars, owed>>

-----------------------------------------------------------------------------
Connect == Established \/ Identified \/ Handshake \/ Start
Task(c) == Reserve(c) \/ Closed(c) \/ Retrieved(c)
Settle == Wake \/ ReadDebt \/ AfterDebt \/ Emitted \/ EmitFailed \/ ReadLast \/ Residual
Detached == CreditLater \/ Unpend
Ended == phase \in {"bye", "failed"} /\ UNCHANGED vars

Next == \/ Connect \/ HangUp \/ Refresh \/ Settle
        \/ Spawn
        \/ \E c \in Chunk : Task(c)
        \/ Joined \/ Bye
        \/ Detached \/ Validate
        \/ Ended

Spec == Init /\ [][Next]_vars

(* What the program brings about by itself: the dial's deadline and the    *)
(* timers fire, tasks are scheduled, the done permit is not lost in        *)
(* select!.  The handshake, retrieve_chunk, the refresh and the cheque's   *)
(* stream are awaited without a deadline and are not among these.          *)
FairSpec ==
    /\ Spec
    /\ WF_vars(Identified) /\ WF_vars(Start)
    /\ WF_vars(Wake) /\ WF_vars(AfterDebt) /\ WF_vars(ReadLast) /\ WF_vars(Residual)
    /\ WF_vars(Spawn) /\ WF_vars(Joined) /\ WF_vars(Bye)
    /\ SF_vars(Wake /\ phase = "sweep" /\ finishing')
    /\ \A c \in Chunk : WF_vars(Reserve(c) \/ Closed(c))
    /\ WF_vars(Detached)

\* Every call without a deadline returns, with an answer or an error; the
\* loop leaves "debt" when the refresh, if one was due, has.
StorerAnswers ==
    /\ WF_vars(Handshake)
    /\ \A c \in Chunk : WF_vars(Retrieved(c))
    /\ WF_vars(ReadDebt) /\ WF_vars(Emitted \/ EmitFailed)

-----------------------------------------------------------------------------
(* Properties.                                                             *)

\* Fields have the code's types; the unsigned pending_cheque_units never
\* wraps, whatever the loop and the detached tasks do in between.
TypeOK ==
    /\ phase \in Early \cup {"fetch", "sweep", "bye", "failed"}
    /\ linked \in BOOLEAN /\ alive \in BOOLEAN
    /\ finishing \in BOOLEAN
    /\ pc \in {"off", "wait", "debt", "effective", "emit", "last", "residual",
              "dead", "ended"}
    /\ spawned \in Nat /\ waiting \subseteq Chunk /\ flying \subseteq Chunk
    /\ open \in Seq(Nat) /\ unval \in Nat /\ mid \in Nat /\ blur \in Nat
    /\ \A n \in {cap, balance, reserved, debt, residual, refreshes, fails} : n \in Nat
    /\ pending \in Nat
    /\ owed \in Int

\* "never double-count in-flight cheques": the mirror never shows less than
\* is owed once every cheque under way here is credited.
MirrorCovers == balance >= owed + pending - mid

\* "even a full refill burst on top of a still-unvalidated cheque peaks bee's
\* ledger at ~T": the storer's books, with every reserved chunk added, exceed
\* half the threshold at most by what it has not validated of the cheques
\* already credited here.
PeakBounded == cap > 0 => PeerLedger + reserved <= cap + unval - (pending - mid)

\* The residual the final sweep reports hides no more of the debt than a
\* detached task had credited and not yet taken off pending_cheque_units.
ResidualTruthful == (pc = "ended" /\ finishing) => owed <= residual + blur

\* A chunk that costs more than the whole cap, as when the storer announces
\* less than twice its price, looks for room until the storer hangs up.
TooDear == \E c \in waiting : Price[c] > cap

\* Every probe of a storer that answers returns, unless a chunk is too dear
\* for the threshold: no other task waits for room that no cheque frees.  A
\* storer that keeps a call open keeps the probe, which has no deadline.
Terminates == StorerAnswers => <>(phase \in {"bye", "failed"}) \/ <>[]TooDear
=============================================================================
