---------------------------- MODULE ChunkDelivery ----------------------------
(***************************************************************************)
(* What one fetch promises its caller, with no scheduler in it: wanted     *)
(* chunks are stored one at a time, items may be given up (reported as     *)
(* failed, or counted as dropped), and a successful report is made once,   *)
(* only when every item is either in the store or given up.  After the     *)
(* report nothing moves any more.                                          *)
(***************************************************************************)
CONSTANTS Item,     \* the positions of the caller's list of chunk addresses
          Addr,     \* chunk addresses
          AddrOf    \* the address at each position (addresses may repeat)

VARIABLES stored,   \* addresses in the chunk store
          givenUp,  \* items reported as failed or dropped
          outcome   \* "none" until the fetch returns, then "ok" or "err"

vars == <<stored, givenUp, outcome>>

\* A resumed fetch starts with some addresses already in its store.
Init == /\ stored \in SUBSET Addr
        /\ givenUp = {}
        /\ outcome = "none"

Running == outcome = "none"

Store(a) == /\ Running
            /\ stored' = stored \cup {a}
            /\ UNCHANGED <<givenUp, outcome>>

GiveUp(S) == /\ Running
             /\ givenUp' = givenUp \cup S
             /\ UNCHANGED <<stored, outcome>>

\* Every item of the caller's list is accounted for.
Complete == \A i \in Item : AddrOf[i] \in stored \/ i \in givenUp

ReportOk == /\ Running
            /\ Complete
            /\ outcome' = "ok"
            /\ UNCHANGED <<stored, givenUp>>

ReportErr == /\ Running
             /\ outcome' = "err"
             /\ UNCHANGED <<stored, givenUp>>

Next == \/ \E a \in Addr : Store(a)
        \/ \E S \in SUBSET Item : GiveUp(S)
        \/ ReportOk
        \/ ReportErr

Spec == Init /\ [][Next]_vars
=============================================================================
