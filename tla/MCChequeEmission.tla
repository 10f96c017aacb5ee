-------------------------- MODULE MCChequeEmission --------------------------
(* Small instances of ChequeEmission for TLC.                              *)
EXTENDS ChequeEmission, TLC

CONSTANTS c1, c2, b1, b2

\* Each connection has its own beneficiary.
Own == (c1 :> b1) @@ (c2 :> b2)

\* One operator runs both storers.
Common == [c \in Conn |-> b1]

\* What peers announce: one rate; a rate that moves, with a deduction.
Flat == {<<2, 0>>}
Moving == {<<1, 0>>, <<2, 1>>}

NoneParked == [c \in Conn |-> 0]
OneParked == [c \in Conn |-> IF c = c1 THEN 1 ELSE 0]
=============================================================================
