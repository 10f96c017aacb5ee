-------------------------- MODULE MCFetchScheduler --------------------------
(* Small instances of FetchScheduler for TLC.                              *)
EXTENDS FetchScheduler, TLC

CONSTANTS i1, i2, i3, x, y, near, far, s1, s2

\* Three list entries over two addresses: x is listed twice, both in the
\* neighbourhood the storers cover.
TwoOfOne == (i1 :> x) @@ (i2 :> x) @@ (i3 :> y)
Distinct == (i1 :> x) @@ (i2 :> y)

\* Every chunk is near the storers; and y is where no storer is.
AllNear == [a \in Addr |-> near]
YFar == [a \in Addr |-> IF a = y THEN far ELSE near]
BothNear == [s \in Storer |-> near]
NearMembers == [b \in Bucket |-> IF b = near THEN <<s1, s2>> ELSE <<>>]
OneMember == [b \in Bucket |-> IF b = near THEN <<s1>> ELSE <<>>]
SomeRates == [s \in Storer |-> IF s = s1 THEN 140 ELSE 0]
=============================================================================
