-------------------------- MODULE MCResumableFetch --------------------------
EXTENDS ResumableFetch, TLC

CONSTANTS r1, r2

\* One file of several commits, one of a single commit.
MCSpan == (r1 :> 5) @@ (r2 :> 3)
=============================================================================
