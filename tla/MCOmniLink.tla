----------------------------- MODULE MCOmniLink -----------------------------
(***************************************************************************)
(* Instances of OmniLink for TLC.                                          *)
(***************************************************************************)
EXTENDS OmniLinkInvariant, TLC

CONSTANTS c1, c2, r1, r2

\* Both requests on one connection.
OneOwner == [r \in Calls |-> c1]

\* The requests are interchangeable where PushCalls tells none apart; no run
\* that checks liveness uses it.
CallSymmetry == Permutations(Calls)
=============================================================================
