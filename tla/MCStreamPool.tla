----------------------------- MODULE MCStreamPool -----------------------------
(* Small instances of StreamPool for TLC. *)
EXTENDS StreamPool, TLC

CONSTANTS c1, c2, c3, k1, k2, b1, b2

TwoCalls   == {c1, c2}
ThreeCalls == {c1, c2, c3}

LastCall == IF c3 \in Calls THEN c3 ELSE c2

\* Every call asks for the same stream; or one for a stream of its own.
OneKey  == [c \in Calls |-> k1]
TwoKeys == [c \in Calls |-> IF c = LastCall THEN k2 ELSE k1]
\* All from one client; or the last call from another, on a subscription of its own.
OneSub  == [c \in Calls |-> b1]
TwoSubs == [c \in Calls |-> IF c = LastCall THEN b2 ELSE b1]

\* Concurrency 1.
OnePermit   == [b \in Subs |-> 1]

PairSymmetry  == Permutations({c1, c2})
=============================================================================
