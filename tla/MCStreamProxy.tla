---------------------------- MODULE MCStreamProxy ----------------------------
(* Small instances of StreamProxy for TLC. *)
EXTENDS StreamProxy, TLC

CONSTANTS r1, r2, r3, u1, u2, k1, k2, k3, b1, b2

src(k, b) == [key |-> k, sub |-> b]

\* Two requests of one client and one of another; the first two want one channel,
\* merged from two streams, the third another with a source no longer configured.
MCClientOf  == r1 :> u1 @@ r2 :> u1 @@ r3 :> u2
MCSourcesOf == r1 :> <<src(k1, b1), src(k2, b1)>>
            @@ r2 :> <<src(k1, b1), src(k2, b1)>>
            @@ r3 :> <<src(k3, b2), src(k3, NoSub)>>

OnePermit == [b \in Subs |-> 1]
MCClientLimit == u1 :> 1 @@ u2 :> 2

\* One client and two channels for the runs that follow a request to its end.
TwoRequests == {r1, r2}
TwoClientOf  == r1 :> u1 @@ r2 :> u1
TwoSourcesOf == r1 :> <<src(k1, b1), src(k2, b1)>> @@ r2 :> <<src(k2, b1)>>
NoClientLimit == [c \in Clients |-> 0]

PairSymmetry == Permutations({r1, r2})
=============================================================================
