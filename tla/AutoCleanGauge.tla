----------------------------- MODULE AutoCleanGauge -----------------------------
(***************************************************************************)
(* A gauge whose labels disappear some time after they fell to zero        *)
(* (metrics/gauge_clean.go).  All of its operations hold its lock.         *)
(***************************************************************************)
EXTENDS Integers, FiniteSets

CONSTANTS
    Labels,
    Grace     \* graceTime, in ticks of the clock

ASSUME GraceAssumption == Grace \in Nat \ {0}

VARIABLES
    values,    \* of the labels that there are
    zeroAge    \* since when a label is at zero: the ticks since zeroTimes[label]

gaugeVars == <<values, zeroAge>>

GaugeTypeOK ==
    /\ DOMAIN values \subseteq Labels
    /\ \A l \in DOMAIN values : values[l] \in Nat
    /\ DOMAIN zeroAge \subseteq DOMAIN values
    /\ \A l \in DOMAIN zeroAge : zeroAge[l] \in 0 .. Grace

GaugeInit == values = << >> /\ zeroAge = << >>

-----------------------------------------------------------------------------
Put(f, l, value) == [x \in DOMAIN f \cup {l} |-> IF x = l THEN value ELSE f[x]]
Drop(f, S) == [x \in DOMAIN f \ S |-> f[x]]

Value(l) == IF l \in DOMAIN values THEN values[l] ELSE 0

\* Mutant: the label is still taken for one that is at zero.
StaysIdle(l) == UNCHANGED zeroAge

NotIdle(l) == zeroAge' = Drop(zeroAge, {l})

Inc(l) ==
    /\ values' = Put(values, l, Value(l) + 1)
    /\ NotIdle(l)

\* Mutant: the time at which a label fell to zero is not kept.
NeverIdle(l) == UNCHANGED zeroAge

Idle(l) == zeroAge' = Put(zeroAge, l, 0)

Dec(l) ==
    IF Value(l) <= 1
    THEN values' = Put(values, l, 0) /\ Idle(l)
    ELSE values' = Put(values, l, Value(l) - 1) /\ NotIdle(l)

\* performCleanup, which the ticker of cleanupRoutine calls.
performCleanup ==
    LET old == {l \in DOMAIN zeroAge : zeroAge[l] >= Grace} IN
    /\ values' = Drop(values, old)
    /\ zeroAge' = Drop(zeroAge, old)

\* Time passes; ages count up to Grace.
GaugeAges ==
    /\ zeroAge' = [l \in DOMAIN zeroAge |->
                      IF zeroAge[l] < Grace THEN zeroAge[l] + 1 ELSE Grace]
    /\ UNCHANGED values
=============================================================================
