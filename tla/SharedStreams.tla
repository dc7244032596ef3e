---------------------------- MODULE SharedStreams ----------------------------
(***************************************************************************)
(* What the stream pool promises, with no goroutine in sight: segmenters   *)
(* start and end; a subscription never has more of them active than its    *)
(* concurrency (0: no limit); and, while the server is open, a stream has  *)
(* one at a time, which its viewers share.                                 *)
(***************************************************************************)
EXTENDS Integers, FiniteSets

CONSTANTS Segmenters, Subs, KeyOf, SubOf, Concurrency

VARIABLES active, ended, open

vars == <<active, ended, open>>

Init == active = {} /\ ended = {} /\ open = TRUE

\* The active segmenters of a subscription.
ActiveOn(b) == {s \in active : SubOf[s] = b}

Start(s) ==
    /\ s \notin active \cup ended
    /\ Concurrency[SubOf[s]] > 0 =>
          Cardinality(ActiveOn(SubOf[s])) < Concurrency[SubOf[s]]
    /\ open => \A t \in active : KeyOf[t] # KeyOf[s]
    /\ active' = active \cup {s}
    /\ UNCHANGED <<ended, open>>

End(s) ==
    /\ s \in active
    /\ active' = active \ {s}
    /\ ended' = ended \cup {s}
    /\ UNCHANGED open

ShutDown ==
    /\ open
    /\ open' = FALSE
    /\ UNCHANGED <<active, ended>>

Next == ShutDown \/ \E s \in Segmenters : Start(s) \/ End(s)

Spec == Init /\ [][Next]_vars
=============================================================================
