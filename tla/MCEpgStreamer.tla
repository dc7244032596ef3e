---------------------------- MODULE MCEpgStreamer ----------------------------
(* Small instances of EpgStreamer for TLC. *)
EXTENDS EpgStreamer

tv == [kind |-> "tv"]
bad == [kind |-> "bad"]
ch(id, names) == [kind |-> "channel", id |-> id, names |-> names]
pr(id, start) == [kind |-> "programme", channel |-> id, start |-> start, pid |-> 0]

TwoSources == {1, 2}
\* The playlist knows a by its tvg-id and n2 by the hash of its name.
MCIDs == {"a", "b", "x", "y", "h1", "h2", "h3"}
MCPlaylistIDs == {"a", "h2"}
MCNames == {"n1", "n2", "n3"}
MCHashID == [n1 |-> "h1", n2 |-> "h2", n3 |-> "h3"]

\* What a source may hold: two channels and their programmes; more of the second
\* channel by its name; another channel under an id that is known; an element the
\* parser rejects; a channel without a name, or without programmes.
Contents == {
    <<tv, ch("a", <<"n1">>), ch("b", <<"n2">>), pr("a", 1), pr("b", 1), pr("a", 2)>>,
    <<ch("x", <<"n3", "n2">>), pr("x", 1), pr("x", 2), pr("y", 1), pr("x", 3)>>,
    <<ch("a", <<"n3">>), pr("a", 3), ch("b", <<"n2">>), pr("a", 4)>>,
    <<ch("a", <<"n1">>), pr("a", 2), bad, pr("a", 3)>>,
    <<ch("a", <<>>), pr("a", 1)>>,
    <<ch("b", <<"n2">>)>> }

MCItems == UNION {RangeOf(s) : s \in Contents}
MCFeeds == {<<s, t>> : s, t \in Contents}
=============================================================================
