-------------------------- MODULE MCPlaylistStreamer --------------------------
(* Small instances of PlaylistStreamer for TLC. *)
EXTENDS PlaylistStreamer

TwoSources == {1, 2}
MCPlaylistOf == <<"p", "q">>

\* Names are a letter, and for some a number; 77 is too long a number.
MCNames == {"N", "N4", "N9", "M", "M77", "a,b"}
MCAttrKeys == {"tvg-id", "tvg-name"}
MCTagKeys == {"EXTGRP", "EXTINF", "mine"}
MCURLs == {"u1", "u2", "u3", "u4", "icon", "icon'", "l1", "l2", "l3", "l4", "l5"}
MCValues == {"", "a", "b", "#N", "g", "%", "q"} \cup MCNames \cup MCURLs
MCHashID == [v \in MCValues |-> IF v \in {"N", "N4", "N9"} THEN "#N" ELSE "b"]
MCFileLink == [u \in MCURLs |-> IF u = "icon" THEN "icon'" ELSE u]

\* "a,b" has a comma, "q" a quote; a link that is cut off may be another, or none.
MCParts == [v \in MCValues |-> IF v = "a,b" THEN <<"a", "b">> ELSE <<v>>]
MCAttrParts == [attrs \in [MCAttrKeys -> MCValues \cup {Absent}] |->
    IF \E key \in MCAttrKeys : attrs[key] = "a,b" THEN <<"a", "b">> ELSE <<"">>]
MCFound == [p \in [MCAttrKeys -> MCValues \cup {Absent}] \X MCValues |->
    [key \in MCAttrKeys |-> IF p[1][key] = "q" THEN "" ELSE p[1][key]]]
MCTagText == [p \in MCTagKeys \X MCValues |->
    IF p[1] = "EXTINF" THEN [kind |-> "badExtinf"]
    ELSE IF p[1] = "mine" THEN OtherLine ELSE TagLine(p[1], p[2])]
MCAlone == [v \in MCValues |-> IF v \in {"", "#N"} THEN OtherLine ELSE URILine(v)]
MCBeginnings == [v \in MCValues |-> IF v \in MCURLs THEN {"", "a", "%"} ELSE {}]
letter(c) == [digit |-> FALSE, value |-> c]
number(n) == [digit |-> TRUE, value |-> n]
MCChunks == [v \in MCValues |->
    CASE v = "" -> <<>>
      [] v = "N" -> <<letter(14)>>
      [] v = "N4" -> <<letter(14), number(4)>>
      [] v = "N9" -> <<letter(14), number(9)>>
      [] v = "M" -> <<letter(13)>>
      [] v = "M77" -> <<letter(13), number(77)>>
      [] OTHER -> <<letter(1)>>]
MCStreamLink == [v \in MCValues |->
    CASE v = "u1" -> "l1" [] v = "u2" -> "l2" [] v = "u3" -> "l3" [] v = "u4" -> "l4" [] OTHER -> "l5"]

-----------------------------------------------------------------------------
info(id, name) ==
    ExtInfLine([key \in MCAttrKeys |-> IF key = "tvg-id" THEN id ELSE Absent], <<"", name>>)
inGroup == TagLine("EXTGRP", "g")
badExtinf == [kind |-> "badExtinf"]

\* Two channels with one id; the same ids, and one that is a URL, in another source;
\* channels without an id; a broken line, a URI that is none, no header, no channel.
TwoOfOne == <<HeaderLine, info("a", "N4"), inGroup, URILine("u1"), info("a", "N"), URILine("u2"),
              info("b", "M"), URILine("u4")>>
Others   == <<HeaderLine, info("a", "N9"), URILine("u3"), info("icon", "M77"), URILine("u4")>>
NoIDs    == <<HeaderLine, info(Absent, "N9"), inGroup, URILine("u3"), info("", "M"), inGroup, URILine("u4")>>
Icons    == <<HeaderLine, info("icon", "M"), TagLine("mine", "g"), URILine("u1"), info("icon", "M"), URILine("u2")>>
Single   == <<HeaderLine, info("a", "N9"), inGroup, URILine("u2")>>
Broken   == <<HeaderLine, info("a", "N4"), URILine("u1"), info("b", "N"), badExtinf, URILine("u2")>>
BadURI   == <<HeaderLine, info("a", "N4"), URILine("%")>>
NoHeader == <<info("a", "N4"), HeaderLine, URILine("u1")>>
Empty    == <<HeaderLine>>
Pairs == {TwoOfOne, NoIDs, Icons} \X {TwoOfOne, Others, NoIDs, Single}
MCListings == {p \in Pairs : p[1] # p[2]} \cup
              {<<Broken, NoIDs>>, <<Others, BadURI>>, <<NoHeader, Empty>>, <<Empty, Empty>>}
MCItems == Track \cup {Rejected}

-----------------------------------------------------------------------------
byName == [type |-> "name", key |-> ""]
byURL == [type |-> "url", key |-> ""]
byGroup == [type |-> "tag", key |-> "EXTGRP"]
byID == [type |-> "attr", key |-> "tvg-id"]
byTVGName == [type |-> "attr", key |-> "tvg-name"]
byInfo == [type |-> "tag", key |-> "EXTINF"]
byMine == [type |-> "tag", key |-> "mine"]

pattern(vs, base) == [empty |-> FALSE, matches |-> vs,
                      rest |-> [v \in MCValues |-> IF v \in vs THEN base ELSE v]]
anything == [empty |-> TRUE, matches |-> MCValues, rest |-> [v \in MCValues |-> v]]
nine == pattern({"N9"}, "N")
four == pattern({"N4"}, "N")
plain == pattern({"N"}, "")

text(t) == [kind |-> "text", text |-> t]
broken == [kind |-> "broken"]
baseName == [kind |-> "baseName"]
field(sel) == [kind |-> "field", selector |-> sel]

cond(patterns, clients, playlists, and, or, invert) ==
    [selector |-> byName, patterns |-> patterns, clients |-> clients, playlists |-> playlists,
     and |-> and, or |-> or, invert |-> invert]
isFour == cond(<<four>>, {}, {}, {}, {}, FALSE)
inQ == cond(<<>>, {}, {"q"}, {}, {}, FALSE)
notQ == cond(<<>>, {}, {}, {inQ}, {}, TRUE)
fourOrQ == cond(<<>>, {"c1"}, {}, {}, {isFour, inQ}, FALSE)
onlyC1 == cond(<<>>, {"c1"}, {}, {}, {}, FALSE)
MCConditions == {isFour, inQ, notQ, fourOrQ, onlyC1}

set(sel, template, c) ==
    [kind |-> "set_field", condition |-> c, selector |-> sel, template |-> template]
rule(kind, sel, c) ==
    [kind |-> kind, condition |-> c, selector |-> sel, template |-> text("")]
dups(kind, patterns, final, c) ==
    [kind |-> kind, selector |-> byName, patterns |-> patterns, final |-> final, condition |-> c]
final(sel, template) == [selector |-> sel, template |-> template]
sorted(sel, order, groupBy) ==
    [kind |-> "sort", selector |-> sel, order |-> order, groupBy |-> groupBy, condition |-> Absent]

client(name, channelRules, playlistRules) ==
    [name |-> name, channelRules |-> channelRules, playlistRules |-> playlistRules]
mergeAll == dups("merge_duplicates", <<nine, four, anything>>, final(byName, baseName), Absent)
\* Clients with each kind of rule, and with rules that fail.
MCClients == {
    client("c1", <<>>, <<>>),
    client("c1", <<rule("remove_channel", byName, isFour), rule("mark_hidden", byName, notQ)>>,
           <<mergeAll>>),
    client("c1", <<set(byID, field(byName), fourOrQ), rule("remove_field", byGroup, isFour)>>,
           <<dups("merge_duplicates", <<four, nine>>, Absent, onlyC1), mergeAll,
             sorted(byName, <<nine, anything>>, Absent)>>),
    client("c2", <<set(byName, text("a,b"), isFour), rule("remove_field", byID, inQ)>>,
           <<dups("merge_duplicates", <<nine>>, Absent, onlyC1),
             sorted(byName, <<>>, [selector |-> byGroup, order |-> <<anything>>]),
             sorted(byGroup, <<>>, Absent)>>),
    client("c1", <<>>, <<dups("remove_duplicates", <<four, nine>>, final(byURL, text("u3")), Absent),
                         dups("remove_duplicates", <<nine, four>>, Absent, Absent), mergeAll>>),
    client("c1", <<set(byURL, text("%"), isFour)>>, <<>>),
    client("c1", <<set(byURL, text(""), isFour), set(byID, text("a,b"), inQ), set(byName, text(""), inQ),
                   set(byTVGName, text("q"), notQ)>>, <<>>),
    client("c1", <<set(byURL, text("#N"), isFour), set(byInfo, text("b"), notQ),
                   set(byMine, text("b"), inQ)>>, <<>>),
    client("c1", <<>>, <<dups("remove_duplicates", <<four>>, final(byName, broken), Absent)>>)}
=============================================================================
