------------------------------- MODULE M3uListing -------------------------------
(***************************************************************************)
(* An M3U listing, line by line: what the decoder makes of it              *)
(* (parser/m3u8/decoder.go) and how the encoder writes one (encoder.go).   *)
(* A line is a record with a kind; lines that no branch of the decoder     *)
(* looks at are of kind "other".                                           *)
(***************************************************************************)
EXTENDS Channels

CONSTANTS
    Whitelisted,   \* the tags that the decoder keeps
    Parts,         \* what commas make of a value, without the spaces around a part
    AttrParts,     \* and of the attributes as they are written
    Found,         \* the attributes that attrRegex finds where attributes and a name are
    TagText,       \* what the line "#key:value" is
    Alone,         \* what the line is that a value has for itself
    Beginnings     \* what is left of a value when its end is cut off

Line == [kind : {"header", "badExtinf", "other"}]
        \cup [kind : {"extinf"}, attrs : Fields(AttrKeys), parts : Seq(Values)]
        \cup [kind : {"tag"}, key : TagKeys, value : Values]
        \cup [kind : {"uri"}, value : Values \ {""}]

HeaderLine == [kind |-> "header"]
OtherLine == [kind |-> "other"]

\* Behind #EXTINF: attributes, then parts that commas separate.
ExtInfLine(attrs, parts) == [kind |-> "extinf", attrs |-> attrs, parts |-> parts]
TagLine(key, value) == [kind |-> "tag", key |-> key, value |-> value]
URILine(value) == [kind |-> "uri", value |-> value]

NoTags == [key \in TagKeys |-> Absent]
NoAttrs == [key \in AttrKeys |-> Absent]
Rejected == [kind |-> "bad"]

ASSUME TagsAssumption == Whitelisted \subseteq TagKeys /\ IsFiniteSet(TagKeys)
ASSUME PartsAssumption ==
    /\ Parts \in [Values -> Seq(Values) \ {<<>>}]
    /\ AttrParts \in [Fields(AttrKeys) -> Seq(Values) \ {<<>>}]
    /\ AttrParts[NoAttrs] = <<"">>
ASSUME FoundAssumption == Found \in [Fields(AttrKeys) \X Values -> Fields(AttrKeys)]
ASSUME LinesAssumption ==
    /\ TagText \in [TagKeys \X Values -> Line]
    /\ \A key \in TagKeys, v \in Values : TagText[<<key, v>>].kind # "uri"
    /\ Alone \in [Values -> Line] /\ Alone[""] = OtherLine
    /\ Beginnings \in [Values -> SUBSET Values]

-----------------------------------------------------------------------------
\* The name is what follows the last comma; without one, all of the rest.
parseExtInfLine(line) ==
    [kind |-> "track", uri |-> "", attrs |-> line.attrs, tags |-> NoTags,
     name |-> CASE Len(line.parts) > 1 -> line.parts[Len(line.parts)]
                [] Len(line.parts) = 1 /\ line.attrs = NoAttrs -> line.parts[1]
                [] OTHER -> ""]

\* The next line.  Until the header is met, every line is an error; after an error
\* the next call goes on with the next line and without a track.
Decode(d, line) ==
    LET failed == [d EXCEPT !.items = Append(@, Rejected), !.track = Absent]
        tagged == [d.track EXCEPT !.tags[line.key] = line.value]
        found  == [d.track EXCEPT !.uri = line.value] IN
    IF ~d.header THEN IF line.kind = "header" THEN [d EXCEPT !.header = TRUE] ELSE failed
    ELSE CASE line.kind = "extinf"    -> [d EXCEPT !.track = parseExtInfLine(line)]
           [] line.kind = "badExtinf" -> failed
           [] d.track # Absent /\ line.kind = "tag" /\ line.key \in Whitelisted ->
                 [d EXCEPT !.track = tagged]
           [] d.track # Absent /\ line.kind = "uri" ->
                 IF line.value \in BadURLs THEN failed
                 ELSE [d EXCEPT !.items = Append(@, found), !.track = Absent]
           [] OTHER -> d

\* What the decoder yields, call after call, up to the end of the file.
Decoded(lines) ==
    LET state[k \in 0 .. Len(lines)] ==
            IF k = 0 THEN [header |-> FALSE, track |-> Absent, items |-> <<>>]
            ELSE Decode(state[k - 1], lines[k])
    IN state[Len(lines)].items

-----------------------------------------------------------------------------
KeySeq(tags) == CHOOSE s \in SetToSeqs({k \in TagKeys : tags[k] # Absent}) : TRUE

\* A name that is not empty follows a comma.
InfoLine(attrs, name) ==
    ExtInfLine(Found[<<attrs, name>>],
               IF name = "" THEN AttrParts[attrs] ELSE AttrParts[attrs] \o Parts[name])

TagTexts(tags) ==
    LET keys == KeySeq(tags) IN [k \in DOMAIN keys |-> TagText[<<keys[k], tags[keys[k]]>>]]

\* Mutant: the tags come behind the URI.
encodeTagsLast(ch, uri) ==
    <<InfoLine(ch.attrs, ch.name)>> \o <<Alone[uri]>> \o TagTexts(ch.tags)

\* Tags are sorted by key.
encodeTrack(ch, uri) ==
    <<InfoLine(ch.attrs, ch.name)>> \o TagTexts(ch.tags) \o <<Alone[uri]>>

\* Nothing at all is written without a channel, else the header first.
Encode(lines, ch, uri) ==
    (IF lines = <<>> THEN <<HeaderLine>> ELSE lines) \o encodeTrack(ch, uri)

-----------------------------------------------------------------------------
\* What a line may be when its end is cut off: the scanner yields it nevertheless.
Torn(line) ==
    IF line.kind = "uri" THEN {Alone[v] : v \in Beginnings[line.value]}
    ELSE {line, OtherLine} \cup {[kind |-> "badExtinf"] : k \in {line.kind} \cap {"extinf"}}

\* What a reader may get of lines when the connection breaks, anywhere.
Cut(lines) ==
    {SubSeq(lines, 1, n) : n \in 0 .. Len(lines)} \cup
    UNION {{Append(SubSeq(lines, 1, n - 1), l) : l \in Torn(lines[n])} : n \in DOMAIN lines}
=============================================================================
