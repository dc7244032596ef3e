-------------------------------- MODULE Channels --------------------------------
(***************************************************************************)
(* The channels of a playlist request and what selectors, patterns and     *)
(* templates of the rules make of them (store/store_channel.go,            *)
(* config/common).  A channel is made from a track and so has a URI; the   *)
(* strings of its fields are Values, and a missing one is Absent.          *)
(***************************************************************************)
EXTENDS Integers, Sequences, SequencesExt

CONSTANTS
    Values,       \* strings, the empty one among them
    AttrKeys,     \* of them, "tvg-id" and "tvg-name"
    TagKeys,
    Playlists,
    Proxied,      \* the playlists whose streams are proxied
    Absent,       \* no entry in a map, no condition, no result
    HashID,       \* GenerateHashID of a value
    URLs,         \* the values that are URLs with a host
    BadURLs,      \* the values that url.Parse rejects
    FileLink,     \* CreateFileURL of a URL
    Conditions    \* those of the rules, and the ones nested in them

ASSUME ValuesAssumption ==
    /\ "" \in Values /\ Absent \notin Values
    /\ {"tvg-id", "tvg-name"} \subseteq AttrKeys
ASSUME LinksAssumption ==
    /\ Proxied \subseteq Playlists
    /\ URLs \subseteq Values /\ BadURLs \subseteq Values \ (URLs \cup {""})
    /\ HashID \in [Values -> Values \ URLs] /\ FileLink \in [URLs -> URLs]

Maybe(S) == S \cup {Absent}
Fields(K) == [K -> Maybe(Values)]

\* A URI that was parsed.
URI == Values \ BadURLs

Track == [kind : {"track"}, name : Values, uri : URI,
          attrs : Fields(AttrKeys), tags : Fields(TagKeys)]

ASSUME TrackAssumption == Absent \notin Track

Stream == [pl : Playlists, url : Values, hidden : BOOLEAN]

Channel == [name : Values, uri : URI, attrs : Fields(AttrKeys), tags : Fields(TagKeys),
            pl : Playlists, hidden : BOOLEAN, removed : BOOLEAN, priority : Nat]

-----------------------------------------------------------------------------
NewChannel(track, pl) ==
    [name |-> track.name, uri |-> track.uri, attrs |-> track.attrs, tags |-> track.tags,
     pl |-> pl, hidden |-> FALSE, removed |-> FALSE, priority |-> 0]

\* A missing or empty tvg-id becomes the hash of the tvg-name or of the name.
ensureTvgID(ch) ==
    LET named == ch.attrs["tvg-name"] \notin {Absent, ""} IN
    IF ch.attrs["tvg-id"] \notin {Absent, ""} THEN ch
    ELSE [ch EXCEPT !.attrs["tvg-id"] = HashID[IF named THEN ch.attrs["tvg-name"] ELSE ch.name]]

\* A selector is a type and, for an attribute or a tag, its key.
Selector == [type : {"name", "url"}, key : {""}]
            \cup [type : {"attr"}, key : AttrKeys] \cup [type : {"tag"}, key : TagKeys]

GetFieldValue(ch, sel) ==
    CASE sel.type = "name" -> ch.name
      [] sel.type = "url"  -> ch.uri
      [] sel.type = "attr" -> ch.attrs[sel.key]
      [] sel.type = "tag"  -> ch.tags[sel.key]

\* What set_field and final_value do with the value of their template.
SetField(ch, sel, value) ==
    CASE sel.type = "name" -> [ch EXCEPT !.name = value]
      [] sel.type = "url"  -> [ch EXCEPT !.uri = value]
      [] sel.type = "attr" -> [ch EXCEPT !.attrs[sel.key] = value]
      [] sel.type = "tag"  -> [ch EXCEPT !.tags[sel.key] = value]

OrEmpty(value) == IF value = Absent THEN "" ELSE value

\* A template is a text, a field of the channel, the name shared by a group of
\* duplicates, or one that fails.
Template == [kind : {"text"}, text : Values] \cup [kind : {"field"}, selector : Selector]
            \cup [kind : {"baseName", "broken"}]

Render(template, ch, baseName) ==
    CASE template.kind = "text"     -> template.text
      [] template.kind = "field"    -> OrEmpty(GetFieldValue(ch, template.selector))
      [] template.kind = "baseName" -> baseName
      [] template.kind = "broken"   -> Absent

\* The template fails, or its value is no URL.
Invalid(sel, value) == value = Absent \/ (sel.type = "url" /\ value \in BadURLs)

-----------------------------------------------------------------------------
\* A pattern: the values it matches, and what is left of each without the match.
\* The empty pattern matches all of them and takes nothing away.
Pattern == [empty : BOOLEAN, matches : SUBSET Values, rest : [Values -> Values]]

MatchString(pattern, value) == pattern.empty \/ value \in pattern.matches

ReplaceAllString(value, pattern) ==
    IF pattern.empty \/ value \notin pattern.matches THEN value ELSE pattern.rest[value]

\* matchesRegexps
MatchesAny(patterns, value) == \E k \in DOMAIN patterns : MatchString(patterns[k], value)

\* A condition's and/or are sets of conditions: testing one changes nothing.
Condition == [selector : Selector, patterns : Seq(Pattern), clients : SUBSET STRING,
              playlists : SUBSET Playlists, and : SUBSET Conditions, or : SUBSET Conditions,
              invert : BOOLEAN]

ASSUME ConditionsAssumption == Conditions \subseteq Condition
=============================================================================
