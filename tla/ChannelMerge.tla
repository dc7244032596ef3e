------------------------------ MODULE ChannelMerge ------------------------------
(***************************************************************************)
(* Processor.Process (listing/m3u8/processor.go) after the rules: channels *)
(* with one tvg-id become one channel, whose link carries the streams of   *)
(* all of them.                                                            *)
(***************************************************************************)
EXTENDS Channels

VARIABLES
    channels,         \* the store
    at,               \* the channel that is next
    channelsByID,     \* tvg-id -> channel, 0: none
    channelStreams,   \* channel -> the channels that its streams were made from
    link              \* channel -> what its URI, a proxy link, holds

mergeVars == <<channels, at, channelsByID, channelStreams, link>>

MergeTypeOK ==
    /\ channels \in Seq(Channel)
    /\ at \in 1 .. Len(channels) + 1
    /\ channelsByID \in [Values -> 0 .. Len(channels)]
    /\ DOMAIN channelStreams \subseteq 1 .. Len(channels)
    /\ \A i \in DOMAIN channelStreams : channelStreams[i] \in Seq(1 .. Len(channels))
    /\ DOMAIN link \subseteq DOMAIN channelStreams
    /\ \A i \in DOMAIN link : link[i] \in Seq(Stream)

\* NewProcessor.
MergeStart ==
    /\ at = 1
    /\ channelsByID = [id \in Values |-> 0]
    /\ channelStreams = << >>
    /\ link = << >>

MergeInit == channels \in Seq(Channel) /\ MergeStart

-----------------------------------------------------------------------------
ID(i) == channels[i].attrs["tvg-id"]
HasID(i) == ID(i) \notin {Absent, ""}
IsProxied(i) == channels[i].pl \in Proxied

\* The channel that has the id of channel i, or 0.
findDuplicate(i) == IF HasID(i) THEN channelsByID[ID(i)] ELSE 0

trackChannel(i, id) ==
    channelsByID' = IF id \in {Absent, ""} THEN channelsByID
                    ELSE [channelsByID EXCEPT ![id] = i]

WithEntry(f, i, value) == [j \in DOMAIN f \cup {i} |-> IF j = i THEN value ELSE f[j]]
\* Mutant: the channel that was replaced stays.
WithEveryEntry(f, i) == f

WithoutEntry(f, i) == [j \in DOMAIN f \ {i} |-> f[j]]

createStream(i) ==
    [pl |-> channels[i].pl, url |-> channels[i].uri, hidden |-> channels[i].hidden]

\* Every attribute that is a URL becomes a link, the tvg-id as well.
proxyChannelAttributes(attrs) ==
    [key \in AttrKeys |-> IF attrs[key] \in URLs THEN FileLink[attrs[key]] ELSE attrs[key]]

-----------------------------------------------------------------------------
Turn == at <= Len(channels)

SkipRemoved ==
    /\ Turn
    /\ channels[at].removed
    /\ at' = at + 1
    /\ UNCHANGED <<channels, channelsByID, channelStreams, link>>

AddFirst ==
    /\ Turn
    /\ ~channels[at].removed
    /\ findDuplicate(at) = 0
    /\ LET attrs == IF IsProxied(at) THEN proxyChannelAttributes(channels[at].attrs)
                    ELSE channels[at].attrs IN
       /\ channels' = [channels EXCEPT ![at].attrs = attrs]
       /\ trackChannel(at, attrs["tvg-id"])
    /\ channelStreams' = WithEntry(channelStreams, at, <<at>>)
    /\ at' = at + 1
    /\ UNCHANGED link

\* Mutant: the smaller priority wins.
Worse(i, old) == channels[i].priority < channels[old].priority

Better(i, old) == channels[i].priority > channels[old].priority

\* Mutant: a better source does not take over the streams of the others.
ForgetStreams(i) == <<>>

TakeStreams(i) == channelStreams[i]

\* addStreamToChannel: a better source takes the place of the channel ...
ReplaceBest ==
    /\ Turn
    /\ ~channels[at].removed
    /\ LET old == findDuplicate(at) IN
       /\ old # 0
       /\ Better(at, old)
       /\ channelStreams' =
            WithEntry(WithoutEntry(channelStreams, old), at, <<at>> \o TakeStreams(old))
    /\ trackChannel(at, ID(at))
    /\ at' = at + 1
    /\ UNCHANGED <<channels, link>>

\* ... and another one comes behind all that it has.
AddFallback ==
    /\ Turn
    /\ ~channels[at].removed
    /\ LET old == findDuplicate(at) IN
       /\ old # 0
       /\ ~Better(at, old)
       /\ channelStreams' = [channelStreams EXCEPT ![old] = Append(@, at)]
    /\ at' = at + 1
    /\ UNCHANGED <<channels, channelsByID, link>>

\* updateChannelURI, for every channel of a proxied playlist.
Links == [i \in {j \in DOMAIN channelStreams : IsProxied(j)} |->
             [k \in DOMAIN channelStreams[i] |-> createStream(channelStreams[i][k])]]

LinkChannels ==
    /\ ~Turn
    /\ link' = Links
    /\ UNCHANGED <<channels, at, channelsByID, channelStreams>>

MergeStep == SkipRemoved \/ AddFirst \/ ReplaceBest \/ AddFallback
MergeNext == MergeStep \/ LinkChannels

MergeSpec == MergeInit /\ [][MergeNext]_mergeVars

\* collectResults: the channels of the result are in the order of the store.
Results == {i \in 1 .. Len(channels) : i \in DOMAIN channelStreams}

-----------------------------------------------------------------------------
\* The ids that merging goes by: present, and not themselves rewritten to a link.
PlainID(i) == HasID(i) /\ ID(i) \notin URLs

\* Process: whatever the order and the priorities of the sources, no two channels
\* of the result have the same tvg-id.
OneChannelPerID ==
    \A i, j \in DOMAIN channelStreams : PlainID(i) /\ ID(i) = ID(j) => i = j

IsSource(s, i) == \E k \in DOMAIN channelStreams[i] : channelStreams[i][k] = s

\* addStreamToChannel: each channel met so far that no rule removed is a source of
\* exactly one channel, once, even if that channel was replaced several times.
EverySourceOnce ==
    /\ \A i, j \in DOMAIN channelStreams :
          \A k \in DOMAIN channelStreams[i], l \in DOMAIN channelStreams[j] :
              channelStreams[i][k] = channelStreams[j][l] => i = j /\ k = l
    /\ \A s \in 1 .. at - 1 :
          ~channels[s].removed <=> \E i \in DOMAIN channelStreams : IsSource(s, i)

\* addStreamToChannel: a channel is its own first source and no other source of it
\* has a higher priority, or another tvg-id.
BestSourceFirst ==
    \A i \in DOMAIN channelStreams :
        /\ channelStreams[i] # <<>> /\ channelStreams[i][1] = i
        /\ \A s \in 1 .. at - 1 : IsSource(s, i) =>
              /\ channels[s].priority <= channels[i].priority
              /\ PlainID(s) => ID(s) = ID(i)
=============================================================================
