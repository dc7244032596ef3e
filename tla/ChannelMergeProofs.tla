--------------------------- MODULE ChannelMergeProofs ---------------------------
(***************************************************************************)
(* Merging channels is correct for every store, whatever ids, priorities   *)
(* and playlists its channels have.  The inductive invariant MergeInv says *)
(* besides the properties what channelsByID has to do with the channels    *)
(* that there are: it finds each of them, and nothing else.                *)
(***************************************************************************)
EXTENDS ChannelMerge, SequenceTheorems, TLAPS

\* What is found by its id is a channel of the result so far that has this id.
Tracked ==
    \A id \in Values : channelsByID[id] # 0 =>
        /\ id # ""
        /\ channelsByID[id] \in DOMAIN channelStreams
        /\ ID(channelsByID[id]) = id

\* Each channel of the result so far is found by its id, unless that was rewritten.
Findable == \A i \in DOMAIN channelStreams : PlainID(i) => channelsByID[ID(i)] = i

\* Only channels that were met are in the result and are sources.
Behind ==
    /\ DOMAIN channelStreams \subseteq 1 .. at - 1
    /\ \A i \in DOMAIN channelStreams : channelStreams[i] \in Seq(1 .. at - 1)

\* Links are made when the last channel was met.
Unlinked == Turn => link = << >>

MergeInv ==
    /\ MergeTypeOK /\ Tracked /\ Findable /\ Behind /\ Unlinked
    /\ OneChannelPerID /\ EverySourceOnce /\ BestSourceFirst

-----------------------------------------------------------------------------
\* The next channel is one of the store.
LEMMA NextChannel ==
  ASSUME MergeTypeOK
  PROVE  /\ Len(channels) \in Nat /\ at \in Nat \ {0}
         /\ Turn => at \in 1 .. Len(channels)
  <1>1. channels \in Seq(Channel) /\ at \in 1 .. Len(channels) + 1
    BY DEF MergeTypeOK
  <1>2. Len(channels) \in Nat
    BY <1>1, LenProperties
  <1> QED
    BY <1>1, <1>2 DEF Turn

LEMMA ChannelType ==
  ASSUME MergeTypeOK, NEW i \in 1 .. Len(channels)
  PROVE  /\ channels[i] \in Channel
         /\ ID(i) \in Maybe(Values)
         /\ channels[i].priority \in Nat /\ channels[i].removed \in BOOLEAN
         /\ createStream(i) \in Stream
  <1>1. channels[i] \in Channel
    BY ElementOfSeq DEF MergeTypeOK
  <1>2. channels[i].attrs["tvg-id"] \in Maybe(Values)
    BY <1>1, ValuesAssumption DEF Channel, Fields
  <1>3. createStream(i) \in Stream
    BY <1>1 DEF Channel, URI, createStream, Stream
  <1> QED
    BY <1>1, <1>2, <1>3 DEF Channel, ID

\* Rewriting keeps the type, and an id is either kept or becomes a URL.
LEMMA ProxiedAttributes ==
  ASSUME NEW attrs \in Fields(AttrKeys)
  PROVE  /\ proxyChannelAttributes(attrs) \in Fields(AttrKeys)
         /\ \/ proxyChannelAttributes(attrs)["tvg-id"] = attrs["tvg-id"]
            \/ /\ proxyChannelAttributes(attrs)["tvg-id"] \in URLs
  BY ValuesAssumption, LinksAssumption DEF Fields, Maybe, proxyChannelAttributes

\* A duplicate is a channel of the result with the same id.
LEMMA DuplicateFound ==
  ASSUME MergeTypeOK, Tracked, Turn, findDuplicate(at) # 0
  PROVE  /\ HasID(at) /\ ID(at) \in Values
         /\ channelsByID[ID(at)] = findDuplicate(at)
         /\ findDuplicate(at) \in DOMAIN channelStreams
         /\ ID(findDuplicate(at)) = ID(at)
  <1>1. at \in 1 .. Len(channels)
    BY NextChannel
  <1>2. HasID(at) /\ findDuplicate(at) = channelsByID[ID(at)]
    BY DEF findDuplicate
  <1>3. ID(at) \in Values
    BY <1>1, <1>2, ChannelType DEF HasID, Maybe
  <1> QED
    BY <1>2, <1>3 DEF Tracked

\* A sequence with one more element at its front.
LEMMA FrontProperties ==
  ASSUME NEW S, NEW e \in S, NEW t \in Seq(S)
  PROVE  /\ <<e>> \o t \in Seq(S)
         /\ Len(<<e>> \o t) = Len(t) + 1
         /\ (<<e>> \o t)[1] = e
         /\ \A k \in 2 .. Len(t) + 1 : (<<e>> \o t)[k] = t[k - 1]
  <1>1. <<e>> \in Seq(S) /\ Len(<<e>>) = 1 /\ <<e>>[1] = e
    <2>1. << >> \in Seq(S) /\ Append(<< >>, e) = <<e>>
      OBVIOUS
    <2> QED
      BY <2>1, AppendProperties, EmptySeq
  <1>2. Len(t) \in Nat
    BY LenProperties
  <1>3. /\ <<e>> \o t \in Seq(S) /\ Len(<<e>> \o t) = 1 + Len(t)
        /\ \A k \in 1 .. 1 + Len(t) :
              (<<e>> \o t)[k] = IF k <= 1 THEN <<e>>[k] ELSE t[k - 1]
    BY <1>1, ConcatProperties
  <1> QED
    BY <1>1, <1>2, <1>3

-----------------------------------------------------------------------------
(* What the three ways to meet a channel make of the state. *)

\* AddFirst: the channel may be rewritten and is its own only source.
LEMMA AddFirstResult ==
  ASSUME MergeInv, AddFirst, NEW a, a = at
  PROVE  /\ a \in 1 .. Len(channels) /\ at' = a + 1 /\ ~channels[a].removed
         /\ channels' \in Seq(Channel) /\ Len(channels') = Len(channels)
         /\ \A i \in 1 .. Len(channels) :
               /\ channels'[i].priority = channels[i].priority
               /\ channels'[i].removed = channels[i].removed
               /\ i # a => channels'[i] = channels[i]
         /\ ID(a)' = ID(a) \/ ID(a)' \in URLs
         /\ DOMAIN channelStreams' = DOMAIN channelStreams \cup {a}
         /\ a \notin DOMAIN channelStreams
         /\ channelStreams'[a] = <<a>>
         /\ \A i \in DOMAIN channelStreams : channelStreams'[i] = channelStreams[i]
         /\ channelsByID' = IF HasID(a)' THEN [channelsByID EXCEPT ![ID(a)'] = a]
                             ELSE channelsByID
         /\ ID(a)' \in Maybe(Values)
  <1> DEFINE attrs == IF IsProxied(a) THEN proxyChannelAttributes(channels[a].attrs)
                      ELSE channels[a].attrs
  <1>1. /\ a \in 1 .. Len(channels) /\ at' = a + 1 /\ ~channels[a].removed
        /\ channels' = [channels EXCEPT ![a].attrs = attrs]
        /\ trackChannel(a, attrs["tvg-id"])
        /\ channelStreams' = WithEntry(channelStreams, a, <<a>>)
    BY NextChannel DEF MergeInv, AddFirst
  <1>2. channels[a] \in Channel /\ channels \in Seq(Channel)
    BY <1>1, ChannelType DEF MergeInv, MergeTypeOK
  <1>3. attrs \in Fields(AttrKeys) /\ (attrs["tvg-id"] = ID(a) \/ attrs["tvg-id"] \in URLs)
    BY <1>2, ProxiedAttributes DEF Channel, ID
  <1>4. [channels[a] EXCEPT !.attrs = attrs] \in Channel
    BY <1>2, <1>3 DEF Channel
  <1>5. channels' = [channels EXCEPT ![a] = [channels[a] EXCEPT !.attrs = attrs]]
    BY <1>1
  <1> HIDE DEF attrs
  <1>6. /\ channels' \in Seq(Channel) /\ Len(channels') = Len(channels)
        /\ \A i \in 1 .. Len(channels) :
              channels'[i] = IF i = a THEN [channels[a] EXCEPT !.attrs = attrs]
                             ELSE channels[i]
    BY <1>1, <1>2, <1>4, <1>5, ExceptSeq
  <1>7. \A i \in 1 .. Len(channels) :
           /\ channels'[i].priority = channels[i].priority
           /\ channels'[i].removed = channels[i].removed
           /\ i # a => channels'[i] = channels[i]
    BY <1>2, <1>6 DEF Channel
  <1>8. ID(a)' = attrs["tvg-id"]
    BY <1>1, <1>2, <1>6 DEF ID, Channel
  <1>9. attrs["tvg-id"] \in Maybe(Values)
    BY <1>3, ValuesAssumption DEF Fields
  <1>10. channelsByID' = IF HasID(a)' THEN [channelsByID EXCEPT ![ID(a)'] = a]
                         ELSE channelsByID
    BY <1>1, <1>8 DEF trackChannel, HasID
  <1>11. a \notin DOMAIN channelStreams
    BY <1>1, NextChannel DEF MergeInv, Behind
  <1>12. /\ DOMAIN channelStreams' = DOMAIN channelStreams \cup {a}
         /\ channelStreams'[a] = <<a>>
         /\ \A i \in DOMAIN channelStreams : channelStreams'[i] = channelStreams[i]
    BY <1>1, <1>11 DEF WithEntry
  <1> QED
    BY <1>1, <1>3, <1>6, <1>7, <1>8, <1>9, <1>10, <1>11, <1>12

\* ReplaceBest: the channel takes the place of the one with its id and has its sources.
LEMMA ReplaceBestResult ==
  ASSUME MergeInv, ReplaceBest, NEW a, a = at, NEW old, old = findDuplicate(at)
  PROVE  /\ a \in 1 .. Len(channels) /\ at' = a + 1 /\ ~channels[a].removed
         /\ channels' = channels /\ link' = link
         /\ HasID(a) /\ ID(a) \in Values /\ channelsByID[ID(a)] = old
         /\ old \in DOMAIN channelStreams /\ ID(old) = ID(a) /\ a \notin DOMAIN channelStreams
         /\ channels[a].priority > channels[old].priority
         /\ DOMAIN channelStreams' = (DOMAIN channelStreams \ {old}) \cup {a}
         /\ \A i \in DOMAIN channelStreams \ {old} : channelStreams'[i] = channelStreams[i]
         /\ channelStreams'[a] = <<a>> \o channelStreams[old]
         /\ channelsByID' = [channelsByID EXCEPT ![ID(a)] = a]
  <1>1. Turn /\ MergeTypeOK /\ Tracked /\ findDuplicate(at) # 0
    BY DEF ReplaceBest, MergeInv
  <1>2. /\ HasID(a) /\ ID(a) \in Values /\ channelsByID[ID(a)] = old
        /\ old \in DOMAIN channelStreams /\ ID(old) = ID(a)
    BY <1>1, DuplicateFound
  <1>3. a \in 1 .. Len(channels) /\ a \notin DOMAIN channelStreams
    BY <1>1, NextChannel DEF MergeInv, Behind
  <1>4. channelStreams' = WithEntry(WithoutEntry(channelStreams, old), a,
                                    <<a>> \o channelStreams[old])
    BY DEF ReplaceBest, TakeStreams
  <1>5. trackChannel(a, ID(a)) /\ channels[a].priority > channels[old].priority
    BY DEF ReplaceBest, Better
  <1>6. /\ DOMAIN channelStreams' = (DOMAIN channelStreams \ {old}) \cup {a}
        /\ \A i \in DOMAIN channelStreams \ {old} : channelStreams'[i] = channelStreams[i]
        /\ channelStreams'[a] = <<a>> \o channelStreams[old]
    BY <1>3, <1>4 DEF WithEntry, WithoutEntry
  <1> QED
    BY <1>2, <1>3, <1>5, <1>6 DEF ReplaceBest, trackChannel, HasID

\* AddFallback: the channel is one more source of the one with its id.
LEMMA AddFallbackResult ==
  ASSUME MergeInv, AddFallback, NEW a, a = at, NEW old, old = findDuplicate(at)
  PROVE  /\ a \in 1 .. Len(channels) /\ at' = a + 1 /\ ~channels[a].removed
         /\ channels' = channels /\ link' = link /\ channelsByID' = channelsByID
         /\ HasID(a) /\ old \in DOMAIN channelStreams /\ ID(old) = ID(a)
         /\ ~(channels[a].priority > channels[old].priority)
         /\ DOMAIN channelStreams' = DOMAIN channelStreams
         /\ \A i \in DOMAIN channelStreams \ {old} : channelStreams'[i] = channelStreams[i]
         /\ channelStreams'[old] = Append(channelStreams[old], a)
  <1>1. Turn /\ MergeTypeOK /\ Tracked /\ findDuplicate(at) # 0
    BY DEF AddFallback, MergeInv
  <1>2. HasID(a) /\ old \in DOMAIN channelStreams /\ ID(old) = ID(a)
    BY <1>1, DuplicateFound
  <1>3. a \in 1 .. Len(channels)
    BY <1>1, NextChannel
  <1>4. channelStreams' = [channelStreams EXCEPT ![old] = Append(channelStreams[old], a)]
    BY DEF AddFallback
  <1> QED
    BY <1>2, <1>3, <1>4 DEF AddFallback, Better

-----------------------------------------------------------------------------
(* The invariant holds in the beginning ... *)

LEMMA InitInv == MergeInit => MergeInv
  <1> SUFFICES ASSUME MergeInit PROVE MergeInv
    OBVIOUS
  <1> USE DEF MergeInit, MergeStart
  <1>1. channels \in Seq(Channel) /\ Len(channels) \in Nat
    BY LenProperties
  <1>2. DOMAIN channelStreams = {} /\ DOMAIN link = {}
    OBVIOUS
  <1>3. MergeTypeOK
    BY <1>1, <1>2 DEF MergeTypeOK
  <1>4. Tracked /\ Findable /\ Behind /\ Unlinked
    BY <1>1, <1>2 DEF Tracked, Findable, Behind, Unlinked
  <1>5. OneChannelPerID /\ EverySourceOnce /\ BestSourceFirst
    BY <1>1, <1>2 DEF OneChannelPerID, EverySourceOnce, BestSourceFirst
  <1> QED
    BY <1>3, <1>4, <1>5 DEF MergeInv

\* Sources are channels that were met before.
LEMMA SourcesMet ==
  ASSUME MergeInv, NEW i \in DOMAIN channelStreams
  PROVE  /\ i \in 1 .. Len(channels) /\ i \in 1 .. at - 1
         /\ channelStreams[i] \in Seq(1 .. at - 1)
         /\ Len(channelStreams[i]) \in Nat
         /\ DOMAIN channelStreams[i] = 1 .. Len(channelStreams[i])
         /\ \A k \in DOMAIN channelStreams[i] :
               channelStreams[i][k] \in 1 .. at - 1 /\ channelStreams[i][k] \in 1 .. Len(channels)
  <1>1. i \in 1 .. at - 1 /\ channelStreams[i] \in Seq(1 .. at - 1)
    BY DEF MergeInv, Behind
  <1>2. /\ Len(channelStreams[i]) \in Nat
        /\ DOMAIN channelStreams[i] = 1 .. Len(channelStreams[i])
    BY <1>1, LenProperties
  <1>3. \A k \in DOMAIN channelStreams[i] : channelStreams[i][k] \in 1 .. at - 1
    BY <1>1, <1>2, ElementOfSeq
  <1>4. at \in 1 .. Len(channels) + 1 /\ Len(channels) \in Nat
    BY NextChannel DEF MergeInv, MergeTypeOK
  <1> QED
    BY <1>1, <1>2, <1>3, <1>4

(* ... and each step preserves it. *)

LEMMA SkipRemovedInv == MergeInv /\ SkipRemoved => MergeInv'
  <1> SUFFICES ASSUME MergeInv, SkipRemoved PROVE MergeInv'
    OBVIOUS
  <1>1. /\ at \in 1 .. Len(channels) /\ at \in Nat /\ Len(channels) \in Nat
        /\ channels[at].removed
        /\ at' = at + 1
        /\ UNCHANGED <<channels, channelsByID, channelStreams, link>>
    BY NextChannel DEF MergeInv, SkipRemoved
  <1>2. MergeTypeOK'
    BY <1>1 DEF MergeInv, MergeTypeOK
  <1>3. Tracked'
    BY <1>1 DEF MergeInv, Tracked, ID
  <1>4. Findable'
    BY <1>1 DEF MergeInv, Findable, PlainID, HasID, ID
  <1>5. Behind'
    <2>1. 1 .. at - 1 \subseteq 1 .. at' - 1
      BY <1>1
    <2>2. \A i \in DOMAIN channelStreams : channelStreams[i] \in Seq(1 .. at' - 1)
      BY <2>1, SourcesMet, SeqMonotonic
    <2> QED
      BY <1>1, <2>1, <2>2 DEF MergeInv, Behind
  <1>6. Unlinked'
    BY <1>1 DEF MergeInv, Unlinked, Turn, SkipRemoved
  <1>7. OneChannelPerID'
    BY <1>1 DEF MergeInv, OneChannelPerID, PlainID, HasID, ID
  <1>8. EverySourceOnce'
    <2>1. ~\E i \in DOMAIN channelStreams : IsSource(at, i)
      BY <1>1, SourcesMet DEF IsSource
    <2>2. 1 .. at' - 1 = (1 .. at - 1) \cup {at}
      BY <1>1
    <2>3. \A s, i : IsSource(s, i)' <=> IsSource(s, i)
      BY <1>1 DEF IsSource
    <2> QED
      BY <1>1, <2>1, <2>2, <2>3 DEF MergeInv, EverySourceOnce
  <1>9. BestSourceFirst'
    <2>1. \A s, i : IsSource(s, i)' <=> IsSource(s, i)
      BY <1>1 DEF IsSource
    <2>2. ~\E i \in DOMAIN channelStreams : IsSource(at, i)
      BY <1>1, SourcesMet DEF IsSource
    <2>3. \A s \in 1 .. at' - 1 : s \in 1 .. at - 1 \/ s = at
      BY <1>1
    <2>4. \A s : (PlainID(s)' <=> PlainID(s)) /\ ID(s)' = ID(s)
      BY <1>1 DEF PlainID, HasID, ID
    <2>5. BestSourceFirst
      BY DEF MergeInv
    <2> QED
      BY <1>1, <2>1, <2>2, <2>3, <2>4, <2>5 DEF BestSourceFirst
  <1> QED
    BY <1>2, <1>3, <1>4, <1>5, <1>6, <1>7, <1>8, <1>9 DEF MergeInv

LEMMA LinkChannelsInv == MergeInv /\ LinkChannels => MergeInv'
  <1> SUFFICES ASSUME MergeInv, LinkChannels PROVE MergeInv'
    OBVIOUS
  <1>1. /\ link' = Links /\ ~Turn
        /\ UNCHANGED <<channels, at, channelsByID, channelStreams>>
    BY DEF LinkChannels
  <1>2. MergeTypeOK'
    <2>1. DOMAIN Links \subseteq DOMAIN channelStreams
      BY DEF Links
    <2>2. \A i \in DOMAIN Links : Links[i] \in Seq(Stream)
      <3> SUFFICES ASSUME NEW i \in DOMAIN Links PROVE Links[i] \in Seq(Stream)
        OBVIOUS
      <3>1. Links[i] = [k \in 1 .. Len(channelStreams[i]) |-> createStream(channelStreams[i][k])]
        BY <2>1, SourcesMet DEF Links
      <3>2. /\ Len(channelStreams[i]) \in Nat
            /\ \A k \in 1 .. Len(channelStreams[i]) :
                  createStream(channelStreams[i][k]) \in Stream
        BY <2>1, SourcesMet, ChannelType DEF MergeInv
      <3> QED
        BY <3>1, <3>2, IsASeq
    <2> QED
      BY <1>1, <2>1, <2>2 DEF MergeInv, MergeTypeOK
  <1>3. Tracked' /\ Findable' /\ Behind' /\ Unlinked'
    BY <1>1 DEF MergeInv, Tracked, Findable, Behind, Unlinked, Turn, PlainID, HasID, ID
  <1>4. OneChannelPerID' /\ EverySourceOnce'
    <2>1. \A s, i : (IsSource(s, i)' <=> IsSource(s, i)) /\ (PlainID(i)' <=> PlainID(i))
      BY <1>1 DEF IsSource, PlainID, HasID, ID
    <2>2. OneChannelPerID'
      BY <1>1, <2>1 DEF MergeInv, OneChannelPerID, ID
    <2>3. EverySourceOnce'
      BY <1>1, <2>1 DEF MergeInv, EverySourceOnce
    <2> QED
      BY <2>2, <2>3
  <1>5. BestSourceFirst'
    <2>1. \A s, i : IsSource(s, i)' <=> IsSource(s, i)
      BY <1>1 DEF IsSource
    <2> QED
      BY <1>1, <2>1 DEF MergeInv, BestSourceFirst, PlainID, HasID, ID
  <1> QED
    BY <1>2, <1>3, <1>4, <1>5 DEF MergeInv

LEMMA AddFirstInv == MergeInv /\ AddFirst => MergeInv'
  <1> SUFFICES ASSUME MergeInv, AddFirst, NEW a, a = at PROVE MergeInv'
    OBVIOUS
  <1>1. /\ a \in 1 .. Len(channels) /\ at' = a + 1 /\ ~channels[a].removed
        /\ channels' \in Seq(Channel) /\ Len(channels') = Len(channels)
        /\ \A i \in 1 .. Len(channels) :
              /\ channels'[i].priority = channels[i].priority
              /\ channels'[i].removed = channels[i].removed
              /\ i # a => channels'[i] = channels[i]
        /\ ID(a)' = ID(a) \/ ID(a)' \in URLs
        /\ ID(a)' \in Maybe(Values)
    BY AddFirstResult
  <1>2. /\ DOMAIN channelStreams' = DOMAIN channelStreams \cup {a}
        /\ a \notin DOMAIN channelStreams
        /\ channelStreams'[a] = <<a>>
        /\ \A i \in DOMAIN channelStreams : channelStreams'[i] = channelStreams[i]
    BY AddFirstResult
  <1>3. channelsByID' = IF HasID(a)' THEN [channelsByID EXCEPT ![ID(a)'] = a]
                        ELSE channelsByID
    BY AddFirstResult
  <1>4. \A i \in DOMAIN channelStreams :
           i # a /\ ID(i)' = ID(i) /\ (PlainID(i)' <=> PlainID(i))
    BY <1>1, <1>2, SourcesMet DEF PlainID, HasID, ID
  <1>5. Len(channels) \in Nat /\ a \in Nat /\ channelsByID \in [Values -> 0 .. Len(channels)]
    BY <1>1, NextChannel DEF MergeInv, MergeTypeOK
  <1>6. 1 .. at' - 1 = (1 .. at - 1) \cup {a}
    BY <1>1, <1>5
  <1>7. HasID(a)' => ID(a)' \in Values
    BY <1>1 DEF HasID, Maybe
  <1>8. Len(<<a>>) = 1 /\ <<a>>[1] = a /\ DOMAIN <<a>> = {1} /\ <<a>> \in Seq(1 .. at' - 1)
    BY <1>6
  <1>9. link' = link /\ link = << >> /\ DOMAIN link = {}
    BY DEF AddFirst, MergeInv, Unlinked
  <1>10. MergeTypeOK'
    <2>1. at' \in 1 .. Len(channels') + 1
      BY <1>1, <1>5
    <2>2. channelsByID' \in [Values -> 0 .. Len(channels')]
      BY <1>1, <1>3, <1>5, <1>7
    <2>3. /\ DOMAIN channelStreams' \subseteq 1 .. Len(channels')
          /\ \A i \in DOMAIN channelStreams' : channelStreams'[i] \in Seq(1 .. Len(channels'))
      <3>1. <<a>> \in Seq(1 .. Len(channels))
        BY <1>1
      <3> QED
        BY <1>1, <1>2, <3>1 DEF MergeInv, MergeTypeOK
    <2> QED
      BY <1>1, <1>9, <2>1, <2>2, <2>3 DEF MergeTypeOK
  <1>11. Tracked'
    <2> SUFFICES ASSUME NEW id \in Values, channelsByID'[id] # 0
                 PROVE  /\ id # "" /\ channelsByID'[id] \in DOMAIN channelStreams'
                        /\ channels'[channelsByID'[id]].attrs["tvg-id"] = id
      BY DEF Tracked, ID
    <2>1. CASE channelsByID'[id] = a /\ HasID(a)' /\ ID(a)' = id
      BY <1>2, <2>1 DEF HasID, ID
    <2>2. CASE channelsByID'[id] = channelsByID[id]
      BY <1>2, <1>4, <2>2 DEF MergeInv, Tracked, ID
    <2> QED
      BY <1>3, <1>5, <1>7, <2>1, <2>2
  <1>12. Findable'
    <2> SUFFICES ASSUME NEW i \in DOMAIN channelStreams', PlainID(i)'
                 PROVE  channelsByID'[channels'[i].attrs["tvg-id"]] = i
      BY DEF Findable, ID
    <2>1. CASE i = a
      BY <1>3, <1>5, <1>7, <2>1 DEF PlainID, ID
    <2>2. CASE i \in DOMAIN channelStreams
      <3>1. PlainID(i) /\ channelsByID[ID(i)] = i /\ i # 0 /\ i # a /\ ID(i)' = ID(i)
        BY <1>4, <2>2, SourcesMet DEF MergeInv, Findable
      <3>2. ASSUME HasID(a)', ID(a)' = ID(i) PROVE FALSE
        <4>1. ID(a) = ID(i) /\ HasID(a)
          BY <1>1, <3>1, <3>2 DEF PlainID, HasID
        <4> QED
          BY <3>1, <4>1 DEF AddFirst, findDuplicate
      <3> QED
        BY <1>3, <1>5, <1>7, <3>1, <3>2 DEF ID
    <2> QED
      BY <1>2, <2>1, <2>2
  <1>13. Behind'
    <2>1. \A i \in DOMAIN channelStreams : channelStreams[i] \in Seq(1 .. at' - 1)
      BY <1>6, SourcesMet, SeqMonotonic
    <2> QED
      BY <1>2, <1>6, <1>8, <2>1 DEF MergeInv, Behind
  <1>14. Unlinked'
    BY <1>9 DEF Unlinked
  <1>15. OneChannelPerID'
    BY <1>12 DEF Findable, OneChannelPerID, PlainID, HasID
  <1>16. /\ \A i \in DOMAIN channelStreams : ~IsSource(a, i)
         /\ \A s : IsSource(s, a)' <=> s = a
         /\ \A s : \A i \in DOMAIN channelStreams : IsSource(s, i)' <=> IsSource(s, i)
    <2>1. \A i \in DOMAIN channelStreams : ~IsSource(a, i)
      BY <1>1, <1>5, SourcesMet DEF IsSource
    <2>2. \A s : IsSource(s, a)' <=> s = a
      BY <1>2, <1>8 DEF IsSource
    <2>3. \A s : \A i \in DOMAIN channelStreams : IsSource(s, i)' <=> IsSource(s, i)
      BY <1>2 DEF IsSource
    <2> QED
      BY <2>1, <2>2, <2>3
  <1>17. EverySourceOnce'
    <2>1. \A i, j \in DOMAIN channelStreams' :
            \A k \in DOMAIN channelStreams'[i], l \in DOMAIN channelStreams'[j] :
              channelStreams'[i][k] = channelStreams'[j][l] => i = j /\ k = l
      <3> SUFFICES ASSUME NEW i \in DOMAIN channelStreams', NEW j \in DOMAIN channelStreams',
                          NEW k \in DOMAIN channelStreams'[i],
                          NEW l \in DOMAIN channelStreams'[j],
                          channelStreams'[i][k] = channelStreams'[j][l]
                   PROVE  i = j /\ k = l
        OBVIOUS
      <3>1. CASE i = a \/ j = a
        BY <1>2, <1>8, <1>16, <3>1 DEF IsSource
      <3>2. CASE i \in DOMAIN channelStreams /\ j \in DOMAIN channelStreams
        BY <1>2, <3>2 DEF MergeInv, EverySourceOnce
      <3> QED
        BY <1>2, <3>1, <3>2
    <2>2. \A s \in 1 .. at' - 1 :
            ~channels'[s].removed <=> \E i \in DOMAIN channelStreams' : IsSource(s, i)'
      <3> SUFFICES ASSUME NEW s \in 1 .. at' - 1
                   PROVE  ~channels'[s].removed <=>
                          \E i \in DOMAIN channelStreams' : IsSource(s, i)'
        OBVIOUS
      <3>1. CASE s = a
        BY <1>1, <1>2, <1>16, <3>1
      <3>2. CASE s \in 1 .. at - 1
        <4>1. s \in 1 .. Len(channels) /\ s # a
          BY <1>1, <1>5, <3>2
        <4> QED
          BY <1>1, <1>2, <1>16, <3>2, <4>1 DEF MergeInv, EverySourceOnce
      <3> QED
        BY <1>6, <3>1, <3>2
    <2> QED
      BY <2>1, <2>2 DEF EverySourceOnce
  <1>18. BestSourceFirst'
    <2> SUFFICES ASSUME NEW i \in DOMAIN channelStreams'
                 PROVE  /\ channelStreams'[i] # << >> /\ channelStreams'[i][1] = i
                        /\ \A s \in 1 .. at' - 1 : IsSource(s, i)' =>
                              /\ channels'[s].priority <= channels'[i].priority
                              /\ PlainID(s)' => ID(s)' = ID(i)'
      BY DEF BestSourceFirst
    <2>1. CASE i = a
      <3>1. channels'[a].priority \in Nat
        BY <1>1, ChannelType DEF MergeInv
      <3> QED
        BY <1>2, <1>8, <1>16, <2>1, <3>1
    <2>2. CASE i \in DOMAIN channelStreams
      <3>1. /\ channelStreams[i] # << >> /\ channelStreams[i][1] = i
            /\ \A s \in 1 .. at - 1 : IsSource(s, i) =>
                  /\ channels[s].priority <= channels[i].priority
                  /\ PlainID(s) => ID(s) = ID(i)
        BY <2>2 DEF MergeInv, BestSourceFirst
      <3>2. channels'[i] = channels[i] /\ i # a
        BY <1>1, <1>4, <2>2, SourcesMet
      <3>3. ASSUME NEW s \in 1 .. at' - 1, IsSource(s, i)'
            PROVE  s \in 1 .. at - 1 /\ IsSource(s, i) /\ channels'[s] = channels[s]
        BY <1>1, <1>5, <1>6, <1>16, <2>2, <3>3
      <3>4. \A s \in 1 .. at' - 1 : IsSource(s, i)' =>
               (PlainID(s)' <=> PlainID(s)) /\ ID(s)' = ID(s)
        BY <3>3 DEF PlainID, HasID, ID
      <3> QED
        BY <1>2, <1>4, <2>2, <3>1, <3>2, <3>3, <3>4
    <2> QED
      BY <1>2, <2>1, <2>2
  <1> QED
    BY <1>10, <1>11, <1>12, <1>13, <1>14, <1>15, <1>17, <1>18 DEF MergeInv

LEMMA ReplaceBestInv == MergeInv /\ ReplaceBest => MergeInv'
  <1> SUFFICES ASSUME MergeInv, ReplaceBest, NEW a, a = at, NEW old, old = findDuplicate(at)
               PROVE  MergeInv'
    OBVIOUS
  <1> DEFINE D == DOMAIN channelStreams \ {old}
  <1>1. /\ a \in 1 .. Len(channels) /\ at' = a + 1 /\ ~channels[a].removed
        /\ channels' = channels /\ link' = link
        /\ HasID(a) /\ ID(a) \in Values /\ channelsByID[ID(a)] = old
        /\ old \in DOMAIN channelStreams /\ ID(old) = ID(a) /\ a \notin DOMAIN channelStreams
        /\ channels[a].priority > channels[old].priority
    BY ReplaceBestResult
  <1>2. /\ DOMAIN channelStreams' = D \cup {a}
        /\ \A i \in D : channelStreams'[i] = channelStreams[i]
        /\ channelStreams'[a] = <<a>> \o channelStreams[old]
        /\ channelsByID' = [channelsByID EXCEPT ![ID(a)] = a]
    BY ReplaceBestResult
  <1>3. Len(channels) \in Nat /\ a \in Nat /\ channelsByID \in [Values -> 0 .. Len(channels)]
    BY <1>1, NextChannel DEF MergeInv, MergeTypeOK
  <1>4. 1 .. at' - 1 = (1 .. at - 1) \cup {a}
    BY <1>1, <1>3
  <1>5. \A i : ID(i)' = ID(i) /\ (PlainID(i)' <=> PlainID(i))
    BY <1>1 DEF PlainID, HasID, ID
  <1>6. channelStreams[old] \in Seq(1 .. at' - 1)
    BY <1>1, <1>4, SourcesMet, SeqMonotonic
  <1>7. /\ channelStreams'[a] \in Seq(1 .. at' - 1)
        /\ Len(channelStreams'[a]) = Len(channelStreams[old]) + 1
        /\ channelStreams'[a][1] = a
        /\ \A k \in 2 .. Len(channelStreams[old]) + 1 :
              channelStreams'[a][k] = channelStreams[old][k - 1]
    BY <1>2, <1>4, <1>6, FrontProperties
  <1>8. /\ Len(channelStreams[old]) \in Nat
        /\ DOMAIN channelStreams[old] = 1 .. Len(channelStreams[old])
        /\ DOMAIN channelStreams'[a] = 1 .. Len(channelStreams[old]) + 1
    BY <1>1, <1>7, SourcesMet, LenProperties
  <1>9. link = << >> /\ DOMAIN link = {}
    BY DEF ReplaceBest, MergeInv, Unlinked
  \* The new best one is a source, those of the old one are, and no others.
  <1>10. /\ \A i \in DOMAIN channelStreams : ~IsSource(a, i)
         /\ \A s : IsSource(s, a)' <=> s = a \/ IsSource(s, old)
         /\ \A s : \A i \in D : IsSource(s, i)' <=> IsSource(s, i)
    <2>1. \A i \in DOMAIN channelStreams : ~IsSource(a, i)
      BY <1>1, <1>3, SourcesMet DEF IsSource
    <2>2. ASSUME NEW s, IsSource(s, a)' PROVE s = a \/ IsSource(s, old)
      <3>1. PICK k \in 1 .. Len(channelStreams[old]) + 1 : channelStreams'[a][k] = s
        BY <1>8, <2>2 DEF IsSource
      <3>2. k = 1 \/ (k \in 2 .. Len(channelStreams[old]) + 1
                      /\ k - 1 \in DOMAIN channelStreams[old])
        BY <1>8
      <3> QED
        BY <1>7, <3>1, <3>2 DEF IsSource
    <2>3. IsSource(a, a)'
      BY <1>7, <1>8 DEF IsSource
    <2>4. ASSUME NEW s, IsSource(s, old) PROVE IsSource(s, a)'
      <3>1. PICK k \in 1 .. Len(channelStreams[old]) : channelStreams[old][k] = s
        BY <1>8, <2>4 DEF IsSource
      <3>2. /\ k + 1 \in DOMAIN channelStreams'[a]
            /\ channelStreams'[a][k + 1] = channelStreams[old][k]
        BY <1>7, <1>8
      <3> QED
        BY <3>1, <3>2 DEF IsSource
    <2>5. \A s : \A i \in D : IsSource(s, i)' <=> IsSource(s, i)
      BY <1>2 DEF IsSource
    <2> QED
      BY <2>1, <2>2, <2>3, <2>4, <2>5
  <1>11. MergeTypeOK'
    <2>1. at' \in 1 .. Len(channels') + 1
      BY <1>1, <1>3
    <2>2. channelsByID' \in [Values -> 0 .. Len(channels')]
      BY <1>1, <1>2, <1>3
    <2>3. DOMAIN channelStreams' \subseteq 1 .. Len(channels')
      BY <1>1, <1>2 DEF MergeInv, MergeTypeOK
    <2>4. \A i \in DOMAIN channelStreams' : channelStreams'[i] \in Seq(1 .. Len(channels'))
      <3>1. 1 .. at' - 1 \subseteq 1 .. Len(channels')
        BY <1>1, <1>3
      <3>2. channelStreams'[a] \in Seq(1 .. Len(channels'))
        BY <1>7, <3>1, SeqMonotonic
      <3> QED
        BY <1>1, <1>2, <3>2 DEF MergeInv, MergeTypeOK
    <2>5. channels' \in Seq(Channel)
      BY <1>1 DEF MergeInv, MergeTypeOK
    <2> QED
      BY <1>1, <1>9, <2>1, <2>2, <2>3, <2>4, <2>5 DEF MergeTypeOK
  <1>12. Tracked'
    <2> SUFFICES ASSUME NEW id \in Values, channelsByID'[id] # 0
                 PROVE  /\ id # "" /\ channelsByID'[id] \in DOMAIN channelStreams'
                        /\ channels'[channelsByID'[id]].attrs["tvg-id"] = id
      BY DEF Tracked, ID
    <2>1. CASE id = ID(a)
      BY <1>1, <1>2, <1>3, <2>1 DEF HasID, ID
    <2>2. CASE id # ID(a)
      <3>1. /\ channelsByID'[id] = channelsByID[id] /\ id # ""
            /\ channelsByID[id] \in DOMAIN channelStreams /\ ID(channelsByID[id]) = id
        BY <1>2, <1>3, <2>2 DEF MergeInv, Tracked
      <3>2. channelsByID[id] # old
        BY <1>1, <2>2, <3>1
      <3> QED
        BY <1>1, <1>2, <3>1, <3>2 DEF ID
    <2> QED
      BY <2>1, <2>2
  <1>13. Findable'
    <2> SUFFICES ASSUME NEW i \in DOMAIN channelStreams', PlainID(i)'
                 PROVE  channelsByID'[channels'[i].attrs["tvg-id"]] = i
      BY DEF Findable, ID
    <2>1. CASE i = a
      BY <1>1, <1>2, <1>3, <2>1 DEF ID
    <2>2. CASE i \in D
      <3>1. channelsByID[ID(i)] = i /\ PlainID(i)
        BY <1>5, <2>2 DEF MergeInv, Findable
      <3>2. ID(i) # ID(a)
        BY <1>1, <2>2, <3>1
      <3> QED
        BY <1>1, <1>2, <1>3, <3>1, <3>2 DEF ID
    <2> QED
      BY <1>2, <2>1, <2>2
  <1>14. Behind'
    <2>1. \A i \in DOMAIN channelStreams : channelStreams[i] \in Seq(1 .. at' - 1)
      BY <1>4, SourcesMet, SeqMonotonic
    <2> QED
      BY <1>2, <1>4, <1>7, <2>1 DEF MergeInv, Behind
  <1>15. Unlinked' /\ OneChannelPerID'
    BY <1>1, <1>9, <1>13 DEF Unlinked, Findable, OneChannelPerID, PlainID, HasID
  <1>16. EverySourceOnce'
    <2>1. \A i, j \in DOMAIN channelStreams' :
            \A k \in DOMAIN channelStreams'[i], l \in DOMAIN channelStreams'[j] :
              channelStreams'[i][k] = channelStreams'[j][l] => i = j /\ k = l
      <3> SUFFICES ASSUME NEW i \in DOMAIN channelStreams', NEW j \in DOMAIN channelStreams',
                          NEW k \in DOMAIN channelStreams'[i],
                          NEW l \in DOMAIN channelStreams'[j],
                          channelStreams'[i][k] = channelStreams'[j][l]
                   PROVE  i = j /\ k = l
        OBVIOUS
      <3>1. \A x, y \in DOMAIN channelStreams :
              \A m \in DOMAIN channelStreams[x], n \in DOMAIN channelStreams[y] :
                channelStreams[x][m] = channelStreams[y][n] => x = y /\ m = n
        BY DEF MergeInv, EverySourceOnce
      <3>2. CASE i \in D /\ j \in D
        BY <1>2, <3>1, <3>2
      <3>3. ASSUME NEW m \in DOMAIN channelStreams'[a], NEW y \in D,
                   NEW n \in DOMAIN channelStreams[y],
                   channelStreams'[a][m] = channelStreams[y][n]
            PROVE  FALSE
        <4>1. CASE m = 1
          BY <1>7, <1>10, <3>3, <4>1 DEF IsSource
        <4>2. CASE m \in 2 .. Len(channelStreams[old]) + 1
          <5>1. /\ m - 1 \in DOMAIN channelStreams[old]
                /\ channelStreams[old][m - 1] = channelStreams[y][n]
            BY <1>7, <1>8, <3>3, <4>2
          <5> QED
            BY <1>1, <3>1, <5>1
        <4> QED
          BY <1>8, <4>1, <4>2
      <3>4. CASE i = a /\ j = a
        <4>1. /\ k = 1 \/ (k \in 2 .. Len(channelStreams[old]) + 1
                            /\ k - 1 \in DOMAIN channelStreams[old])
              /\ l = 1 \/ (l \in 2 .. Len(channelStreams[old]) + 1
                            /\ l - 1 \in DOMAIN channelStreams[old])
          BY <1>8, <3>4
        <4>2. CASE k = 1 \/ l = 1
          BY <1>1, <1>7, <1>10, <3>4, <4>1, <4>2 DEF IsSource
        <4>3. CASE k # 1 /\ l # 1
          <5>1. k - 1 = l - 1
            BY <1>1, <1>7, <3>1, <3>4, <4>1, <4>3
          <5> QED
            BY <3>4, <4>1, <4>3, <5>1
        <4> QED
          BY <4>2, <4>3
      <3> QED
        BY <1>2, <3>2, <3>3, <3>4
    <2>2. \A s \in 1 .. at' - 1 :
            ~channels'[s].removed <=> \E i \in DOMAIN channelStreams' : IsSource(s, i)'
      <3> SUFFICES ASSUME NEW s \in 1 .. at' - 1
                   PROVE  ~channels[s].removed
                            <=> \E i \in D \cup {a} : IsSource(s, i)'
        BY <1>1, <1>2
      <3>1. CASE s = a
        BY <1>1, <1>10, <3>1
      <3>2. CASE s \in 1 .. at - 1 /\ s # a
        <4>1. ~channels[s].removed <=> \E i \in DOMAIN channelStreams : IsSource(s, i)
          BY <3>2 DEF MergeInv, EverySourceOnce
        <4>2. ASSUME NEW i \in DOMAIN channelStreams, IsSource(s, i)
              PROVE  \E x \in D \cup {a} : IsSource(s, x)'
          <5>1. CASE i = old
            BY <1>10, <4>2, <5>1
          <5>2. CASE i \in D
            BY <1>10, <4>2, <5>2
          <5> QED
            BY <5>1, <5>2
        <4>3. ASSUME NEW x \in D \cup {a}, IsSource(s, x)'
              PROVE  \E i \in DOMAIN channelStreams : IsSource(s, i)
          <5>1. CASE x = a
            BY <1>1, <1>10, <3>2, <4>3, <5>1
          <5>2. CASE x \in D
            BY <1>10, <4>3, <5>2
          <5> QED
            BY <5>1, <5>2
        <4> QED
          BY <4>1, <4>2, <4>3
      <3> QED
        BY <1>4, <3>1, <3>2
    <2> QED
      BY <2>1, <2>2 DEF EverySourceOnce
  <1>17. BestSourceFirst'
    <2> SUFFICES ASSUME NEW i \in DOMAIN channelStreams'
                 PROVE  /\ channelStreams'[i] # << >> /\ channelStreams'[i][1] = i
                        /\ \A s \in 1 .. at' - 1 : IsSource(s, i)' =>
                              /\ channels'[s].priority <= channels'[i].priority
                              /\ PlainID(s)' => ID(s)' = ID(i)'
      BY DEF BestSourceFirst
    <2>1. \A x \in DOMAIN channelStreams :
             /\ channelStreams[x] # << >> /\ channelStreams[x][1] = x
             /\ \A s \in 1 .. at - 1 : IsSource(s, x) =>
                   /\ channels[s].priority <= channels[x].priority
                   /\ PlainID(s) => ID(s) = ID(x)
      BY DEF MergeInv, BestSourceFirst
    <2>2. CASE i \in D
      BY <1>1, <1>2, <1>4, <1>5, <1>10, <2>1, <2>2
    <2>3. CASE i = a
      <3>1. channelStreams'[a] # << >>
        BY <1>8
      <3>2. ASSUME NEW s \in 1 .. at' - 1, IsSource(s, a)'
            PROVE  /\ channels[s].priority <= channels[a].priority
                   /\ PlainID(s) => ID(s) = ID(a)
        <4>1. channels[a].priority \in Nat /\ channels[old].priority \in Nat
          BY <1>1, ChannelType, SourcesMet DEF MergeInv
        <4>2. CASE s = a
          BY <4>1, <4>2
        <4>3. CASE s # a
          <5>1. IsSource(s, old) /\ s \in 1 .. at - 1
            BY <1>4, <1>10, <3>2, <4>3
          <5>2. MergeTypeOK /\ s \in 1 .. Len(channels)
            BY <1>1, <1>3, <5>1 DEF MergeInv
          <5>3. channels[s].priority \in Nat
            BY <5>2, ChannelType
          <5>4. channels[s].priority <= channels[old].priority
            BY <1>1, <2>1, <5>1
          <5>5. PlainID(s) => ID(s) = ID(old)
            BY <1>1, <2>1, <5>1
          <5>6. channels[s].priority <= channels[a].priority
            BY <1>1, <4>1, <5>3, <5>4
          <5> QED
            BY <1>1, <5>5, <5>6
        <4> QED
          BY <4>2, <4>3
      <3> QED
        BY <1>1, <1>5, <1>7, <2>3, <3>1, <3>2
    <2> QED
      BY <1>2, <2>2, <2>3
  <1> QED
    BY <1>11, <1>12, <1>13, <1>14, <1>15, <1>16, <1>17 DEF MergeInv

LEMMA AddFallbackInv == MergeInv /\ AddFallback => MergeInv'
  <1> SUFFICES ASSUME MergeInv, AddFallback, NEW a, a = at, NEW old, old = findDuplicate(at)
               PROVE  MergeInv'
    OBVIOUS
  <1> DEFINE D == DOMAIN channelStreams
  <1>1. /\ a \in 1 .. Len(channels) /\ at' = a + 1 /\ ~channels[a].removed
        /\ channels' = channels /\ link' = link /\ channelsByID' = channelsByID
        /\ old \in D /\ ID(old) = ID(a)
        /\ ~(channels[a].priority > channels[old].priority)
        /\ DOMAIN channelStreams' = D
        /\ \A i \in D \ {old} : channelStreams'[i] = channelStreams[i]
        /\ channelStreams'[old] = Append(channelStreams[old], a)
    BY AddFallbackResult
  <1>2. Len(channels) \in Nat /\ a \in Nat
    BY <1>1, NextChannel DEF MergeInv
  <1>3. 1 .. at' - 1 = (1 .. at - 1) \cup {a}
    BY <1>1, <1>2
  <1>4. \A i : ID(i)' = ID(i) /\ (PlainID(i)' <=> PlainID(i))
    BY <1>1 DEF PlainID, HasID, ID
  <1> DEFINE n == Len(channelStreams[old])
  <1>5. /\ n \in Nat /\ DOMAIN channelStreams[old] = 1 .. n
        /\ channelStreams[old] \in Seq(1 .. at' - 1) /\ a \in 1 .. at' - 1
    BY <1>1, <1>3, SourcesMet, SeqMonotonic
  <1>6. /\ channelStreams'[old] \in Seq(1 .. at' - 1)
        /\ DOMAIN channelStreams'[old] = 1 .. n + 1
        /\ channelStreams'[old][n + 1] = a
        /\ \A k \in 1 .. n : channelStreams'[old][k] = channelStreams[old][k]
    <2>1. /\ channelStreams'[old] \in Seq(1 .. at' - 1)
          /\ Len(channelStreams'[old]) = n + 1
          /\ channelStreams'[old][n + 1] = a
          /\ \A k \in 1 .. n : channelStreams'[old][k] = channelStreams[old][k]
      BY <1>1, <1>5, AppendProperties
    <2> QED
      BY <2>1, LenProperties
  <1> HIDE DEF n
  <1>7. link = << >> /\ DOMAIN link = {}
    BY DEF AddFallback, MergeInv, Unlinked
  \* The channel becomes a source of the old one, and nothing else changes.
  <1>8. /\ \A i \in D : ~IsSource(a, i)
        /\ \A s : IsSource(s, old)' <=> s = a \/ IsSource(s, old)
        /\ \A s : \A i \in D \ {old} : IsSource(s, i)' <=> IsSource(s, i)
    <2>1. \A i \in D : ~IsSource(a, i)
      BY <1>1, <1>2, SourcesMet DEF IsSource
    <2>2. ASSUME NEW s, IsSource(s, old)' PROVE s = a \/ IsSource(s, old)
      <3>1. PICK k \in 1 .. n + 1 : channelStreams'[old][k] = s
        BY <1>6, <2>2 DEF IsSource
      <3> QED
        BY <1>5, <1>6, <3>1 DEF IsSource
    <2>3. ASSUME NEW s, s = a \/ IsSource(s, old) PROVE IsSource(s, old)'
      <3>1. CASE s = a
        <4>1. n + 1 \in 1 .. n + 1
          BY <1>5
        <4> QED
          BY <1>6, <3>1, <4>1 DEF IsSource
      <3>2. CASE IsSource(s, old)
        <4>1. PICK k \in 1 .. n : channelStreams[old][k] = s
          BY <1>5, <3>2 DEF IsSource
        <4>2. k \in 1 .. n + 1 /\ channelStreams'[old][k] = s
          BY <1>5, <1>6, <4>1
        <4> QED
          BY <1>6, <4>2 DEF IsSource
      <3> QED
        BY <2>3, <3>1, <3>2
    <2>4. \A s : \A i \in D \ {old} : IsSource(s, i)' <=> IsSource(s, i)
      BY <1>1 DEF IsSource
    <2> QED
      BY <2>1, <2>2, <2>3, <2>4
  <1>9. MergeTypeOK'
    <2>1. at' \in 1 .. Len(channels') + 1
      BY <1>1, <1>2
    <2>2. \A i \in DOMAIN channelStreams' : channelStreams'[i] \in Seq(1 .. Len(channels'))
      <3>1. 1 .. at' - 1 \subseteq 1 .. Len(channels')
        BY <1>1, <1>2
      <3>2. channelStreams'[old] \in Seq(1 .. Len(channels'))
        <4>1. Seq(1 .. at' - 1) \subseteq Seq(1 .. Len(channels'))
          BY <3>1, SeqMonotonic
        <4> QED
          BY <1>6, <4>1
      <3> QED
        BY <1>1, <3>2 DEF MergeInv, MergeTypeOK
    <2> QED
      BY <1>1, <1>7, <2>1, <2>2 DEF MergeInv, MergeTypeOK
  <1>10. Tracked' /\ Findable' /\ Unlinked' /\ OneChannelPerID'
    <2>1. Tracked'
      BY <1>1 DEF MergeInv, Tracked, ID
    <2>2. Findable'
      BY <1>1 DEF MergeInv, Findable, PlainID, HasID, ID
    <2>3. OneChannelPerID'
      BY <1>1 DEF MergeInv, OneChannelPerID, PlainID, HasID, ID
    <2>4. Unlinked'
      BY <1>1, <1>7 DEF Unlinked
    <2> QED
      BY <2>1, <2>2, <2>3, <2>4
  <1>11. Behind'
    <2>1. \A i \in D : channelStreams[i] \in Seq(1 .. at' - 1)
      BY <1>3, SourcesMet, SeqMonotonic
    <2> QED
      BY <1>1, <1>3, <1>6, <2>1 DEF MergeInv, Behind
  <1>12. EverySourceOnce'
    <2>1. \A x, y \in D :
            \A k \in DOMAIN channelStreams[x], l \in DOMAIN channelStreams[y] :
              channelStreams[x][k] = channelStreams[y][l] => x = y /\ k = l
      BY DEF MergeInv, EverySourceOnce
    <2>2. ASSUME NEW i \in D, NEW k \in DOMAIN channelStreams'[i]
          PROVE  \/ i = old /\ k = n + 1 /\ channelStreams'[i][k] = a
                 \/ /\ k \in DOMAIN channelStreams[i]
                    /\ channelStreams'[i][k] = channelStreams[i][k]
                    /\ channelStreams'[i][k] # a
      <3>1. CASE i # old
        BY <1>1, <1>8, <3>1 DEF IsSource
      <3>2. CASE i = old
        <4>1. k = n + 1 \/ k \in 1 .. n
          BY <1>5, <1>6, <3>2
        <4> QED
          BY <1>1, <1>5, <1>6, <1>8, <3>2, <4>1 DEF IsSource
      <3> QED
        BY <3>1, <3>2
    <2>3. \A i, j \in DOMAIN channelStreams' :
            \A k \in DOMAIN channelStreams'[i], l \in DOMAIN channelStreams'[j] :
              channelStreams'[i][k] = channelStreams'[j][l] => i = j /\ k = l
      <3> SUFFICES ASSUME NEW i \in D, NEW j \in D,
                          NEW k \in DOMAIN channelStreams'[i],
                          NEW l \in DOMAIN channelStreams'[j],
                          channelStreams'[i][k] = channelStreams'[j][l]
                   PROVE  i = j /\ k = l
        BY <1>1
      <3>1. CASE channelStreams'[i][k] = a
        <4>1. i = old /\ k = n + 1
          BY <2>2, <3>1
        <4>2. j = old /\ l = n + 1
          BY <2>2, <3>1
        <4> QED
          BY <4>1, <4>2
      <3>2. CASE channelStreams'[i][k] # a
        <4>1. /\ k \in DOMAIN channelStreams[i] /\ channelStreams'[i][k] = channelStreams[i][k]
              /\ l \in DOMAIN channelStreams[j] /\ channelStreams'[j][l] = channelStreams[j][l]
          BY <2>2, <3>2
        <4>2. channelStreams[i][k] = channelStreams[j][l]
          BY <4>1
        <4> QED
          BY <2>1, <4>1, <4>2
      <3> QED
        BY <3>1, <3>2
    <2>4. \A s \in 1 .. at' - 1 :
            ~channels'[s].removed <=> \E i \in DOMAIN channelStreams' : IsSource(s, i)'
      <3> SUFFICES ASSUME NEW s \in 1 .. at' - 1
                   PROVE  ~channels[s].removed <=> \E i \in D : IsSource(s, i)'
        BY <1>1
      <3>1. CASE s = a
        BY <1>1, <1>8, <3>1
      <3>2. CASE s \in 1 .. at - 1 /\ s # a
        <4>1. ~channels[s].removed <=> \E i \in D : IsSource(s, i)
          BY <3>2 DEF MergeInv, EverySourceOnce
        <4>2. \A i \in D : IsSource(s, i)' <=> IsSource(s, i)
          BY <1>8, <3>2
        <4> QED
          BY <4>1, <4>2
      <3> QED
        BY <1>3, <3>1, <3>2
    <2> QED
      BY <2>3, <2>4 DEF EverySourceOnce
  <1>13. BestSourceFirst'
    <2>1. \A x \in D :
             /\ channelStreams[x] # << >> /\ channelStreams[x][1] = x
             /\ \A s \in 1 .. at - 1 : IsSource(s, x) =>
                   /\ channels[s].priority <= channels[x].priority
                   /\ PlainID(s) => ID(s) = ID(x)
      BY DEF MergeInv, BestSourceFirst
    <2>2. \A i \in D : channelStreams'[i] # << >> /\ channelStreams'[i][1] = i
      <3>1. n # 0
        BY <1>1, <2>1, SourcesMet, EmptySeq DEF n
      <3>2. /\ channelStreams'[old] # << >>
            /\ channelStreams'[old][1] = channelStreams[old][1]
        BY <1>5, <1>6, <3>1
      <3> QED
        BY <1>1, <2>1, <3>2
    <2>3. ASSUME NEW i \in D, NEW s \in 1 .. at' - 1, IsSource(s, i)'
          PROVE  /\ channels[s].priority <= channels[i].priority
                 /\ PlainID(s) => ID(s) = ID(i)
      <3>1. CASE IsSource(s, i)
        <4>1. s \in 1 .. at - 1
          BY <1>3, <1>8, <3>1
        <4> QED
          BY <2>1, <3>1, <4>1
      <3>2. CASE ~IsSource(s, i)
        <4>1. s = a /\ i = old
          BY <1>8, <2>3, <3>2
        <4>2. channels[a].priority \in Nat /\ channels[old].priority \in Nat
          BY <1>1, ChannelType, SourcesMet DEF MergeInv
        <4> QED
          BY <1>1, <4>1, <4>2
      <3> QED
        BY <3>1, <3>2
    <2> QED
      BY <1>1, <1>4, <2>2, <2>3 DEF BestSourceFirst
  <1> QED
    BY <1>9, <1>10, <1>11, <1>12, <1>13 DEF MergeInv

LEMMA NextInv == MergeInv /\ [MergeNext]_mergeVars => MergeInv'
  <1> SUFFICES ASSUME MergeInv, [MergeNext]_mergeVars PROVE MergeInv'
    OBVIOUS
  <1>1. CASE SkipRemoved
    BY <1>1, SkipRemovedInv
  <1>2. CASE AddFirst
    BY <1>2, AddFirstInv
  <1>3. CASE ReplaceBest
    BY <1>3, ReplaceBestInv
  <1>4. CASE AddFallback
    BY <1>4, AddFallbackInv
  <1>5. CASE LinkChannels
    BY <1>5, LinkChannelsInv
  <1>6. CASE UNCHANGED mergeVars
    <2>1. /\ channels' = channels /\ at' = at /\ channelsByID' = channelsByID
          /\ channelStreams' = channelStreams /\ link' = link
      BY <1>6 DEF mergeVars
    <2>2. MergeTypeOK' /\ Tracked' /\ Findable'
      BY <2>1 DEF MergeInv, MergeTypeOK, Tracked, Findable, PlainID, HasID, ID
    <2>3. Behind' /\ Unlinked' /\ OneChannelPerID'
      BY <2>1 DEF MergeInv, Behind, Unlinked, Turn, OneChannelPerID, PlainID, HasID, ID
    <2>4. EverySourceOnce'
      BY <2>1 DEF MergeInv, EverySourceOnce, IsSource
    <2>5. BestSourceFirst'
      <3>1. \A i : PlainID(i)' <=> PlainID(i)
        BY <2>1 DEF PlainID, HasID, ID
      <3>2. \A s, i : IsSource(s, i)' <=> IsSource(s, i)
        BY <2>1 DEF IsSource
      <3>3. BestSourceFirst
        BY DEF MergeInv
      <3> QED
        BY <2>1, <3>1, <3>2, <3>3 DEF BestSourceFirst, ID
    <2> QED
      BY <2>2, <2>3, <2>4, <2>5 DEF MergeInv
  <1> QED
    BY <1>1, <1>2, <1>3, <1>4, <1>5, <1>6 DEF MergeNext, MergeStep

LEMMA AlwaysMergeInv == MergeSpec => []MergeInv
  BY InitInv, NextInv, PTL DEF MergeSpec

-----------------------------------------------------------------------------
\* The variables have their types: what channelsByID and channelStreams hold are
\* always positions of the store.
THEOREM MergeTypeCorrect == MergeSpec => []MergeTypeOK
  <1>1. MergeInv => MergeTypeOK
    BY DEF MergeInv
  <1> QED
    BY <1>1, AlwaysMergeInv, PTL

\* Process: no two channels of the result have the same tvg-id, for every store.
THEOREM OneChannelCorrect == MergeSpec => []OneChannelPerID
  <1>1. MergeInv => OneChannelPerID
    BY DEF MergeInv
  <1> QED
    BY <1>1, AlwaysMergeInv, PTL

\* addStreamToChannel: replacing a channel loses none of the sources collected for it
\* and doubles none, for every order in which channels and priorities come.
THEOREM EverySourceCorrect == MergeSpec => []EverySourceOnce
  <1>1. MergeInv => EverySourceOnce
    BY DEF MergeInv
  <1> QED
    BY <1>1, AlwaysMergeInv, PTL

\* addStreamToChannel: the channel that is written is its first source, and the best.
THEOREM BestSourceCorrect == MergeSpec => []BestSourceFirst
  <1>1. MergeInv => BestSourceFirst
    BY DEF MergeInv
  <1> QED
    BY <1>1, AlwaysMergeInv, PTL
=============================================================================
