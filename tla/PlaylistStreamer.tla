---------------------------- MODULE PlaylistStreamer ----------------------------
(***************************************************************************)
(* The playlist of a client (listing/m3u8/streamer.go, WriteTo): all       *)
(* sources are opened and read ahead, their tracks become the channels of  *)
(* the request's store, one source after the other; rules change the       *)
(* channels and the store; duplicates are merged into links with several   *)
(* streams (ChannelMerge); what is left is written.                        *)
(***************************************************************************)
EXTENDS LazyDecoder, ChannelRules, PlaylistRules, ChannelMerge, M3uListing

CONSTANTS
    NumSources,
    PlaylistOf,    \* the playlist of a source
    Listings,      \* bound: the lines that the sources may have
    Clients,       \* bound: clients, with a name, channel rules and playlist rules
    StreamLink     \* CreateStreamURL, by the URL of the first stream that it opens

ASSUME SourcesAssumption == NumSources \in Nat \ {0} /\ Sources = 1 .. NumSources
ASSUME PlaylistAssumption == PlaylistOf \in [Sources -> Playlists]
ASSUME StreamLinkAssumption == StreamLink \in [Values -> URLs]
ASSUME ListingsAssumption == Listings \subseteq [Sources -> Seq(Line)]
ASSUME ClientsAssumption ==
    Clients \subseteq [name : STRING, channelRules : Seq(ChannelRule),
                       playlistRules : Seq(PlaylistRule)]

VARIABLES
    phase,     \* of WriteTo
    step,      \* within processTracks
    idx,       \* the decoder
    gone,      \* the request's context is cancelled
    rules,     \* playlist rules that are still to be applied
    unwritten, \* channels that are still to be written
    out,       \* the lines that were written
    result

decoding == <<phase, step, idx>>
output == <<rules, unwritten, out>>
vars == <<decoderVars, mergeVars, decoding, gone, output, result>>

TypeOK ==
    /\ DecoderTypeOK
    /\ MergeTypeOK
    /\ phase \in {"start", "tracks", "close", "channelRules", "playlistRules", "merge",
                  "write", "returned"}
    /\ step \in {"stop", "wait", "read"}
    /\ idx \in 1 .. NumSources + 1
    /\ phase = "tracks" => idx \in Sources
    /\ gone \in BOOLEAN
    /\ rules \in Seq(PlaylistRule \X STRING)
    /\ unwritten \in Seq(DOMAIN channels)
    /\ out \in Seq(Line)
    /\ result \in {"none", "ok", "cut", "error"}

Init ==
    /\ \E listing \in Listings : feed = [d \in Sources |-> Decoded(listing[d])]
    /\ DecoderInit
    /\ channels = <<>> /\ MergeStart
    /\ phase = "start" /\ step = "stop" /\ idx = 1
    /\ gone = FALSE
    /\ rules = <<>> /\ unwritten = <<>> /\ out = <<>>
    /\ result = "none"

-----------------------------------------------------------------------------
(* fetchPlaylists and processTracks. *)

StartDecoder ==
    /\ phase = "start"
    /\ idx <= NumSources
    /\ StartBuffering(idx)
    /\ idx' = idx + 1
    /\ UNCHANGED <<feed, pos, itemBuffer, batch, err, mergeVars, phase, step, gone, output, result>>

\* CreateReader fails.
StartFails ==
    /\ phase = "start"
    /\ idx <= NumSources
    /\ err' = [err EXCEPT ![idx] = "failed"]
    /\ phase' = "close" /\ result' = "error"
    /\ UNCHANGED <<feed, readerVars, itemBuffer, batch, buffering, cancelled, mergeVars,
                   step, idx, gone, output>>

StartDone ==
    /\ phase = "start"
    /\ idx > NumSources
    /\ phase' = "tracks" /\ step' = "stop" /\ idx' = 1
    /\ UNCHANGED <<decoderVars, mergeVars, gone, output, result>>

StopBuffer ==
    /\ phase = "tracks" /\ step = "stop"
    /\ cancelBuffer(idx)
    /\ step' = "wait"
    /\ UNCHANGED <<feed, readerVars, itemBuffer, batch, err, buffering, mergeVars,
                   phase, idx, gone, output, result>>

StopBufferReturns ==
    /\ phase = "tracks" /\ step = "wait"
    /\ Waited(idx)
    /\ step' = "read"
    /\ UNCHANGED <<decoderVars, mergeVars, phase, idx, gone, output, result>>

Reading == phase = "tracks" /\ step = "read"

AddTrack ==
    /\ Reading /\ ~gone
    /\ HasNext(idx)
    /\ channels' = Append(channels, ensureTvgID(NewChannel(NextItem(idx), PlaylistOf[idx])))
    /\ Take(idx)
    /\ UNCHANGED <<feed, batch, err, buffering, cancelled, at, channelsByID, channelStreams,
                   link, decoding, gone, output, result>>

\* On to the next decoder.  After the last one, a store without channels is an error.
TracksEnd ==
    /\ Reading /\ ~gone
    /\ NextError(idx, "eof")
    /\ step' = "stop"
    /\ IF idx < NumSources
       THEN idx' = idx + 1 /\ UNCHANGED <<phase, result>>
       ELSE /\ phase' = "close"
            /\ result' = IF channels = <<>> THEN "error" ELSE "none"
            /\ UNCHANGED idx
    /\ UNCHANGED <<feed, itemBuffer, batch, err, buffering, cancelled, mergeVars, gone, output>>

\* One source that fails, or a client that has gone, ends the request.
ReadFails ==
    /\ Reading
    /\ IF gone THEN UNCHANGED readerVars ELSE NextError(idx, "failed")
    /\ phase' = "close" /\ result' = "error"
    /\ UNCHANGED <<feed, itemBuffer, batch, err, buffering, cancelled, mergeVars,
                   step, idx, gone, output>>

\* The deferred Close of every decoder, which waits for no goroutine.
Close ==
    /\ phase = "close"
    /\ phase' = IF result = "error" THEN "returned" ELSE "channelRules"
    /\ cancelled' = [d \in Sources |-> TRUE]
    /\ body' = [d \in Sources |-> IF body[d] = "unopened" THEN "unopened" ELSE "closed"]
    /\ UNCHANGED <<feed, pos, itemBuffer, batch, err, buffering, mergeVars, step, idx, gone,
                   output, result>>

-----------------------------------------------------------------------------
(* Process. *)

Fail == phase' = "returned" /\ result' = "error"

RulesFail ==
    /\ phase \in {"channelRules", "playlistRules"}
    /\ gone
    /\ phase = "playlistRules" => rules # <<>>
    /\ Fail
    /\ UNCHANGED <<decoderVars, mergeVars, step, idx, gone, output>>

\* All channels, one after the other; the first rule that fails ends the request.
ChannelRulesApply ==
    /\ phase = "channelRules"
    /\ ~gone
    /\ \E client \in Clients :
          LET ruled == [i \in DOMAIN channels |->
                           ApplyChannelRules(channels[i], client.channelRules, client.name)] IN
          IF \E i \in DOMAIN ruled : ruled[i] = Absent
          THEN Fail /\ UNCHANGED <<channels, rules>>
          ELSE /\ channels' = ruled
               /\ rules' = [k \in DOMAIN client.playlistRules |->
                               <<client.playlistRules[k], client.name>>]
               /\ phase' = "playlistRules"
               /\ UNCHANGED result
    /\ UNCHANGED <<decoderVars, at, channelsByID, channelStreams, link, step, idx, gone,
                   unwritten, out>>

PlaylistRuleApplies ==
    /\ phase = "playlistRules"
    /\ rules # <<>>
    /\ ~gone
    /\ rules' = Tail(rules)
    /\ \E st \in ApplyPlaylistRule(channels, Head(rules)[1], Head(rules)[2]) :
          IF st = Absent THEN Fail /\ UNCHANGED channels
          ELSE channels' = st /\ UNCHANGED <<phase, result>>
    /\ UNCHANGED <<decoderVars, at, channelsByID, channelStreams, link, step, idx, gone,
                   unwritten, out>>

RulesDone ==
    /\ phase = "playlistRules"
    /\ rules = <<>>
    /\ phase' = "merge"
    /\ UNCHANGED <<decoderVars, mergeVars, step, idx, gone, output, result>>

Merge ==
    /\ phase = "merge"
    /\ MergeStep
    /\ UNCHANGED <<decoderVars, decoding, gone, output, result>>

\* collectResults: the k-th channel is the one of the result with k up to it.
ResultSeq == [k \in 1 .. Cardinality(Results) |->
                 CHOOSE i \in Results : Cardinality({j \in Results : j <= i}) = k]

\* updateChannelURI and collectResults.
Collect ==
    /\ phase = "merge"
    /\ LinkChannels
    /\ phase' = "write"
    /\ unwritten' = ResultSeq
    /\ UNCHANGED <<decoderVars, step, idx, gone, rules, out, result>>

-----------------------------------------------------------------------------
(* WriteChannels. *)

WrittenURI(i) == IF i \in DOMAIN link THEN StreamLink[link[i][1].url] ELSE channels[i].uri

WriteChannel ==
    /\ phase = "write"
    /\ unwritten # <<>>
    /\ out' = Encode(out, channels[Head(unwritten)], WrittenURI(Head(unwritten)))
    /\ unwritten' = Tail(unwritten)
    /\ UNCHANGED <<decoderVars, mergeVars, decoding, gone, rules, result>>

\* The write of a line fails; a broken pipe counts as success.
WriteFails ==
    /\ phase = "write"
    /\ unwritten # <<>>
    /\ LET all == Encode(out, channels[Head(unwritten)], WrittenURI(Head(unwritten))) IN
       \E n \in Len(out) + 1 .. Len(all) : out' = SubSeq(all, 1, n)
    /\ result' \in {"cut", "error"}
    /\ phase' = "returned"
    /\ UNCHANGED <<decoderVars, mergeVars, step, idx, gone, rules, unwritten>>

Written ==
    /\ phase = "write"
    /\ unwritten = <<>>
    /\ phase' = "returned" /\ result' = "ok"
    /\ UNCHANGED <<decoderVars, mergeVars, step, idx, gone, output>>

-----------------------------------------------------------------------------
\* The client disconnects.
ClientGone ==
    /\ ~gone
    /\ phase # "returned"
    /\ gone' = TRUE
    /\ UNCHANGED <<decoderVars, mergeVars, decoding, output, result>>

WriteTo ==
    \/ StartDecoder \/ StartFails \/ StartDone \/ StopBuffer \/ StopBufferReturns
    \/ AddTrack \/ TracksEnd \/ ReadFails \/ Close
    \/ RulesFail \/ ChannelRulesApply \/ PlaylistRuleApplies \/ RulesDone
    \/ Merge \/ Collect \/ WriteChannel \/ WriteFails \/ Written

Goroutine(d) ==
    /\ Tick(d) \/ BufferItem(d) \/ BufferError(d) \/ BufferStops(d, gone)
    /\ UNCHANGED <<mergeVars, decoding, gone, output, result>>

Terminating ==
    /\ phase = "returned"
    /\ \A d \in Sources : buffering[d] = "none"
    /\ UNCHANGED vars

Next == WriteTo \/ (\E d \in Sources : Goroutine(d)) \/ ClientGone \/ Terminating

Spec == Init /\ [][Next]_vars

\* All goroutines are scheduled, and a source answers or fails.
FairSpec ==
    Spec /\ WF_vars(WriteTo) /\ \A d \in Sources : WF_vars(Goroutine(d))

-----------------------------------------------------------------------------
TracksOf(d) == {i \in DOMAIN feed[d] : feed[d][i].kind = "track"}
SourcesOf(pl) == {d \in Sources : PlaylistOf[d] = pl}

\* fetchPlaylists: rules see all or nothing.  No source may fail, be cut off or be
\* left behind by the goroutine that reads ahead without the request failing; and
\* no rule loses a channel or gives it to another playlist.
AllSourcesRead ==
    phase \in {"channelRules", "playlistRules", "merge", "write"} \/ result \in {"ok", "cut"} =>
        /\ \A d \in Sources : TracksOf(d) = DOMAIN feed[d]
        /\ \A pl \in Playlists :
              Cardinality({i \in DOMAIN channels : channels[i].pl = pl}) =
              Cardinality(UNION {{d} \X TracksOf(d) : d \in SourcesOf(pl)})

\* SortProcessor: sort.Slice needs a comparison that orders the channels
\* consistently, also those without the field, or with numbers too long for int64.
SortConsistent ==
    phase = "playlistRules" /\ rules # <<>> /\ Head(rules)[1].kind = "sort" =>
        LET less(i, j) == ChannelLess(Head(rules)[1], channels[i], channels[j])
            tied(i, j) == ~less(i, j) /\ ~less(j, i) IN
        \A i, j, k \in DOMAIN channels :
            /\ ~(less(i, j) /\ less(j, i))
            /\ less(i, j) /\ less(j, k) => less(i, k)
            /\ tied(i, j) /\ tied(j, k) => tied(i, k)

\* What the decoder makes of channel i if no other is in the listing.
ReadAlone(i) == Decoded(<<HeaderLine>> \o encodeTrack(channels[i], WrittenURI(i)))

\* The link is the URI of a line, and no tag looks like the beginning of a track.
Legible(i) ==
    /\ Alone[WrittenURI(i)] = URILine(WrittenURI(i))
    /\ \A key \in TagKeys : channels[i].tags[key] # Absent =>
          TagText[<<key, channels[i].tags[key]>>].kind \notin {"extinf", "badExtinf"}

\* Quotes of values do not change the attributes that are found, commas not the name,
\* and tags are ones that the decoder keeps.
ReadAs(item, i) ==
    LET ch == channels[i]
        whole == Found[<<ch.attrs, ch.name>>] = ch.attrs
        named == IF ch.name = "" THEN Len(AttrParts[ch.attrs]) = 1
                 ELSE Parts[ch.name] = <<ch.name>>
        kept == \A key \in TagKeys : ch.tags[key] # Absent =>
                   key \in Whitelisted /\ TagText[<<key, ch.tags[key]>>] = TagLine(key, ch.tags[key])
    IN /\ item.kind = "track" /\ item.uri = WrittenURI(i)
       /\ whole => item.attrs = ch.attrs
       /\ whole /\ named => item.name = ch.name
       /\ kept => item.tags = ch.tags

\* The sequences one after the other: the first k of them at k.
Joined(seqs) ==
    LET joined[k \in 0 .. Len(seqs)] == IF k = 0 THEN <<>> ELSE joined[k - 1] \o seqs[k] IN joined

\* WriteChannels: another majmun that reads the playlist finds what each of the channels
\* is by itself, in their order, whatever the others are (one with an empty URI does not
\* change its neighbours): with its link, attributes, name and tags, as far as M3U lines
\* can tell them.  If the connection breaks, it finds the beginning of them and, of the
\* line that is cut off, at most one entry more.  A request that fails before the first
\* line is answered as a bad gateway.
ReadsBack ==
    phase = "returned" /\ (result = "error" => out # <<>>) =>
        LET seq == ResultSeq
            all == Joined([k \in DOMAIN seq |-> ReadAlone(seq[k])])[Len(seq)] IN
        /\ result = "ok" => Decoded(out) = all
        /\ \A lines \in Cut(out) :
              LET read == Decoded(lines) IN read = <<>> \/ IsPrefix(Front(read), all)
        /\ \A k \in DOMAIN seq : Legible(seq[k]) =>
              Len(ReadAlone(seq[k])) = 1 /\ ReadAs(ReadAlone(seq[k])[1], seq[k])

Deduplicates(rule, client) ==
    rule.kind = "remove_duplicates" /\ evaluateStoreCondition(rule.condition, client)

\* remove_duplicates: of channels that are duplicates of each other, one stays, and
\* none that stays has a lower priority than one that goes.  This is so only while no
\* rule before has removed one of them: a removed channel takes part, and may be best.
DedupKeepsBest ==
    [][phase = "playlistRules" /\ phase' = phase /\ rules # <<>> /\ rules' = Tail(rules)
       /\ Deduplicates(Head(rules)[1], Head(rules)[2]) =>
           \A g \in GroupChannels(channels, Head(rules)[1]) :
              (\A i \in g : ~channels[i].removed) =>
                  \E best \in g : \A i \in g :
                      /\ channels'[i].removed = (i # best)
                      /\ channels'[i].priority <= channels'[best].priority]_vars

\* StopBuffer and Close: the request is answered, and its goroutines end.
RequestReturns == <>(phase = "returned" /\ \A d \in Sources : buffering[d] = "none")
=============================================================================
