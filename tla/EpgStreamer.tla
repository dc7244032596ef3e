------------------------------ MODULE EpgStreamer ------------------------------
(***************************************************************************)
(* The EPG of a client (src/internal/listing/xmltv/streamer.go, WriteTo):  *)
(* all sources are opened and read ahead; then, source after source, their *)
(* channels are written, as far as the first programme, and after that,    *)
(* source after source, their programmes.                                  *)
(***************************************************************************)
EXTENDS LazyDecoder

CONSTANTS
    NumSources,
    Feeds,         \* bound: the contents that the sources may have
    IDs,           \* channel ids, of the sources and of the playlist
    PlaylistIDs,   \* channelIDToName: the tvg-ids of the client's playlist
    Names,         \* display names
    HashID,        \* GenerateHashID of a display name
    Absent         \* no entry in a map

ASSUME SourcesAssumption == NumSources \in Nat \ {0} /\ Sources = 1 .. NumSources
ASSUME PlaylistAssumption == PlaylistIDs \subseteq IDs /\ HashID \in [Names -> IDs]
ASSUME AbsentAssumption == Absent \notin IDs /\ \A S \in SUBSET Names : S # Absent

Channel   == [kind : {"channel"}, id : IDs, names : Seq(Names)]
Programme == [kind : {"programme"}, channel : IDs, start : Nat, pid : Nat]

ASSUME FeedsAssumption ==
    /\ Items \subseteq [kind : {"tv", "bad"}] \cup Channel \cup Programme
    /\ Feeds \subseteq [Sources -> Seq(Items)]

VARIABLES
    phase,             \* which loop of WriteTo
    step,              \* within processChannels or processProgrammes
    idx,               \* the decoder
    gone,              \* the request's context is cancelled
    channelIDMapping,  \* (channel id, source) -> playlist id
    addedChannels,     \* playlist id -> display names of the channel written
    addedProgrammes,   \* keys of those written
    out,               \* what was encoded
    result

consumerVars == <<phase, step, idx>>
outputVars   == <<channelIDMapping, addedChannels, addedProgrammes, out>>
vars == <<decoderVars, consumerVars, gone, outputVars, result>>

-----------------------------------------------------------------------------
RangeOf(s) == {s[i] : i \in DOMAIN s}

\* What is encoded, with its source and the id it had there.
Written == [kind : {"channel"}, id : PlaylistIDs, src : Sources]
           \cup [kind : {"programme"}, id : PlaylistIDs, src : Sources,
                 from : IDs, start : Nat, pid : Nat]

TypeOK ==
    /\ DecoderTypeOK
    /\ phase \in {"start", "channels", "programmes", "finish", "close", "returned"}
    /\ step \in {"stop", "wait", "read"}
    /\ idx \in 1 .. NumSources + 1
    /\ phase \in {"channels", "programmes"} => idx \in Sources
    /\ gone \in BOOLEAN
    /\ channelIDMapping \in [IDs \X Sources -> PlaylistIDs \cup {Absent}]
    /\ addedChannels \in [PlaylistIDs -> {Absent} \cup SUBSET Names]
    /\ addedProgrammes \subseteq PlaylistIDs \X Nat \X Nat
    /\ out \in Seq(Written)
    /\ result \in {"none", "ok", "error"}

Init ==
    /\ feed \in Feeds
    /\ DecoderInit
    /\ phase = "start" /\ step = "stop" /\ idx = 1
    /\ gone = FALSE
    /\ channelIDMapping = [x \in IDs \X Sources |-> Absent]
    /\ addedChannels = [id \in PlaylistIDs |-> Absent]
    /\ addedProgrammes = {}
    /\ out = <<>>
    /\ result = "none"

-----------------------------------------------------------------------------
(* processChannel and processProgramme. *)

candidateIDs(ch) == <<ch.id>> \o [i \in DOMAIN ch.names |-> HashID[ch.names[i]]]
Wanted(ch) == {i \in DOMAIN candidateIDs(ch) : candidateIDs(ch)[i] \in PlaylistIDs}
\* The first candidate in the playlist decides, even if its channel is another.
Target(ch, id) ==
    \E i \in Wanted(ch) : id = candidateIDs(ch)[i] /\ \A j \in Wanted(ch) : i <= j

\* Mutant: an id alone makes channels the same.
channelNamesMatchAlways(ch, id) == TRUE

channelNamesMatch(ch, id) == RangeOf(ch.names) \cap addedChannels[id] # {}

MapTo(ch, d, id) == channelIDMapping' = [channelIDMapping EXCEPT ![<<ch.id, d>>] = id]

\* Mutant: the channel of a later source is written again.
ChannelTwice(ch, d, id) ==
    /\ MapTo(ch, d, id)
    /\ out' = Append(out, [kind |-> "channel", id |-> id, src |-> d])
    /\ UNCHANGED <<addedChannels, addedProgrammes>>

\* addedChannels has the id: the source joins it, if it is the same channel.
KnownChannel(ch, d, id) ==
    /\ IF channelNamesMatch(ch, id) THEN MapTo(ch, d, id) ELSE UNCHANGED channelIDMapping
    /\ UNCHANGED <<addedChannels, addedProgrammes, out>>

NewChannel(ch, d, id) ==
    /\ MapTo(ch, d, id)
    /\ addedChannels' = [addedChannels EXCEPT ![id] = RangeOf(ch.names)]
    /\ out' = Append(out, [kind |-> "channel", id |-> id, src |-> d])
    /\ UNCHANGED addedProgrammes

processChannel(ch, d) ==
    \/ Wanted(ch) = {} /\ UNCHANGED outputVars
    \/ \E id \in PlaylistIDs :
          /\ Target(ch, id)
          /\ \/ addedChannels[id] # Absent /\ KnownChannel(ch, d, id)
             \/ addedChannels[id] = Absent /\ NewChannel(ch, d, id)

\* The parts that make up a programme's key in addedProgrammes.
Key(p, id) == <<id, p.start, p.pid>>

processProgramme(p, d) ==
    LET id == channelIDMapping[<<p.channel, d>>] IN
    IF id = Absent \/ Key(p, id) \in addedProgrammes THEN UNCHANGED outputVars
    ELSE /\ addedProgrammes' = addedProgrammes \cup {Key(p, id)}
         /\ out' = Append(out, [kind |-> "programme", id |-> id, src |-> d,
                                from |-> p.channel, start |-> p.start, pid |-> p.pid])
         /\ UNCHANGED <<channelIDMapping, addedChannels>>

-----------------------------------------------------------------------------
(* WriteTo. *)

StartDecoder ==
    /\ phase = "start"
    /\ idx <= NumSources
    /\ StartBuffering(idx)
    /\ idx' = idx + 1
    /\ UNCHANGED <<feed, pos, itemBuffer, batch, err, phase, step, gone, outputVars, result>>

\* The source cannot be opened.
StartFails ==
    /\ phase = "start"
    /\ idx <= NumSources
    /\ err' = [err EXCEPT ![idx] = "failed"]
    /\ phase' = "close"
    /\ result' = "error"
    /\ UNCHANGED <<feed, readerVars, itemBuffer, batch, buffering, cancelled,
                   step, idx, gone, outputVars>>

StartDone ==
    /\ phase = "start"
    /\ idx > NumSources
    /\ phase' = "channels" /\ step' = "stop" /\ idx' = 1
    /\ UNCHANGED <<decoderVars, gone, outputVars, result>>

Processing == phase \in {"channels", "programmes"}

StopBuffer ==
    /\ Processing
    /\ step = "stop"
    /\ cancelBuffer(idx)
    /\ step' = "wait"
    /\ UNCHANGED <<feed, readerVars, itemBuffer, batch, err, buffering,
                   phase, idx, gone, outputVars, result>>

StopBufferReturns ==
    /\ Processing
    /\ step = "wait"
    /\ Waited(idx)
    /\ step' = "read"
    /\ UNCHANGED <<decoderVars, phase, idx, gone, outputVars, result>>

Reading(loop) == phase = loop /\ step = "read"
Reads(loop, kind) ==
    Reading(loop) /\ ~gone /\ HasNext(idx) /\ NextItem(idx).kind = kind

\* On to the next decoder, or to the next loop.
NextDecoder(loop, nextLoop) ==
    /\ step' = "stop"
    /\ idx' = IF idx = NumSources THEN 1 ELSE idx + 1
    /\ phase' = IF idx = NumSources THEN nextLoop ELSE loop

ReadChannel ==
    /\ Reads("channels", "channel")
    /\ processChannel(NextItem(idx), idx)
    /\ Take(idx)
    /\ UNCHANGED <<feed, batch, err, buffering, cancelled, consumerVars, gone, result>>

\* The first programme is put back, and the goroutine started again.
MeetProgramme ==
    /\ Reads("channels", "programme")
    /\ TakeAndAdd(idx)
    /\ buffering' = [buffering EXCEPT ![idx] = "select"]
    /\ cancelled' = [cancelled EXCEPT ![idx] = FALSE]
    /\ NextDecoder("channels", "programmes")
    /\ UNCHANGED <<feed, batch, err, gone, outputVars, result>>

ReadProgramme ==
    /\ Reads("programmes", "programme")
    /\ processProgramme(NextItem(idx), idx)
    /\ Take(idx)
    /\ UNCHANGED <<feed, batch, err, buffering, cancelled, consumerVars, gone, result>>

\* A channel among the programmes, or an element that is neither.
SkipItem ==
    /\ \/ Reads("channels", "tv") \/ Reads("programmes", "tv")
       \/ Reads("programmes", "channel")
    /\ Take(idx)
    /\ UNCHANGED <<feed, batch, err, buffering, cancelled, consumerVars, gone,
                   outputVars, result>>

ChannelsEnd ==
    /\ Reading("channels")
    /\ ~gone
    /\ NextError(idx, "eof")
    /\ buffering' = [buffering EXCEPT ![idx] = "select"]
    /\ cancelled' = [cancelled EXCEPT ![idx] = FALSE]
    /\ NextDecoder("channels", "programmes")
    /\ UNCHANGED <<feed, itemBuffer, batch, err, gone, outputVars, result>>

ProgrammesEnd ==
    /\ Reading("programmes")
    /\ ~gone
    /\ NextError(idx, "eof")
    /\ NextDecoder("programmes", "finish")
    /\ UNCHANGED <<feed, itemBuffer, batch, err, buffering, cancelled, gone,
                   outputVars, result>>

\* NextItem fails, or the request's context is done.  processChannels starts
\* the goroutine again even then.
ReadFails ==
    /\ Processing
    /\ step = "read"
    /\ IF gone THEN UNCHANGED readerVars ELSE NextError(idx, "failed")
    /\ IF phase = "channels"
       THEN /\ buffering' = [buffering EXCEPT ![idx] = "select"]
            /\ cancelled' = [cancelled EXCEPT ![idx] = FALSE]
       ELSE UNCHANGED <<buffering, cancelled>>
    /\ phase' = "close"
    /\ result' = "error"
    /\ UNCHANGED <<feed, itemBuffer, batch, err, step, idx, gone, outputVars>>

\* Nothing written is an error; otherwise the footer completes the document.
Finish ==
    /\ phase = "finish"
    /\ phase' = "close"
    /\ result' = IF out = <<>> THEN "error" ELSE "ok"
    /\ UNCHANGED <<decoderVars, step, idx, gone, outputVars>>

\* The deferred Close of every decoder, which waits for no goroutine.
Close ==
    /\ phase = "close"
    /\ phase' = "returned"
    /\ cancelled' = [d \in Sources |-> TRUE]
    /\ body' = [d \in Sources |-> IF body[d] = "unopened" THEN "unopened" ELSE "closed"]
    /\ UNCHANGED <<feed, pos, itemBuffer, batch, err, buffering, step, idx, gone,
                   outputVars, result>>

\* The client disconnects.
ClientGone ==
    /\ ~gone
    /\ phase # "returned"
    /\ gone' = TRUE
    /\ UNCHANGED <<decoderVars, consumerVars, outputVars, result>>

-----------------------------------------------------------------------------
WriteTo ==
    \/ StartDecoder \/ StartFails \/ StartDone \/ StopBuffer \/ StopBufferReturns
    \/ ReadChannel \/ MeetProgramme \/ ReadProgramme \/ SkipItem
    \/ ChannelsEnd \/ ProgrammesEnd \/ ReadFails \/ Finish \/ Close

Goroutine(d) ==
    /\ Tick(d) \/ BufferItem(d) \/ BufferError(d) \/ BufferStops(d, gone)
    /\ UNCHANGED <<consumerVars, gone, outputVars, result>>

Terminating ==
    /\ phase = "returned"
    /\ \A d \in Sources : buffering[d] = "none"
    /\ UNCHANGED vars

Next == WriteTo \/ (\E d \in Sources : Goroutine(d)) \/ ClientGone \/ Terminating

Spec == Init /\ [][Next]_vars

\* All goroutines are scheduled, and a source answers or fails.
FairSpec ==
    Spec /\ WF_vars(WriteTo) /\ \A d \in Sources : WF_vars(Goroutine(d))

-----------------------------------------------------------------------------
\* BaseDecoder has no lock: a decoder, its buffer and its error are touched by
\* the consumer only while no goroutine reads ahead on it.
DecoderExclusive ==
    Processing /\ step = "read" => buffering[idx] = "none"

Of(kind) == {j \in DOMAIN out : out[j].kind = kind}

\* addedChannels, addedProgrammes: whatever the sources repeat, each channel and
\* each programme is written once, and a programme only after its channel.
WellFormed ==
    /\ \A i, j \in Of("channel") : out[i].id = out[j].id => i = j
    /\ \A i, j \in Of("programme") : Key(out[i], out[i].id) = Key(out[j], out[j].id) => i = j
    /\ \A j \in Of("programme") : \E i \in Of("channel") : i < j /\ out[i].id = out[j].id

Leading(d) == {i \in DOMAIN feed[d] : \A j \in 1 .. i : feed[d][j].kind # "programme"}

\* WriteTo, StartBuffering, AddToBuffer: an EPG that is completed has every
\* channel of the playlist that a source lists ahead of its programmes, and every
\* programme of these channels, wherever the goroutines that read ahead were
\* stopped, started again or met the end.
NothingLost ==
    result = "ok" => \A d \in Sources :
        /\ \A i \in Leading(d) : \A id \in PlaylistIDs :
              feed[d][i].kind = "channel" /\ Target(feed[d][i], id) =>
                  /\ addedChannels[id] # Absent
                  /\ channelNamesMatch(feed[d][i], id) =>
                        channelIDMapping[<<feed[d][i].id, d>>] # Absent
        /\ \A p \in RangeOf(feed[d]) : p.kind = "programme" =>
              LET id == channelIDMapping[<<p.channel, d>>] IN
              id # Absent => \E j \in Of("programme") : Key(out[j], out[j].id) = Key(p, id)

\* channelNamesMatch: the programmes under a channel come from sources that call
\* the channel by a name of the one that was written.
ChannelsNotMixed ==
    \A j \in Of("programme") : \E ch \in RangeOf(feed[out[j].src]) :
        /\ ch.kind = "channel" /\ ch.id = out[j].from
        /\ \/ RangeOf(ch.names) \cap addedChannels[out[j].id] # {}
           \/ RangeOf(ch.names) = addedChannels[out[j].id]

\* StopBuffer: a request is answered in the end, even if the buffers are full.
RequestReturns == <>(phase = "returned")
=============================================================================
