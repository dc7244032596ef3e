--------------------------- MODULE EpgStreamerProofs ---------------------------
(***************************************************************************)
(* The EPG writer is correct for every number of sources, every playlist   *)
(* and whatever the sources hold.                                          *)
(***************************************************************************)
EXTENDS EpgStreamer, SequenceTheorems, TLAPS

\* The goroutine decodes one more element only into a batch with room.
BatchHasRoom == \A d \in Sources : buffering[d] = "decode" => Len(batch[d]) < BatchSize

\* What is buffered was read from the source itself.
ReadAhead ==
    \A d \in Sources : /\ itemBuffer[d] \in Seq(RangeOf(feed[d]))
                       /\ batch[d] \in Seq(RangeOf(feed[d]))

DecoderInv == DecoderTypeOK /\ BatchHasRoom /\ ReadAhead

\* addedChannels and addedProgrammes are what was written; a channel is mapped
\* only to one that was written.
Bookkeeping ==
    /\ \A id \in PlaylistIDs :
          addedChannels[id] # Absent <=> \E i \in Of("channel") : out[i].id = id
    /\ \A x \in IDs \X Sources :
          channelIDMapping[x] # Absent => addedChannels[channelIDMapping[x]] # Absent
    /\ \A j \in Of("programme") : Key(out[j], out[j].id) \in addedProgrammes

\* Channel c of source d has been named like the written channel id.
Named(c, d, id) ==
    \E ch \in RangeOf(feed[d]) :
        /\ ch.kind = "channel" /\ ch.id = c
        /\ \/ RangeOf(ch.names) \cap addedChannels[id] # {}
           \/ RangeOf(ch.names) = addedChannels[id]

\* What is mapped was named alike when it was mapped, and names do not change.
MappedByName ==
    \A c \in IDs : \A d \in Sources :
        channelIDMapping[<<c, d>>] # Absent => Named(c, d, channelIDMapping[<<c, d>>])

EpgInv ==
    /\ TypeOK /\ DecoderInv
    /\ Bookkeeping /\ MappedByName
    /\ WellFormed /\ ChannelsNotMixed

USE BatchAssumption, SourcesAssumption

-----------------------------------------------------------------------------
(* Sequences. *)

\* What an append leaves, and what it adds.
LEMMA AppendEntry ==
  ASSUME NEW S, NEW s \in Seq(S), NEW e \in S
  PROVE  /\ Append(s, e) \in Seq(S)
         /\ DOMAIN s = 1 .. Len(s) /\ Len(s) \in Nat
         /\ Len(Append(s, e)) = Len(s) + 1
         /\ DOMAIN Append(s, e) = 1 .. Len(s) + 1
         /\ \A i \in 1 .. Len(s) : Append(s, e)[i] = s[i]
         /\ Append(s, e)[Len(s) + 1] = e
  OBVIOUS

-----------------------------------------------------------------------------
(* The decoder. *)

\* The element under the parser is one of the source's.
LEMMA ElementInFeed ==
  ASSUME DecoderTypeOK, NEW d \in Sources, AtElement(d)
  PROVE  /\ Element(d) \in RangeOf(feed[d]) /\ Element(d) \in Items
         /\ pos[d] + 1 <= Len(feed[d])
  <1>1. feed[d] \in Seq(Items) /\ pos[d] \in Nat /\ pos[d] < Len(feed[d])
    BY DEF DecoderTypeOK, AtElement
  <1>2. Len(feed[d]) \in Nat /\ DOMAIN feed[d] = 1 .. Len(feed[d])
    BY <1>1, LenProperties
  <1>3. pos[d] + 1 \in 1 .. Len(feed[d])
    BY <1>1, <1>2
  <1>4. QED
    BY <1>1, <1>2, <1>3, ElementOfSeq DEF Element, RangeOf

\* NextItem returns an element of the source, buffered or not.
LEMMA NextItemInFeed ==
  ASSUME DecoderInv, NEW d \in Sources, HasNext(d)
  PROVE  NextItem(d) \in RangeOf(feed[d]) /\ NextItem(d) \in Items
  <1>1. CASE itemBuffer[d] # <<>>
    <2>1. itemBuffer[d] \in Seq(RangeOf(feed[d])) /\ itemBuffer[d] \in Seq(Items)
      BY DEF DecoderInv, ReadAhead, DecoderTypeOK
    <2>2. QED
      BY <1>1, <2>1, HeadTailProperties DEF NextItem
  <1>2. CASE itemBuffer[d] = <<>>
    BY <1>2, ElementInFeed DEF HasNext, NextItem, Decodes, DecoderInv
  <1>3. QED
    BY <1>1, <1>2

\* The parser advances within the source.
LEMMA AdvanceKeeps ==
  ASSUME DecoderInv, feed' = feed, NEW d \in Sources, AtElement(d), Advance(d)
  PROVE  /\ body' = body /\ pos' \in [Sources -> Nat]
         /\ \A s \in Sources : pos'[s] <= Len(feed'[s])
  <1>1. pos[d] + 1 <= Len(feed[d])
    BY ElementInFeed DEF DecoderInv
  <1>2. /\ pos \in [Sources -> Nat] /\ pos' = [pos EXCEPT ![d] = @ + 1]
        /\ \A s \in Sources : pos[s] <= Len(feed[s])
    BY DEF DecoderInv, DecoderTypeOK, Advance
  <1>3. \A s \in Sources : pos'[s] = IF s = d THEN pos[s] + 1 ELSE pos[s]
    BY <1>2
  <1>4. \A s \in Sources : pos'[s] <= Len(feed'[s])
    BY <1>1, <1>2, <1>3
  <1>5. QED
    BY <1>2, <1>4 DEF Advance

\* So do its errors.
LEMMA ErrorKeeps ==
  ASSUME DecoderInv, feed' = feed, NEW d \in Sources, NEW e,
         DecodeError(d, e) \/ NextError(d, e)
  PROVE  /\ body' \in [Sources -> {"unopened", "open", "broken", "closed"}]
         /\ pos' \in [Sources -> Nat]
         /\ \A s \in Sources : pos'[s] <= Len(feed'[s])
  <1>1. CASE DecodeError(d, e)
    <2>1. CASE AtElement(d) /\ Advance(d)
      BY <2>1, AdvanceKeeps DEF DecoderInv, DecoderTypeOK
    <2>2. CASE UNCHANGED pos /\ (UNCHANGED body \/ body' = [body EXCEPT ![d] = "broken"])
      BY <2>2 DEF DecoderInv, DecoderTypeOK
    <2>3. QED
      BY <1>1, <2>1, <2>2 DEF DecodeError, readerVars
  <1>2. CASE UNCHANGED readerVars
    BY <1>2 DEF readerVars, DecoderInv, DecoderTypeOK
  <1>3. QED
    BY <1>1, <1>2 DEF NextError

\* The consumer takes an item and leaves a buffer of the source's elements.
LEMMA TakeKeeps ==
  ASSUME DecoderInv, feed' = feed, NEW d \in Sources, HasNext(d),
         Take(d) \/ TakeAndAdd(d)
  PROVE  /\ body' = body /\ pos' \in [Sources -> Nat]
         /\ \A s \in Sources : pos'[s] <= Len(feed'[s])
         /\ itemBuffer' \in [Sources -> Seq(Items)]
         /\ \A s \in Sources : itemBuffer'[s] \in Seq(RangeOf(feed'[s]))
  <1> DEFINE F == RangeOf(feed[d])
  <1>1. /\ itemBuffer \in [Sources -> Seq(Items)]
        /\ \A s \in Sources : itemBuffer[s] \in Seq(RangeOf(feed[s]))
    BY DEF DecoderInv, DecoderTypeOK, ReadAhead
  <1>2. CASE itemBuffer[d] # <<>>
    <2>1. body' = body /\ pos' = pos
      BY <1>2 DEF Take, TakeAndAdd, readerVars
    <2>2. /\ Tail(itemBuffer[d]) \in Seq(F)
          /\ Tail(itemBuffer[d]) \in Seq(Items)
          /\ Head(itemBuffer[d]) \in F /\ Head(itemBuffer[d]) \in Items
      BY <1>1, <1>2, HeadTailProperties
    <2>3. /\ Append(Tail(itemBuffer[d]), Head(itemBuffer[d])) \in Seq(F)
          /\ Append(Tail(itemBuffer[d]), Head(itemBuffer[d])) \in Seq(Items)
      BY <2>2, AppendEntry
    <2>4. PICK b \in Seq(F) : b \in Seq(Items) /\ itemBuffer' = [itemBuffer EXCEPT ![d] = b]
      BY <1>2, <2>2, <2>3 DEF Take, TakeAndAdd
    <2>5. QED
      BY <1>1, <2>1, <2>4 DEF DecoderInv, DecoderTypeOK
  <1>3. CASE itemBuffer[d] = <<>>
    <2>1. AtElement(d) /\ Advance(d)
      BY <1>3 DEF HasNext, Decodes, Take, TakeAndAdd
    <2>2. Element(d) \in F /\ Element(d) \in Items
      BY <2>1, ElementInFeed DEF DecoderInv
    <2>3. PICK b \in Seq(F) : b \in Seq(Items) /\ itemBuffer' = [itemBuffer EXCEPT ![d] = b]
      <3>1. CASE Take(d)
        BY <1>1, <1>3, <3>1 DEF Take
      <3>2. CASE TakeAndAdd(d)
        <4>1. <<Element(d)>> \in Seq(F) /\ <<Element(d)>> \in Seq(Items)
          BY <2>2
        <4>2. itemBuffer' = [itemBuffer EXCEPT ![d] = <<Element(d)>>]
          BY <1>3, <3>2 DEF TakeAndAdd
        <4>3. QED
          BY <4>1, <4>2, Zenon
      <3>3. QED
        BY <3>1, <3>2
    <2>4. QED
      BY <1>1, <2>1, <2>3, AdvanceKeeps
  <1>4. QED
    BY <1>2, <1>3

\* The goroutine's end moves its batch to the buffer.
LEMMA EndKeeps ==
  ASSUME DecoderInv, feed' = feed, NEW d \in Sources, End(d)
  PROVE  /\ itemBuffer' \in [Sources -> Seq(Items)]
         /\ batch' \in [Sources -> Seq(Items)]
         /\ \A s \in Sources : Len(batch'[s]) <= BatchSize
         /\ buffering' = [buffering EXCEPT ![d] = "none"]
         /\ cancelled' \in [Sources -> BOOLEAN]
         /\ BatchHasRoom' /\ ReadAhead'
  <1> DEFINE F == RangeOf(feed[d])
             b == itemBuffer[d] \o batch[d]
  <1>1. /\ itemBuffer \in [Sources -> Seq(Items)] /\ batch \in [Sources -> Seq(Items)]
        /\ \A s \in Sources : /\ itemBuffer[s] \in Seq(RangeOf(feed[s]))
                              /\ batch[s] \in Seq(RangeOf(feed[s]))
                              /\ Len(batch[s]) <= BatchSize
    BY DEF DecoderInv, DecoderTypeOK, ReadAhead
  <1>2. b \in Seq(F) /\ b \in Seq(Items)
    BY <1>1, ConcatProperties
  <1>3. itemBuffer' = [itemBuffer EXCEPT ![d] = b] /\ batch' = [batch EXCEPT ![d] = <<>>]
    BY DEF End, Flush
  <1>4. /\ <<>> \in Seq(Items) /\ \A s : <<>> \in Seq(RangeOf(feed[s]))
        /\ Len(<<>>) = 0 /\ 0 <= BatchSize
    BY EmptySeq, BatchAssumption
  <1>5. /\ itemBuffer' \in [Sources -> Seq(Items)]
        /\ \A s \in Sources : itemBuffer'[s] \in Seq(RangeOf(feed[s]))
    BY <1>1, <1>2, <1>3
  <1>6. /\ batch' \in [Sources -> Seq(Items)]
        /\ \A s \in Sources : batch'[s] \in Seq(RangeOf(feed[s])) /\ Len(batch'[s]) <= BatchSize
    <2>1. \A s \in Sources : batch'[s] = IF s = d THEN <<>> ELSE batch[s]
      BY <1>1, <1>3
    <2>2. DOMAIN batch' = Sources /\ batch' = [s \in Sources |-> batch'[s]]
      BY <1>1, <1>3
    <2>3. \A s \in Sources : /\ batch'[s] \in Seq(RangeOf(feed[s]))
                             /\ batch'[s] \in Seq(Items)
                             /\ Len(batch'[s]) <= BatchSize
      <3>1. ASSUME NEW s \in Sources, s = d
            PROVE  batch'[s] = <<>>
        BY <2>1, <3>1
      <3>2. ASSUME NEW s \in Sources, s # d
            PROVE  batch'[s] = batch[s]
        BY <2>1, <3>2
      <3>3. QED
        BY <1>1, <1>4, <3>1, <3>2, Zenon
    <2>4. QED
      BY <2>2, <2>3
  <1>7. BatchHasRoom'
    BY <1>3, <1>4 DEF DecoderInv, DecoderTypeOK, BatchHasRoom, End
  <1>8. QED
    BY <1>5, <1>6, <1>7 DEF End, ReadAhead, DecoderInv, DecoderTypeOK

\* Every step keeps the decoders typed, their batches within bufferBatchSize
\* and their buffers filled from their own source.
LEMMA DecoderStep ==
  ASSUME TypeOK, DecoderInv, [Next]_vars
  PROVE  DecoderInv'
  <1> USE DEF decoderVars, readerVars
  <1>1. CASE UNCHANGED decoderVars
    BY <1>1 DEF DecoderInv, DecoderTypeOK, BatchHasRoom, ReadAhead
  <1>2. CASE StartDecoder \/ StartFails \/ StopBuffer \/ Close
    <2>1. UNCHANGED <<feed, pos, itemBuffer, batch>>
      BY <1>2 DEF StartDecoder, StartFails, StopBuffer, Close
    <2>2. body' \in [Sources -> {"unopened", "open", "broken", "closed"}]
      <3>1. CASE Close
        BY <3>1 DEF DecoderInv, DecoderTypeOK, Close
      <3>2. CASE StartDecoder
        <4>1. PICK b \in {"unopened", "open", "broken", "closed"} :
                 body' = [body EXCEPT ![idx] = b]
          BY <3>2 DEF DecoderInv, DecoderTypeOK, StartDecoder, StartBuffering, TypeOK
        <4>2. QED
          BY <4>1 DEF DecoderInv, DecoderTypeOK
      <3>3. CASE StartFails \/ StopBuffer
        BY <3>3 DEF DecoderInv, DecoderTypeOK, StartFails, StopBuffer
      <3>4. QED
        BY <1>2, <3>1, <3>2, <3>3
    <2>3. err' \in [Sources -> {"none", "eof", "failed"}]
      BY <1>2 DEF DecoderInv, DecoderTypeOK, StartDecoder, StartFails, StopBuffer, Close
    <2>4. cancelled' \in [Sources -> BOOLEAN]
      BY <1>2 DEF DecoderInv, DecoderTypeOK, StartDecoder, StartFails, StopBuffer,
         Close, StartBuffering, cancelBuffer
    <2>5. buffering' = buffering \/ buffering' = [buffering EXCEPT ![idx] = "select"]
      BY <1>2 DEF StartDecoder, StartFails, StopBuffer, Close, StartBuffering
    <2>6. BatchHasRoom' /\ buffering' \in [Sources -> {"none", "select", "decode"}]
      BY <2>1, <2>5 DEF DecoderInv, DecoderTypeOK, BatchHasRoom
    <2>7. DecoderTypeOK' /\ ReadAhead'
      BY <2>1, <2>2, <2>3, <2>4, <2>6 DEF DecoderInv, DecoderTypeOK, ReadAhead
    <2>8. QED
      BY <2>6, <2>7 DEF DecoderInv
  <1>3. CASE ReadChannel \/ ReadProgramme \/ SkipItem \/ MeetProgramme
    <2>1. idx \in Sources /\ HasNext(idx) /\ feed' = feed
      BY <1>3 DEF TypeOK, ReadChannel, ReadProgramme, SkipItem, MeetProgramme,
         Reads, Reading
    <2>2. Take(idx) \/ TakeAndAdd(idx)
      BY <1>3 DEF ReadChannel, ReadProgramme, SkipItem, MeetProgramme
    <2>3. /\ body' = body /\ pos' \in [Sources -> Nat]
          /\ \A s \in Sources : pos'[s] <= Len(feed'[s])
          /\ itemBuffer' \in [Sources -> Seq(Items)]
          /\ \A s \in Sources : itemBuffer'[s] \in Seq(RangeOf(feed'[s]))
      BY <2>1, <2>2, TakeKeeps
    <2>4. /\ UNCHANGED <<feed, batch, err>>
          /\ \/ UNCHANGED <<buffering, cancelled>>
             \/ /\ buffering' = [buffering EXCEPT ![idx] = "select"]
                /\ cancelled' = [cancelled EXCEPT ![idx] = FALSE]
      BY <1>3 DEF ReadChannel, ReadProgramme, SkipItem, MeetProgramme
    <2>5. BatchHasRoom'
      BY <2>1, <2>4 DEF DecoderInv, DecoderTypeOK, BatchHasRoom
    <2>6. DecoderTypeOK'
      BY <2>1, <2>3, <2>4 DEF DecoderInv, DecoderTypeOK
    <2>7. ReadAhead'
      BY <2>3, <2>4 DEF DecoderInv, ReadAhead
    <2>8. QED
      BY <2>5, <2>6, <2>7 DEF DecoderInv
  <1>4. CASE ChannelsEnd \/ ProgrammesEnd \/ (ReadFails /\ ~gone)
    <2>1. idx \in Sources /\ \E e : NextError(idx, e)
      BY <1>4 DEF TypeOK, ChannelsEnd, ProgrammesEnd, ReadFails, Reading, Processing
    <2>2. /\ UNCHANGED <<feed, itemBuffer, batch, err>>
          /\ \/ UNCHANGED <<buffering, cancelled>>
             \/ /\ buffering' = [buffering EXCEPT ![idx] = "select"]
                /\ cancelled' = [cancelled EXCEPT ![idx] = FALSE]
      BY <1>4 DEF ChannelsEnd, ProgrammesEnd, ReadFails
    <2>3. /\ body' \in [Sources -> {"unopened", "open", "broken", "closed"}]
          /\ pos' \in [Sources -> Nat]
          /\ \A s \in Sources : pos'[s] <= Len(feed'[s])
      BY <2>1, <2>2, ErrorKeeps
    <2>4. BatchHasRoom'
      BY <2>1, <2>2 DEF DecoderInv, DecoderTypeOK, BatchHasRoom
    <2>5. DecoderTypeOK' /\ ReadAhead'
      BY <2>1, <2>2, <2>3 DEF DecoderInv, DecoderTypeOK, ReadAhead
    <2>6. QED
      BY <2>4, <2>5 DEF DecoderInv
  <1>5. CASE ReadFails /\ gone
    BY <1>5 DEF DecoderInv, DecoderTypeOK, BatchHasRoom, ReadAhead, ReadFails
  <1>6. ASSUME NEW d \in Sources, Tick(d)
        PROVE  DecoderInv'
    BY <1>6 DEF DecoderInv, DecoderTypeOK, BatchHasRoom, ReadAhead, Tick
  <1>7. ASSUME NEW d \in Sources, BufferItem(d)
        PROVE  DecoderInv'
    <2> DEFINE b == Append(batch[d], Element(d))
    <2>1. /\ AtElement(d) /\ Advance(d) /\ UNCHANGED <<feed, itemBuffer, err, cancelled>>
          /\ batch' = [batch EXCEPT ![d] = b]
          /\ buffering' = [buffering EXCEPT ![d] =
                              IF Len(batch'[d]) = BatchSize THEN "select" ELSE "decode"]
      BY <1>7 DEF BufferItem, Decodes
    <2>2. /\ Element(d) \in RangeOf(feed[d]) /\ Element(d) \in Items
          /\ batch[d] \in Seq(RangeOf(feed[d])) /\ batch[d] \in Seq(Items)
      BY <2>1, ElementInFeed DEF DecoderInv, DecoderTypeOK, ReadAhead
    <2>3. /\ b \in Seq(RangeOf(feed[d])) /\ b \in Seq(Items)
          /\ Len(b) = Len(batch[d]) + 1 /\ Len(batch[d]) \in Nat
      BY <2>2, AppendEntry
    <2>4. Len(b) <= BatchSize
      BY <1>7, <2>3 DEF BufferItem, DecoderInv, BatchHasRoom
    <2>5. batch' \in [Sources -> Seq(Items)]
      BY <2>1, <2>3 DEF DecoderInv, DecoderTypeOK
    <2>6. \A s \in Sources : batch'[s] = IF s = d THEN b ELSE batch[s]
      BY <2>1 DEF DecoderInv, DecoderTypeOK
    <2>7. DecoderTypeOK'
      <3>1. \A s \in Sources : pos'[s] <= Len(feed'[s]) /\ Len(batch'[s]) <= BatchSize
        BY <2>1, <2>4, <2>6, AdvanceKeeps DEF DecoderInv, DecoderTypeOK
      <3>2. pos' \in [Sources -> Nat] /\ body' = body
        BY <2>1, AdvanceKeeps
      <3>3. buffering' \in [Sources -> {"none", "select", "decode"}]
        BY <2>1 DEF DecoderInv, DecoderTypeOK
      <3>4. QED
        BY <2>1, <2>5, <3>1, <3>2, <3>3 DEF DecoderInv, DecoderTypeOK
    <2>8. BatchHasRoom'
      <3>1. ASSUME NEW s \in Sources, buffering'[s] = "decode"
            PROVE  Len(batch'[s]) < BatchSize
        <4>1. CASE s = d
          <5>1. buffering'[d] = IF Len(batch'[d]) = BatchSize THEN "select" ELSE "decode"
            BY <2>1 DEF DecoderInv, DecoderTypeOK
          <5>2. batch'[d] = b /\ Len(b) # BatchSize
            BY <2>6, <3>1, <4>1, <5>1
          <5>3. QED
            BY <2>3, <2>4, <4>1, <5>2
        <4>2. CASE s # d
          BY <2>1, <2>6, <3>1, <4>2 DEF DecoderInv, DecoderTypeOK, BatchHasRoom
        <4>3. QED
          BY <4>1, <4>2
      <3>2. QED
        BY <3>1 DEF BatchHasRoom
    <2>9. ReadAhead'
      BY <2>1, <2>3, <2>6 DEF DecoderInv, ReadAhead
    <2>10. QED
      BY <2>7, <2>8, <2>9 DEF DecoderInv
  <1>8. ASSUME NEW d \in Sources, BufferError(d)
        PROVE  DecoderInv'
    <2>1. feed' = feed /\ End(d) /\ \E e : DecodeError(d, e)
      BY <1>8 DEF BufferError
    <2>2. err' \in [Sources -> {"none", "eof", "failed"}]
      BY <1>8 DEF BufferError, DecoderInv, DecoderTypeOK
    <2>3. /\ body' \in [Sources -> {"unopened", "open", "broken", "closed"}]
          /\ pos' \in [Sources -> Nat]
          /\ \A s \in Sources : pos'[s] <= Len(feed'[s])
      BY <2>1, ErrorKeeps
    <2>4. QED
      BY <2>1, <2>2, <2>3, EndKeeps DEF DecoderInv, DecoderTypeOK
  <1>9. ASSUME NEW d \in Sources, BufferStops(d, gone)
        PROVE  DecoderInv'
    <2>1. feed' = feed /\ End(d) /\ UNCHANGED <<readerVars, err>>
      BY <1>9 DEF BufferStops
    <2>2. QED
      BY <2>1, EndKeeps DEF DecoderInv, DecoderTypeOK
  <1>10. QED
    BY <1>1, <1>2, <1>3, <1>4, <1>5, <1>6, <1>7, <1>8, <1>9
    DEF Next, WriteTo, Goroutine, ClientGone, Terminating, StartDone,
        StopBufferReturns, Finish, vars

-----------------------------------------------------------------------------
(* The consumer. *)

\* Elements have the types that the handlers expect.
LEMMA ItemTypes ==
  ASSUME NEW x \in Items
  PROVE  /\ x.kind = "channel" => x \in Channel
         /\ x.kind = "programme" => x \in Programme
  BY FeedsAssumption DEF Channel, Programme

\* The handler of a channel keeps the types, and writes at most an entry for it.
LEMMA ChannelStepType ==
  ASSUME TypeOK, NEW d \in Sources, NEW ch \in Channel, processChannel(ch, d)
  PROVE  /\ channelIDMapping' \in [IDs \X Sources -> PlaylistIDs \cup {Absent}]
         /\ addedChannels' \in [PlaylistIDs -> {Absent} \cup SUBSET Names]
         /\ addedProgrammes' = addedProgrammes
         /\ out' \in Seq(Written)
  <1>1. CASE UNCHANGED outputVars
    BY <1>1 DEF TypeOK, outputVars
  <1>2. ch.id \in IDs /\ RangeOf(ch.names) \in SUBSET Names
    <2>1. ch.names \in Seq(Names) /\ ch.id \in IDs
      BY DEF Channel
    <2>2. \A i \in DOMAIN ch.names : ch.names[i] \in Names
      BY <2>1, LenProperties, ElementOfSeq
    <2>3. QED
      BY <2>1, <2>2 DEF RangeOf
  <1>3. ASSUME NEW id \in PlaylistIDs, MapTo(ch, d, id)
        PROVE  channelIDMapping' \in [IDs \X Sources -> PlaylistIDs \cup {Absent}]
    BY <1>2, <1>3 DEF MapTo, TypeOK
  <1>4. ASSUME NEW id \in PlaylistIDs, KnownChannel(ch, d, id)
        PROVE  /\ channelIDMapping' \in [IDs \X Sources -> PlaylistIDs \cup {Absent}]
               /\ UNCHANGED <<addedChannels, addedProgrammes, out>>
    BY <1>3, <1>4 DEF KnownChannel, TypeOK
  <1>5. ASSUME NEW id \in PlaylistIDs, NewChannel(ch, d, id)
        PROVE  /\ channelIDMapping' \in [IDs \X Sources -> PlaylistIDs \cup {Absent}]
               /\ addedChannels' \in [PlaylistIDs -> {Absent} \cup SUBSET Names]
               /\ addedProgrammes' = addedProgrammes
               /\ out' \in Seq(Written)
    <2>1. [kind |-> "channel", id |-> id, src |-> d] \in Written
      BY DEF Written
    <2>2. out' \in Seq(Written)
      BY <1>5, <2>1, AppendEntry DEF NewChannel, TypeOK
    <2>3. QED
      BY <1>2, <1>3, <1>5, <2>2 DEF NewChannel, TypeOK
  <1>6. QED
    BY <1>1, <1>4, <1>5 DEF processChannel, TypeOK

\* So does the handler of a programme.
LEMMA ProgrammeStepType ==
  ASSUME TypeOK, NEW d \in Sources, NEW p \in Programme, processProgramme(p, d)
  PROVE  /\ UNCHANGED <<channelIDMapping, addedChannels>>
         /\ addedProgrammes' \subseteq PlaylistIDs \X Nat \X Nat
         /\ out' \in Seq(Written)
  <1> DEFINE id == channelIDMapping[<<p.channel, d>>]
             e == [kind |-> "programme", id |-> id, src |-> d,
                   from |-> p.channel, start |-> p.start, pid |-> p.pid]
  <1>1. CASE UNCHANGED outputVars
    BY <1>1 DEF TypeOK, outputVars
  <1>2. CASE id # Absent /\ ~UNCHANGED outputVars
    <2>1. /\ p.channel \in IDs /\ p.start \in Nat /\ p.pid \in Nat
          /\ id \in PlaylistIDs
      BY <1>2 DEF TypeOK, Programme
    <2>2. e \in Written /\ Key(p, id) \in PlaylistIDs \X Nat \X Nat
      BY <2>1 DEF Written, Key
    <2>3. /\ out' = Append(out, e) /\ addedProgrammes' = addedProgrammes \cup {Key(p, id)}
          /\ UNCHANGED <<channelIDMapping, addedChannels>>
      BY <1>2 DEF processProgramme
    <2>4. out' \in Seq(Written)
      BY <2>2, <2>3, AppendEntry DEF TypeOK
    <2>5. QED
      BY <2>2, <2>3, <2>4 DEF TypeOK
  <1>3. QED
    BY <1>1, <1>2 DEF processProgramme

\* Every step keeps the types.
LEMMA EpgTypeStep ==
  ASSUME TypeOK, DecoderInv, [Next]_vars
  PROVE  TypeOK'
  <1> USE DEF TypeOK, consumerVars, outputVars
  <1>1. DecoderTypeOK'
    BY DecoderStep DEF DecoderInv
  <1>2. CASE ReadChannel
    <2>1. idx \in Sources /\ NextItem(idx) \in Channel
      BY <1>2, NextItemInFeed, ItemTypes DEF ReadChannel, Reads, Reading
    <2>2. QED
      BY <1>1, <1>2, <2>1, ChannelStepType DEF ReadChannel
  <1>3. CASE ReadProgramme
    <2>1. idx \in Sources /\ NextItem(idx) \in Programme
      BY <1>3, NextItemInFeed, ItemTypes DEF ReadProgramme, Reads, Reading
    <2>2. QED
      BY <1>1, <1>3, <2>1, ProgrammeStepType DEF ReadProgramme
  <1>4. CASE StartDecoder \/ StartFails \/ StartDone
    BY <1>1, <1>4 DEF StartDecoder, StartFails, StartDone
  <1>5. CASE StopBuffer \/ StopBufferReturns \/ SkipItem
    BY <1>1, <1>5 DEF StopBuffer, StopBufferReturns, SkipItem
  <1>6. CASE MeetProgramme \/ ChannelsEnd \/ ProgrammesEnd
    BY <1>1, <1>6 DEF MeetProgramme, ChannelsEnd, ProgrammesEnd, NextDecoder,
       Reads, Reading
  <1>7. CASE ReadFails \/ Finish \/ Close \/ ClientGone
    BY <1>1, <1>7 DEF ReadFails, Finish, Close, ClientGone
  <1>8. ASSUME NEW d \in Sources, Goroutine(d)
        PROVE  TypeOK'
    BY <1>1, <1>8 DEF Goroutine
  <1>9. CASE UNCHANGED vars
    BY <1>1, <1>9 DEF vars
  <1>10. QED
    BY <1>2, <1>3, <1>4, <1>5, <1>6, <1>7, <1>8, <1>9 DEF Next, WriteTo, Terminating

\* The goroutines of other decoders do not concern the consumer, and the one of
\* its own has returned.
LEMMA ExclusiveStep ==
  ASSUME TypeOK, DecoderExclusive, [Next]_vars
  PROVE  DecoderExclusive'
  <1> USE DEF TypeOK, DecoderTypeOK, DecoderExclusive, Processing, consumerVars,
              outputVars, decoderVars
  <1>1. CASE StartDecoder \/ StartFails \/ StartDone \/ Finish \/ Close \/ ReadFails
    BY <1>1 DEF StartDecoder, StartFails, StartDone, Finish, Close, ReadFails
  <1>2. CASE StopBuffer \/ MeetProgramme \/ ChannelsEnd \/ ProgrammesEnd
    BY <1>2 DEF StopBuffer, MeetProgramme, ChannelsEnd, ProgrammesEnd, NextDecoder
  <1>3. CASE StopBufferReturns
    BY <1>3 DEF StopBufferReturns, Waited
  <1>4. CASE ReadChannel \/ ReadProgramme \/ SkipItem \/ ClientGone
    BY <1>4 DEF ReadChannel, ReadProgramme, SkipItem, ClientGone
  <1>5. ASSUME NEW d \in Sources, Goroutine(d)
        PROVE  DecoderExclusive'
    <2>1. buffering[d] # "none" /\ \A s \in Sources : s # d => buffering'[s] = buffering[s]
      BY <1>5 DEF Goroutine, Tick, BufferItem, BufferError, BufferStops, End
    <2>2. UNCHANGED <<phase, step, idx>>
      BY <1>5 DEF Goroutine
    <2>3. QED
      BY <2>1, <2>2
  <1>6. CASE UNCHANGED vars
    BY <1>6 DEF vars
  <1>7. QED
    BY <1>1, <1>2, <1>3, <1>4, <1>5, <1>6 DEF Next, WriteTo, Terminating

-----------------------------------------------------------------------------
(* What is written. *)

\* One more entry.
LEMMA OneMoreEntry ==
  ASSUME out \in Seq(Written), NEW e \in Written, out' = Append(out, e)
  PROVE  /\ Len(out) \in Nat
         /\ \A k : Of(k) \subseteq 1 .. Len(out)
         /\ \A k : Of(k)' = IF e.kind = k THEN Of(k) \cup {Len(out) + 1} ELSE Of(k)
         /\ \A i \in 1 .. Len(out) : out'[i] = out[i]
         /\ out'[Len(out) + 1] = e
  <1>1. /\ DOMAIN out = 1 .. Len(out) /\ Len(out) \in Nat
        /\ DOMAIN out' = 1 .. Len(out) + 1
        /\ \A i \in 1 .. Len(out) : out'[i] = out[i]
        /\ out'[Len(out) + 1] = e
    BY AppendEntry
  <1>2. \A i : i \in 1 .. Len(out) + 1 <=> i \in 1 .. Len(out) \/ i = Len(out) + 1
    BY <1>1
  <1>3. \A k, i : i \in Of(k)' <=> i \in Of(k) \/ (i = Len(out) + 1 /\ e.kind = k)
    BY <1>1, <1>2 DEF Of
  <1>4. QED
    BY <1>1, <1>3 DEF Of

\* A step changes what is written by an element of a source only.
LEMMA OutputCases ==
  ASSUME TypeOK, DecoderInv, [Next]_vars
  PROVE  /\ feed' = feed
         /\ \/ UNCHANGED outputVars
            \/ \E d \in Sources : \E ch \in RangeOf(feed[d]) : \E id \in PlaylistIDs :
                  /\ ch.kind = "channel" /\ ch \in Channel
                  /\ \/ addedChannels[id] # Absent /\ KnownChannel(ch, d, id)
                     \/ addedChannels[id] = Absent /\ NewChannel(ch, d, id)
            \/ \E d \in Sources : \E p \in Programme : processProgramme(p, d)
  <1>1. CASE ReadChannel
    <2>1. /\ idx \in Sources /\ NextItem(idx) \in RangeOf(feed[idx])
          /\ NextItem(idx).kind = "channel" /\ NextItem(idx) \in Channel
      BY <1>1, NextItemInFeed, ItemTypes DEF TypeOK, ReadChannel, Reads, Reading
    <2>2. processChannel(NextItem(idx), idx) /\ feed' = feed
      BY <1>1 DEF ReadChannel
    <2>3. QED
      BY <2>1, <2>2 DEF processChannel
  <1>2. CASE ReadProgramme
    <2>1. idx \in Sources /\ NextItem(idx) \in Programme
      BY <1>2, NextItemInFeed, ItemTypes DEF TypeOK, ReadProgramme, Reads, Reading
    <2>2. QED
      BY <1>2, <2>1 DEF ReadProgramme
  <1>3. CASE WriteTo /\ ~ReadChannel /\ ~ReadProgramme
    BY <1>3 DEF WriteTo, StartDecoder, StartFails, StartDone, StopBuffer,
       StopBufferReturns, MeetProgramme, SkipItem, ChannelsEnd, ProgrammesEnd,
       ReadFails, Finish, Close, decoderVars
  <1>4. ASSUME NEW d \in Sources, Goroutine(d)
        PROVE  feed' = feed /\ UNCHANGED outputVars
    BY <1>4 DEF Goroutine, Tick, BufferItem, BufferError, BufferStops
  <1>5. CASE ClientGone \/ UNCHANGED vars
    BY <1>5 DEF ClientGone, decoderVars, vars
  <1>6. QED
    BY <1>1, <1>2, <1>3, <1>4, <1>5 DEF Next, Terminating

\* A source that joins a channel: nothing is written, and the mapping is by name.
LEMMA KnownChannelStep ==
  ASSUME EpgInv, feed' = feed,
         NEW d \in Sources, NEW ch \in RangeOf(feed[d]), NEW id \in PlaylistIDs,
         ch.kind = "channel", ch \in Channel,
         addedChannels[id] # Absent, KnownChannel(ch, d, id)
  PROVE  Bookkeeping' /\ MappedByName' /\ WellFormed' /\ ChannelsNotMixed'
  <1>1. UNCHANGED <<addedChannels, addedProgrammes, out>>
    BY DEF KnownChannel
  <1>2. \A k : Of(k)' = Of(k)
    BY <1>1 DEF Of
  <1>3. WellFormed' /\ ChannelsNotMixed'
    BY <1>1, <1>2 DEF EpgInv, WellFormed, ChannelsNotMixed
  <1>4. \A c, s, i : Named(c, s, i)' <=> Named(c, s, i)
    BY <1>1 DEF Named
  <1>5. ASSUME NEW c \in IDs, NEW s \in Sources, channelIDMapping'[<<c, s>>] # Absent
        PROVE  /\ addedChannels[channelIDMapping'[<<c, s>>]] # Absent
               /\ Named(c, s, channelIDMapping'[<<c, s>>])
    <2>1. CASE channelIDMapping'[<<c, s>>] = channelIDMapping[<<c, s>>]
      BY <1>5, <2>1 DEF EpgInv, Bookkeeping, MappedByName
    <2>2. CASE channelIDMapping'[<<c, s>>] # channelIDMapping[<<c, s>>]
      <3>1. channelNamesMatch(ch, id) /\ MapTo(ch, d, id)
        BY <2>2 DEF KnownChannel
      <3>2. c = ch.id /\ s = d /\ channelIDMapping'[<<c, s>>] = id
        BY <2>2, <3>1 DEF MapTo, EpgInv, TypeOK
      <3>3. Named(c, s, id)
        BY <3>1, <3>2 DEF channelNamesMatch, Named
      <3>4. QED
        BY <3>2, <3>3
    <2>3. QED
      BY <2>1, <2>2
  <1>6. MappedByName'
    BY <1>4, <1>5 DEF MappedByName
  <1>7. Bookkeeping'
    BY <1>1, <1>2, <1>5 DEF EpgInv, Bookkeeping
  <1>8. QED
    BY <1>3, <1>6, <1>7

\* A channel that is written first takes an id that no entry has.
LEMMA NewChannelStep ==
  ASSUME EpgInv, feed' = feed,
         NEW d \in Sources, NEW ch \in RangeOf(feed[d]), NEW id \in PlaylistIDs,
         ch.kind = "channel", ch \in Channel,
         addedChannels[id] = Absent, NewChannel(ch, d, id)
  PROVE  Bookkeeping' /\ MappedByName' /\ WellFormed' /\ ChannelsNotMixed'
  <1> DEFINE e == [kind |-> "channel", id |-> id, src |-> d]
             n == Len(out) + 1
  <1>1. /\ addedChannels' = [addedChannels EXCEPT ![id] = RangeOf(ch.names)]
        /\ addedProgrammes' = addedProgrammes /\ out' = Append(out, e)
        /\ MapTo(ch, d, id)
    BY DEF NewChannel
  <1>2. RangeOf(ch.names) # Absent
    <2>1. ch.names \in Seq(Names)
      BY DEF Channel
    <2>2. \A i \in DOMAIN ch.names : ch.names[i] \in Names
      BY <2>1, LenProperties, ElementOfSeq
    <2>3. QED
      BY <2>2, AbsentAssumption DEF RangeOf
  <1>3. /\ Len(out) \in Nat /\ \A k : Of(k) \subseteq 1 .. Len(out)
        /\ Of("channel")' = Of("channel") \cup {n}
        /\ Of("programme")' = Of("programme")
        /\ \A i \in 1 .. Len(out) : out'[i] = out[i]
        /\ out'[n] = e
    <2>1. e \in Written /\ out \in Seq(Written)
      BY DEF Written, EpgInv, TypeOK
    <2>2. e.kind = "channel"
      OBVIOUS
    <2>3. QED
      BY <1>1, <2>1, <2>2, OneMoreEntry
  <1>4. /\ \A k, i : i \in Of(k) => out'[i] = out[i] /\ i < n
        /\ e.id = id
    BY <1>3
  <1>5. \A i \in Of("channel") : out[i].id # id
    BY DEF EpgInv, Bookkeeping
  <1>6. \A i \in PlaylistIDs : i # id => addedChannels'[i] = addedChannels[i]
    BY <1>1 DEF EpgInv, TypeOK
  <1>7. addedChannels'[id] = RangeOf(ch.names)
    BY <1>1 DEF EpgInv, TypeOK
  <1>8. ASSUME NEW c \in IDs, NEW s \in Sources, channelIDMapping'[<<c, s>>] # Absent
        PROVE  /\ addedChannels'[channelIDMapping'[<<c, s>>]] # Absent
               /\ Named(c, s, channelIDMapping[<<c, s>>])'
    <2>1. CASE c = ch.id /\ s = d
      <3>1. channelIDMapping'[<<c, s>>] = id
        BY <1>1, <2>1 DEF MapTo, EpgInv, TypeOK
      <3>2. QED
        BY <1>2, <1>7, <2>1, <3>1 DEF Named
    <2>2. CASE ~(c = ch.id /\ s = d)
      <3> DEFINE m == channelIDMapping[<<c, s>>]
      <3>1. channelIDMapping'[<<c, s>>] = m
        BY <1>1, <2>2 DEF MapTo, EpgInv, TypeOK
      <3>2. m \in PlaylistIDs /\ addedChannels[m] # Absent /\ Named(c, s, m)
        BY <1>8, <3>1 DEF EpgInv, TypeOK, Bookkeeping, MappedByName
      <3>3. addedChannels'[m] = addedChannels[m]
        BY <1>5, <1>6, <3>2
      <3>4. QED
        BY <3>1, <3>2, <3>3 DEF Named
    <2>3. QED
      BY <2>1, <2>2
  <1>9. MappedByName'
    BY <1>8 DEF MappedByName
  <1>10. Bookkeeping'
    <2>1. ASSUME NEW i \in PlaylistIDs
          PROVE  addedChannels'[i] # Absent <=> \E j \in Of("channel")' : out'[j].id = i
      BY <1>2, <1>3, <1>4, <1>6, <1>7 DEF EpgInv, Bookkeeping
    <2>2. \A x \in IDs \X Sources : channelIDMapping'[x] # Absent =>
                                       addedChannels'[channelIDMapping'[x]] # Absent
      BY <1>8
    <2>3. \A j \in Of("programme")' : Key(out'[j], out'[j].id) \in addedProgrammes'
      BY <1>1, <1>3, <1>4 DEF EpgInv, Bookkeeping, Key
    <2>4. QED
      BY <2>1, <2>2, <2>3 DEF Bookkeeping, Key
  <1>11. WellFormed'
    <2>1. \A i, j \in Of("channel")' : out'[i].id = out'[j].id => i = j
      BY <1>3, <1>4, <1>5 DEF EpgInv, WellFormed
    <2>2. \A i, j \in Of("programme")' :
             Key(out'[i], out'[i].id) = Key(out'[j], out'[j].id) => i = j
      BY <1>3, <1>4 DEF EpgInv, WellFormed, Key
    <2>3. \A j \in Of("programme")' :
             \E i \in Of("channel")' : i < j /\ out'[i].id = out'[j].id
      BY <1>3, <1>4 DEF EpgInv, WellFormed
    <2>4. QED
      BY <2>1, <2>2, <2>3 DEF WellFormed, Key
  <1>12. ChannelsNotMixed'
    <2>1. ASSUME NEW j \in Of("programme")
          PROVE  /\ out'[j] = out[j]
                 /\ addedChannels'[out[j].id] = addedChannels[out[j].id]
      <3>1. out'[j] = out[j]
        BY <1>4
      <3>2. out[j].id # id
        BY <1>5 DEF EpgInv, WellFormed
      <3>3. out[j].id \in PlaylistIDs
        BY <1>3, ElementOfSeq DEF EpgInv, TypeOK, Written
      <3>4. QED
        BY <1>6, <3>1, <3>2, <3>3
    <2>2. QED
      BY <1>3, <2>1 DEF EpgInv, ChannelsNotMixed
  <1>13. QED
    BY <1>9, <1>10, <1>11, <1>12

\* A programme is written under a mapped id and once.
LEMMA ProgrammeStep ==
  ASSUME EpgInv, feed' = feed,
         NEW d \in Sources, NEW p \in Programme, processProgramme(p, d),
         ~UNCHANGED outputVars
  PROVE  Bookkeeping' /\ MappedByName' /\ WellFormed' /\ ChannelsNotMixed'
  <1> DEFINE id == channelIDMapping[<<p.channel, d>>]
             e == [kind |-> "programme", id |-> id, src |-> d,
                   from |-> p.channel, start |-> p.start, pid |-> p.pid]
             n == Len(out) + 1
  <1>1. /\ id # Absent /\ Key(p, id) \notin addedProgrammes
        /\ addedProgrammes' = addedProgrammes \cup {Key(p, id)}
        /\ out' = Append(out, e) /\ UNCHANGED <<channelIDMapping, addedChannels>>
    BY DEF processProgramme
  <1>2. p.channel \in IDs /\ id \in PlaylistIDs /\ e \in Written
    BY <1>1 DEF EpgInv, TypeOK, Programme, Written
  <1>3. /\ Len(out) \in Nat /\ \A k : Of(k) \subseteq 1 .. Len(out)
        /\ Of("channel")' = Of("channel")
        /\ Of("programme")' = Of("programme") \cup {n}
        /\ \A i \in 1 .. Len(out) : out'[i] = out[i]
        /\ out'[n] = e
    <2>1. e.kind = "programme" /\ out \in Seq(Written)
      BY DEF EpgInv, TypeOK
    <2>2. QED
      BY <1>1, <1>2, <2>1, OneMoreEntry
  <1>4. \A k, i : i \in Of(k) => out'[i] = out[i] /\ i < n
    BY <1>3
  <1>5. e.id = id /\ e.src = d /\ e.from = p.channel /\ Key(e, e.id) = Key(p, id)
    BY DEF Key
  <1>6. addedChannels[id] # Absent /\ Named(p.channel, d, id)
    BY <1>1, <1>2 DEF EpgInv, Bookkeeping, MappedByName
  <1>7. PICK w \in Of("channel") : out[w].id = id
    BY <1>2, <1>6 DEF EpgInv, Bookkeeping
  <1>8. \A i \in Of("programme") : Key(out[i], out[i].id) # Key(e, e.id)
    BY <1>1, <1>5 DEF EpgInv, Bookkeeping
  <1>9. Bookkeeping'
    <2>1. ASSUME NEW i \in PlaylistIDs
          PROVE  addedChannels'[i] # Absent <=> \E j \in Of("channel")' : out'[j].id = i
      BY <1>1, <1>3, <1>4 DEF EpgInv, Bookkeeping
    <2>2. \A x \in IDs \X Sources : channelIDMapping'[x] # Absent =>
                                       addedChannels'[channelIDMapping'[x]] # Absent
      BY <1>1 DEF EpgInv, Bookkeeping
    <2>3. \A j \in Of("programme")' : Key(out'[j], out'[j].id) \in addedProgrammes'
      BY <1>1, <1>3, <1>4, <1>5 DEF EpgInv, Bookkeeping
    <2>4. QED
      BY <2>1, <2>2, <2>3 DEF Bookkeeping, Key
  <1>10. MappedByName'
    <2>1. ASSUME NEW c \in IDs, NEW s \in Sources, channelIDMapping[<<c, s>>] # Absent
          PROVE  Named(c, s, channelIDMapping[<<c, s>>])'
      <3>1. Named(c, s, channelIDMapping[<<c, s>>])
        BY <2>1 DEF EpgInv, MappedByName
      <3>2. QED
        BY <1>1, <3>1 DEF Named
    <2>2. QED
      BY <1>1, <2>1 DEF MappedByName
  <1>11. WellFormed'
    <2>1. \A i, j \in Of("channel")' : out'[i].id = out'[j].id => i = j
      BY <1>3, <1>4 DEF EpgInv, WellFormed
    <2>2. \A i, j \in Of("programme")' :
             Key(out'[i], out'[i].id) = Key(out'[j], out'[j].id) => i = j
      BY <1>3, <1>4, <1>8 DEF EpgInv, WellFormed
    <2>3. \A j \in Of("programme")' :
             \E i \in Of("channel")' : i < j /\ out'[i].id = out'[j].id
      BY <1>3, <1>4, <1>5, <1>7 DEF EpgInv, WellFormed
    <2>4. QED
      BY <2>1, <2>2, <2>3 DEF WellFormed, Key
  <1>12. ChannelsNotMixed'
    <2>1. ChannelsNotMixed <=>
             \A j \in Of("programme") : Named(out[j].from, out[j].src, out[j].id)
      BY DEF ChannelsNotMixed, Named
    <2>2. \A j \in Of("programme")' : Named(out'[j].from, out'[j].src, out'[j].id)
      BY <1>3, <1>4, <1>5, <1>6, <2>1 DEF EpgInv
    <2>3. QED
      BY <1>1, <2>2 DEF ChannelsNotMixed, Named
  <1>13. QED
    BY <1>9, <1>10, <1>11, <1>12

\* A step that writes nothing.
LEMMA OutputUnchanged ==
  ASSUME EpgInv, feed' = feed, UNCHANGED outputVars
  PROVE  Bookkeeping' /\ MappedByName' /\ WellFormed' /\ ChannelsNotMixed'
  <1>1. \A k : Of(k)' = Of(k)
    BY DEF Of, outputVars
  <1>2. QED
    BY <1>1 DEF EpgInv, outputVars, Bookkeeping, MappedByName, Named, WellFormed,
       ChannelsNotMixed

-----------------------------------------------------------------------------
\* Before anything is read the invariant holds.
LEMMA EpgInit ==
  ASSUME Init
  PROVE  EpgInv /\ DecoderExclusive
  <1> USE DEF Init, DecoderInit
  <1>1. feed \in [Sources -> Seq(Items)]
    BY FeedsAssumption
  <1>2. /\ <<>> \in Seq(Items) /\ \A s : <<>> \in Seq(RangeOf(feed[s]))
        /\ Len(<<>>) = 0 /\ <<>> \in Seq(Written) /\ DOMAIN <<>> = {}
        /\ \A s \in Sources : Len(feed[s]) \in Nat
    BY <1>1, EmptySeq, LenProperties
  <1>3. DecoderInv
    BY <1>1, <1>2 DEF DecoderInv, DecoderTypeOK, BatchHasRoom, ReadAhead
  <1>4. TypeOK
    <2>1. channelIDMapping \in [IDs \X Sources -> PlaylistIDs \cup {Absent}]
      OBVIOUS
    <2>2. addedChannels \in [PlaylistIDs -> {Absent} \cup SUBSET Names]
      <3>1. Absent \in {Absent} \cup SUBSET Names
        BY Zenon
      <3>2. QED
        BY <3>1
    <2>3. out \in Seq(Written) /\ addedProgrammes \subseteq PlaylistIDs \X Nat \X Nat
      BY <1>2
    <2>4. DecoderTypeOK /\ idx \in 1 .. NumSources + 1
      BY <1>3 DEF DecoderInv
    <2>5. QED
      BY <2>1, <2>2, <2>3, <2>4 DEF TypeOK
  <1>5. \A k : Of(k) = {}
    BY <1>2 DEF Of
  <1>6. Bookkeeping /\ MappedByName /\ WellFormed /\ ChannelsNotMixed
    BY <1>5 DEF Bookkeeping, MappedByName, WellFormed, ChannelsNotMixed
  <1>7. QED
    BY <1>3, <1>4, <1>6 DEF EpgInv, DecoderExclusive, Processing

\* Every step keeps it.
LEMMA EpgStep ==
  ASSUME EpgInv, [Next]_vars
  PROVE  EpgInv'
  <1>1. TypeOK' /\ DecoderInv'
    BY EpgTypeStep, DecoderStep DEF EpgInv
  <1>2. Bookkeeping' /\ MappedByName' /\ WellFormed' /\ ChannelsNotMixed'
    BY OutputCases, OutputUnchanged, KnownChannelStep, NewChannelStep, ProgrammeStep
    DEF EpgInv
  <1>3. QED
    BY <1>1, <1>2 DEF EpgInv

\* The invariant that all of these rest on.
THEOREM EpgInvariant == Spec => []EpgInv
  <1>1. Init => EpgInv
    BY EpgInit
  <1>2. EpgInv /\ [Next]_vars => EpgInv'
    BY EpgStep
  <1>3. QED
    BY <1>1, <1>2, PTL DEF Spec

\* The state of WriteTo and of its decoders keeps its types; a goroutine never
\* reads more ahead at once than bufferBatchSize.
THEOREM EpgTypeCorrect == Spec => []TypeOK
  <1>1. EpgInv => TypeOK
    BY DEF EpgInv
  <1>2. QED
    BY <1>1, EpgInvariant, PTL

\* WriteTo and the goroutines it starts never use a decoder at the same time,
\* however many sources there are and wherever they are stopped.
THEOREM EpgDecodersExclusive == Spec => []DecoderExclusive
  <1>1. Init => DecoderExclusive
    BY EpgInit
  <1>2. EpgInv /\ DecoderExclusive /\ [Next]_vars => DecoderExclusive'
    BY ExclusiveStep DEF EpgInv
  <1>3. QED
    BY <1>1, <1>2, EpgInvariant, PTL DEF Spec

\* The EPG of any sources has each channel and each programme of the playlist
\* once, a programme after its channel.
THEOREM EpgWellFormed == Spec => []WellFormed
  <1>1. EpgInv => WellFormed
    BY DEF EpgInv
  <1>2. QED
    BY <1>1, EpgInvariant, PTL

\* Sources are merged into a channel by a display name that they share with what
\* was written, whatever their ids.
THEOREM EpgChannelsNotMixed == Spec => []ChannelsNotMixed
  <1>1. EpgInv => ChannelsNotMixed
    BY DEF EpgInv
  <1>2. QED
    BY <1>1, EpgInvariant, PTL

-----------------------------------------------------------------------------
(***************************************************************************)
(* A completed EPG lacks nothing: whatever the goroutines read ahead, and  *)
(* in whichever order it reached the buffers, every channel ahead of a     *)
(* source's programmes and every programme is seen by its handler.         *)
(***************************************************************************)

\* The handlers have done with a channel, or with a programme.
HandledChannel(x, d) ==
    \A id \in PlaylistIDs : Target(x, id) =>
        /\ addedChannels[id] # Absent
        /\ channelNamesMatch(x, id) => channelIDMapping[<<x.id, d>>] # Absent

HandledProgramme(p, d) ==
    LET id == channelIDMapping[<<p.channel, d>>] IN
    id # Absent => Key(p, id) \in addedProgrammes

\* A buffer's elements up to its first programme.
Ahead(x, s) == \E n \in DOMAIN s : s[n] = x /\ \A k \in 1 .. n : s[k].kind # "programme"
NoProgramme(s) == \A n \in DOMAIN s : s[n].kind # "programme"

\* Element i of source d will be met by the consumer, ahead of any programme ...
ChannelPending(d, i) ==
    \/ Ahead(feed[d][i], itemBuffer[d])
    \/ NoProgramme(itemBuffer[d]) /\ Ahead(feed[d][i], batch[d])
    \/ NoProgramme(itemBuffer[d]) /\ NoProgramme(batch[d]) /\ pos[d] < i

\* ... or at all.
ProgrammePending(d, i) ==
    feed[d][i] \in RangeOf(itemBuffer[d]) \/ feed[d][i] \in RangeOf(batch[d]) \/ pos[d] < i

ChannelsOf(d)   == {i \in Leading(d) : feed[d][i].kind = "channel"}
ProgrammesOf(d) == {i \in DOMAIN feed[d] : feed[d][i].kind = "programme"}

\* A goroutine that has returned has left nothing in its batch, and met the end
\* only at the end.
Drained ==
    \A d \in Sources : /\ buffering[d] = "none" => batch[d] = <<>>
                       /\ err[d] = "eof" => pos[d] = Len(feed[d])

\* addedProgrammes holds nothing that was not written.
Recorded ==
    \A k \in addedProgrammes : \E j \in Of("programme") : Key(out[j], out[j].id) = k

\* No channel is passed over, and no decoder is left before its channels end.
Visited(d) == phase \in {"programmes", "finish"} \/ (phase = "channels" /\ d < idx)
ChannelsKept ==
    \A d \in Sources : \A i \in ChannelsOf(d) :
        /\ phase \in {"start", "channels"} =>
               HandledChannel(feed[d][i], d) \/ ChannelPending(d, i)
        /\ Visited(d) \/ result = "ok" => HandledChannel(feed[d][i], d)

\* No programme is dropped, and none is handled before the channels are mapped.
Read(d) == phase = "finish" \/ (phase = "programmes" /\ d < idx)
ProgrammesKept ==
    \A d \in Sources : \A i \in ProgrammesOf(d) :
        /\ \/ ProgrammePending(d, i)
           \/ phase \notin {"start", "channels"} /\ HandledProgramme(feed[d][i], d)
        /\ Read(d) \/ result = "ok" => HandledProgramme(feed[d][i], d)

Answered == result = "ok" => phase \in {"close", "returned"}

CompleteInv ==
    DecoderExclusive /\ Drained /\ Recorded /\ ChannelsKept /\ ProgrammesKept /\ Answered

-----------------------------------------------------------------------------
(* Buffers. *)

\* Nothing is in an empty buffer.
LEMMA EmptyBuffer ==
  ASSUME NEW x
  PROVE  RangeOf(<<>>) = {} /\ NoProgramme(<<>>) /\ ~Ahead(x, <<>>)
  BY DEF RangeOf, NoProgramme, Ahead

\* A buffer that is put before another one.
LEMMA JoinedBuffers ==
  ASSUME NEW S, NEW s \in Seq(S), NEW t \in Seq(S), NEW x
  PROVE  /\ x \in RangeOf(s) \/ x \in RangeOf(t) => x \in RangeOf(s \o t)
         /\ NoProgramme(s) /\ NoProgramme(t) => NoProgramme(s \o t)
         /\ Ahead(x, s) => Ahead(x, s \o t)
         /\ NoProgramme(s) /\ Ahead(x, t) => Ahead(x, s \o t)
  <1>1. /\ Len(s) \in Nat /\ Len(t) \in Nat
        /\ DOMAIN s = 1 .. Len(s) /\ DOMAIN t = 1 .. Len(t)
        /\ DOMAIN (s \o t) = 1 .. Len(s) + Len(t)
        /\ \A n \in 1 .. Len(s) + Len(t) :
              (s \o t)[n] = IF n <= Len(s) THEN s[n] ELSE t[n - Len(s)]
    BY ConcatProperties, LenProperties
  <1>2. \A n \in DOMAIN s : n \in DOMAIN (s \o t) /\ (s \o t)[n] = s[n]
    BY <1>1
  <1>3. ASSUME NEW n \in DOMAIN t
        PROVE  Len(s) + n \in DOMAIN (s \o t) /\ (s \o t)[Len(s) + n] = t[n]
    <2>1. n \in Nat /\ 1 <= n /\ n <= Len(t)
      BY <1>1
    <2>2. Len(s) + n \in 1 .. Len(s) + Len(t) /\ ~(Len(s) + n <= Len(s)) /\ Len(s) + n - Len(s) = n
      BY <1>1, <2>1
    <2>3. QED
      BY <1>1, <2>2
  <1>4. x \in RangeOf(s) \/ x \in RangeOf(t) => x \in RangeOf(s \o t)
    BY <1>2, <1>3 DEF RangeOf
  <1>5. NoProgramme(s) /\ NoProgramme(t) => NoProgramme(s \o t)
    BY <1>1 DEF NoProgramme
  <1>6. Ahead(x, s) => Ahead(x, s \o t)
    <2>1. \A n \in DOMAIN s : \A k \in 1 .. n : k \in DOMAIN s
      BY <1>1
    <2>2. QED
      BY <1>2, <2>1 DEF Ahead
  <1>7. ASSUME NoProgramme(s), Ahead(x, t)
        PROVE  Ahead(x, s \o t)
    <2>1. PICK n \in DOMAIN t : t[n] = x /\ \A k \in 1 .. n : t[k].kind # "programme"
      BY <1>7 DEF Ahead
    <2>2. ASSUME NEW k \in 1 .. Len(s) + n
          PROVE  (s \o t)[k].kind # "programme"
      <3>1. n \in Nat /\ 1 <= n /\ n <= Len(t)
        BY <1>1
      <3>2. CASE k <= Len(s)
        BY <1>1, <1>2, <1>7, <3>2 DEF NoProgramme
      <3>3. CASE ~(k <= Len(s))
        <4>1. k \in 1 .. Len(s) + Len(t) /\ k - Len(s) \in 1 .. n
          BY <1>1, <3>1, <3>3
        <4>2. (s \o t)[k] = t[k - Len(s)]
          BY <1>1, <3>3, <4>1
        <4>3. QED
          BY <2>1, <4>1, <4>2
      <3>4. QED
        BY <3>2, <3>3
    <2>3. QED
      BY <1>3, <2>1, <2>2 DEF Ahead
  <1>8. QED
    BY <1>4, <1>5, <1>6, <1>7

\* An element that is put behind.
LEMMA LongerBuffer ==
  ASSUME NEW S, NEW s \in Seq(S), NEW e \in S, NEW x
  PROVE  /\ x \in RangeOf(s) \/ x = e => x \in RangeOf(Append(s, e))
         /\ NoProgramme(s) /\ e.kind # "programme" =>
               NoProgramme(Append(s, e)) /\ Ahead(e, Append(s, e))
         /\ Ahead(x, s) => Ahead(x, Append(s, e))
  <1> DEFINE a == Append(s, e)
  <1>1. /\ DOMAIN s = 1 .. Len(s) /\ Len(s) \in Nat
        /\ DOMAIN a = 1 .. Len(s) + 1
        /\ \A i \in 1 .. Len(s) : a[i] = s[i]
        /\ a[Len(s) + 1] = e
    BY AppendEntry
  <1> HIDE DEF a
  <1>2. \A n : n \in 1 .. Len(s) + 1 <=> n \in 1 .. Len(s) \/ n = Len(s) + 1
    BY <1>1
  <1>3. \A n \in 1 .. Len(s) : 1 .. n \subseteq 1 .. Len(s)
    BY <1>1
  <1>4. x \in RangeOf(s) \/ x = e => x \in RangeOf(a)
    BY <1>1, <1>2 DEF RangeOf
  <1>5. NoProgramme(s) /\ e.kind # "programme" => NoProgramme(a) /\ Ahead(e, a)
    BY <1>1, <1>2 DEF NoProgramme, Ahead
  <1>6. Ahead(x, s) => Ahead(x, a)
    BY <1>1, <1>2, <1>3 DEF Ahead
  <1>7. QED
    BY <1>4, <1>5, <1>6 DEF a

\* An element that is taken from the front.
LEMMA ShorterBuffer ==
  ASSUME NEW S, NEW s \in Seq(S), s # <<>>, NEW x
  PROVE  /\ x \in RangeOf(s) => x = Head(s) \/ x \in RangeOf(Tail(s))
         /\ NoProgramme(s) => NoProgramme(Tail(s))
         /\ Ahead(x, s) => x = Head(s) \/ Ahead(x, Tail(s))
         /\ Head(s).kind = "programme" => ~NoProgramme(s) /\ ~Ahead(x, s)
  <1> DEFINE t == Tail(s)
             h == Head(s)
  <1>1. /\ Len(s) \in Nat /\ Len(s) >= 1 /\ DOMAIN s = 1 .. Len(s)
        /\ h = s[1]
        /\ DOMAIN t = 1 .. Len(s) - 1
        /\ \A i \in 1 .. Len(s) - 1 : t[i] = s[i + 1]
    <2>1. Len(s) \in Nat /\ DOMAIN s = 1 .. Len(s) /\ Len(s) # 0
      BY LenProperties, EmptySeq
    <2>2. /\ t \in Seq(S) /\ Len(t) = Len(s) - 1
          /\ \A i \in 1 .. Len(t) : t[i] = s[i + 1]
      BY HeadTailProperties
    <2>3. QED
      BY <2>1, <2>2, LenProperties
  <1> HIDE DEF t, h
  <1>2. \A n \in DOMAIN s : n = 1 \/ (n - 1 \in DOMAIN t /\ s[n] = t[n - 1])
    BY <1>1
  <1>3. x \in RangeOf(s) => x = h \/ x \in RangeOf(t)
    BY <1>1, <1>2 DEF RangeOf
  <1>4. NoProgramme(s) => NoProgramme(t)
    BY <1>1 DEF NoProgramme
  <1>5. ASSUME NEW n \in DOMAIN s, s[n] = x, n # 1, \A k \in 1 .. n : s[k].kind # "programme"
        PROVE  Ahead(x, t)
    <2>1. n - 1 \in DOMAIN t /\ t[n - 1] = x
      BY <1>2, <1>5
    <2>2. \A k \in 1 .. n - 1 : t[k] = s[k + 1] /\ k + 1 \in 1 .. n
      BY <1>1
    <2>3. QED
      BY <1>5, <2>1, <2>2 DEF Ahead
  <1>6. Ahead(x, s) => x = h \/ Ahead(x, t)
    BY <1>1, <1>5 DEF Ahead
  <1>7. h.kind = "programme" => ~NoProgramme(s) /\ ~Ahead(x, s)
    BY <1>1 DEF NoProgramme, Ahead
  <1>8. QED
    BY <1>3, <1>4, <1>6, <1>7 DEF t, h

-----------------------------------------------------------------------------
(* What is pending stays so until the consumer takes it. *)

\* The parser stays where it is, or passes over an element that it rejects.
Skips(d) ==
    pos'[d] = pos[d] \/ (Element(d).kind = "bad" /\ pos'[d] = pos[d] + 1)

PendingKept(d) ==
    /\ \A i \in ChannelsOf(d) : ChannelPending(d, i) => ChannelPending(d, i)'
    /\ \A i \in ProgrammesOf(d) : ProgrammePending(d, i) => ProgrammePending(d, i)'

\* Positions in a source, and what kinds mean.
LEMMA PositionTypes ==
  ASSUME DecoderTypeOK, NEW d \in Sources
  PROVE  /\ pos[d] \in Nat /\ Len(feed[d]) \in Nat /\ pos[d] <= Len(feed[d])
         /\ DOMAIN feed[d] = 1 .. Len(feed[d])
         /\ itemBuffer[d] \in Seq(Items) /\ batch[d] \in Seq(Items)
         /\ \A i \in ChannelsOf(d) \cup ProgrammesOf(d) :
               i \in Nat /\ i <= Len(feed[d]) /\ feed[d][i].kind # "bad"
         /\ \A i \in ChannelsOf(d) :
               /\ feed[d][i].kind = "channel"
               /\ \A k \in 1 .. i : feed[d][k].kind # "programme"
  <1>1. /\ pos[d] \in Nat /\ feed[d] \in Seq(Items) /\ pos[d] <= Len(feed[d])
        /\ itemBuffer[d] \in Seq(Items) /\ batch[d] \in Seq(Items)
    BY DEF DecoderTypeOK
  <1>2. Len(feed[d]) \in Nat /\ DOMAIN feed[d] = 1 .. Len(feed[d])
    BY <1>1, LenProperties
  <1>3. QED
    BY <1>1, <1>2 DEF ChannelsOf, ProgrammesOf, Leading

\* An element that the parser rejects is neither a channel nor a programme.
LEMMA SkipsNothing ==
  ASSUME DecoderTypeOK, NEW d \in Sources, Skips(d),
         NEW i \in ChannelsOf(d) \cup ProgrammesOf(d), pos[d] < i
  PROVE  pos'[d] < i
  <1>1. CASE pos'[d] = pos[d]
    BY <1>1
  <1>2. CASE Element(d).kind = "bad" /\ pos'[d] = pos[d] + 1
    <2>1. i # pos[d] + 1
      BY <1>2, PositionTypes DEF Element
    <2>2. QED
      BY <1>2, <2>1, PositionTypes
  <1>3. QED
    BY <1>1, <1>2 DEF Skips

\* Nothing is moved.
LEMMA PendingIfSame ==
  ASSUME DecoderTypeOK, feed' = feed, NEW d \in Sources, Skips(d),
         itemBuffer'[d] = itemBuffer[d], batch'[d] = batch[d]
  PROVE  PendingKept(d)
  <1>1. ASSUME NEW i \in ChannelsOf(d), ChannelPending(d, i)
        PROVE  ChannelPending(d, i)'
    <2>1. pos[d] < i => pos'[d] < i
      BY SkipsNothing
    <2>2. QED
      BY <1>1, <2>1 DEF ChannelPending
  <1>2. ASSUME NEW i \in ProgrammesOf(d), ProgrammePending(d, i)
        PROVE  ProgrammePending(d, i)'
    <2>1. pos[d] < i => pos'[d] < i
      BY SkipsNothing
    <2>2. QED
      BY <1>2, <2>1 DEF ProgrammePending
  <1>3. QED
    BY <1>1, <1>2 DEF PendingKept

\* The goroutine's batch goes behind the buffer, in order.
LEMMA PendingIfEnd ==
  ASSUME DecoderTypeOK, feed' = feed, NEW d \in Sources, Skips(d), End(d)
  PROVE  PendingKept(d)
  <1> DEFINE b == itemBuffer[d]
             t == batch[d]
  <1>1. itemBuffer'[d] = b \o t /\ batch'[d] = <<>>
    BY DEF End, Flush, DecoderTypeOK
  <1>2. b \in Seq(Items) /\ t \in Seq(Items)
    BY PositionTypes
  <1> HIDE DEF b, t
  <1>3. ASSUME NEW i \in ChannelsOf(d), ChannelPending(d, i)
        PROVE  ChannelPending(d, i)'
    <2> DEFINE x == feed[d][i]
    <2>1. pos[d] < i => pos'[d] < i
      BY SkipsNothing
    <2>2. /\ NoProgramme(b) /\ NoProgramme(t) => NoProgramme(b \o t)
          /\ Ahead(x, b) \/ (NoProgramme(b) /\ Ahead(x, t)) => Ahead(x, b \o t)
      BY <1>2, JoinedBuffers
    <2>3. NoProgramme(<<>>)
      BY EmptyBuffer
    <2>4. \/ Ahead(x, b)
          \/ NoProgramme(b) /\ Ahead(x, t)
          \/ NoProgramme(b) /\ NoProgramme(t) /\ pos[d] < i
      BY <1>3 DEF ChannelPending, b, t
    <2>5. \/ Ahead(x, itemBuffer'[d])
          \/ NoProgramme(itemBuffer'[d]) /\ NoProgramme(batch'[d]) /\ pos'[d] < i
      BY <1>1, <2>1, <2>2, <2>3, <2>4
    <2>6. QED
      BY <2>5 DEF ChannelPending
  <1>4. ASSUME NEW i \in ProgrammesOf(d), ProgrammePending(d, i)
        PROVE  ProgrammePending(d, i)'
    <2> DEFINE x == feed[d][i]
    <2>1. pos[d] < i => pos'[d] < i
      BY SkipsNothing
    <2>2. x \in RangeOf(b) \/ x \in RangeOf(t) => x \in RangeOf(b \o t)
      BY <1>2, JoinedBuffers
    <2>3. x \in RangeOf(b) \/ x \in RangeOf(t) \/ pos[d] < i
      BY <1>4 DEF ProgrammePending, b, t
    <2>4. x \in RangeOf(itemBuffer'[d]) \/ pos'[d] < i
      BY <1>1, <2>1, <2>2, <2>3
    <2>5. QED
      BY <2>4 DEF ProgrammePending
  <1>5. QED
    BY <1>3, <1>4 DEF PendingKept

\* The goroutine reads an element: the parser passes it, the batch holds it.
LEMMA PendingIfBuffered ==
  ASSUME DecoderTypeOK, NEW d \in Sources, BufferItem(d)
  PROVE  PendingKept(d)
  <1> DEFINE b == itemBuffer[d]
             t == batch[d]
             e == Element(d)
  <1>1. /\ feed' = feed /\ itemBuffer' = itemBuffer /\ batch'[d] = Append(t, e)
        /\ pos'[d] = pos[d] + 1 /\ AtElement(d)
    BY DEF BufferItem, Advance, DecoderTypeOK, Decodes
  <1>2. t \in Seq(Items) /\ e \in Items
    BY <1>1, PositionTypes, ElementInFeed
  <1>3. e = feed[d][pos[d] + 1]
    BY DEF Element
  <1> HIDE DEF b, t, e
  <1>4. ASSUME NEW i \in ChannelsOf(d), ChannelPending(d, i)
        PROVE  ChannelPending(d, i)'
    <2> DEFINE x == feed[d][i]
    <2>1. \/ Ahead(x, b)
          \/ NoProgramme(b) /\ Ahead(x, t)
          \/ NoProgramme(b) /\ NoProgramme(t) /\ pos[d] < i
      BY <1>4 DEF ChannelPending, b, t
    <2>2. Ahead(x, t) => Ahead(x, Append(t, e))
      BY <1>2, LongerBuffer
    <2>3. ASSUME NoProgramme(t), pos[d] < i
          PROVE  /\ NoProgramme(Append(t, e))
                 /\ Ahead(x, Append(t, e)) \/ pos[d] + 1 < i
      <3>1. pos[d] \in Nat /\ i \in Nat /\ \A k \in 1 .. i : feed[d][k].kind # "programme"
        BY PositionTypes
      <3>2. pos[d] + 1 \in 1 .. i /\ (pos[d] + 1 = i \/ pos[d] + 1 < i)
        BY <2>3, <3>1
      <3>3. e.kind # "programme"
        BY <1>3, <3>1, <3>2
      <3>4. NoProgramme(Append(t, e)) /\ Ahead(e, Append(t, e))
        BY <1>2, <2>3, <3>3, LongerBuffer
      <3>5. QED
        BY <1>3, <3>2, <3>4
    <2>4. \/ Ahead(x, itemBuffer'[d])
          \/ NoProgramme(itemBuffer'[d]) /\ Ahead(x, batch'[d])
          \/ NoProgramme(itemBuffer'[d]) /\ NoProgramme(batch'[d]) /\ pos'[d] < i
      BY <1>1, <2>1, <2>2, <2>3 DEF b
    <2>5. QED
      BY <1>1, <2>4 DEF ChannelPending
  <1>5. ASSUME NEW i \in ProgrammesOf(d), ProgrammePending(d, i)
        PROVE  ProgrammePending(d, i)'
    <2> DEFINE x == feed[d][i]
    <2>1. x \in RangeOf(t) \/ x = e => x \in RangeOf(Append(t, e))
      BY <1>2, LongerBuffer
    <2>2. pos[d] < i => x = e \/ pos[d] + 1 < i
      BY <1>3, PositionTypes
    <2>3. x \in RangeOf(b) \/ x \in RangeOf(t) \/ pos[d] < i
      BY <1>5 DEF ProgrammePending, b, t
    <2>4. x \in RangeOf(itemBuffer'[d]) \/ x \in RangeOf(batch'[d]) \/ pos'[d] < i
      BY <1>1, <2>1, <2>2, <2>3 DEF b
    <2>5. QED
      BY <1>1, <2>4 DEF ProgrammePending
  <1>6. QED
    BY <1>4, <1>5 DEF PendingKept

\* NextItem takes one element, from the buffer or from the parser.
LEMMA PendingIfTaken ==
  ASSUME DecoderTypeOK, feed' = feed, batch' = batch, NEW d \in Sources,
         batch[d] = <<>>, HasNext(d), Take(d)
  PROVE  /\ \A i \in ProgrammesOf(d) : ProgrammePending(d, i) =>
               ProgrammePending(d, i)' \/ feed[d][i] = NextItem(d)
         /\ NextItem(d).kind # "programme" =>
               \A i \in ChannelsOf(d) : ChannelPending(d, i) =>
                  ChannelPending(d, i)' \/ feed[d][i] = NextItem(d)
  <1> DEFINE b == itemBuffer[d]
  <1>1. CASE b # <<>>
    <2>1. itemBuffer'[d] = Tail(b) /\ pos' = pos /\ NextItem(d) = Head(b)
      BY <1>1 DEF Take, readerVars, NextItem, DecoderTypeOK
    <2>2. b \in Seq(Items)
      BY PositionTypes
    <2> HIDE DEF b
    <2>3. \A x : /\ x \in RangeOf(b) => x = Head(b) \/ x \in RangeOf(Tail(b))
                 /\ NoProgramme(b) => NoProgramme(Tail(b))
                 /\ Ahead(x, b) => x = Head(b) \/ Ahead(x, Tail(b))
      BY <1>1, <2>2, ShorterBuffer
    <2>4. ASSUME NEW i \in ProgrammesOf(d), ProgrammePending(d, i), feed[d][i] # Head(b)
          PROVE  ProgrammePending(d, i)'
      <3>1. feed[d][i] \in RangeOf(Tail(b)) \/ feed[d][i] \in RangeOf(batch[d]) \/ pos[d] < i
        BY <2>3, <2>4 DEF ProgrammePending, b
      <3>2. QED
        BY <2>1, <3>1 DEF ProgrammePending
    <2>5. ASSUME NEW i \in ChannelsOf(d), ChannelPending(d, i), feed[d][i] # Head(b)
          PROVE  ChannelPending(d, i)'
      <3>1. \/ Ahead(feed[d][i], Tail(b))
            \/ NoProgramme(Tail(b)) /\ Ahead(feed[d][i], batch[d])
            \/ NoProgramme(Tail(b)) /\ NoProgramme(batch[d]) /\ pos[d] < i
        BY <2>3, <2>5 DEF ChannelPending, b
      <3>2. QED
        BY <2>1, <3>1 DEF ChannelPending
    <2>6. QED
      BY <2>1, <2>4, <2>5
  <1>2. CASE b = <<>>
    <2>1. /\ itemBuffer'[d] = <<>> /\ pos'[d] = pos[d] + 1
          /\ NextItem(d) = feed[d][pos[d] + 1]
      BY <1>2 DEF Take, Advance, NextItem, Element, DecoderTypeOK
    <2>2. \A x : RangeOf(<<>>) = {} /\ NoProgramme(<<>>) /\ ~Ahead(x, <<>>)
      BY EmptyBuffer
    <2>3. \A i \in ChannelsOf(d) \cup ProgrammesOf(d) :
             pos[d] < i => i = pos[d] + 1 \/ pos'[d] < i
      BY <2>1, PositionTypes
    <2>4. ASSUME NEW i \in ProgrammesOf(d), ProgrammePending(d, i), feed[d][i] # NextItem(d)
          PROVE  ProgrammePending(d, i)'
      <3>1. pos[d] < i
        BY <1>2, <2>2, <2>4 DEF ProgrammePending
      <3>2. QED
        BY <2>1, <2>3, <2>4, <3>1 DEF ProgrammePending
    <2>5. ASSUME NEW i \in ChannelsOf(d), ChannelPending(d, i), feed[d][i] # NextItem(d)
          PROVE  ChannelPending(d, i)'
      <3>1. pos[d] < i
        BY <1>2, <2>2, <2>5 DEF ChannelPending
      <3>2. pos'[d] < i
        BY <2>1, <2>3, <2>5, <3>1
      <3>3. QED
        BY <2>1, <2>2, <3>2 DEF ChannelPending
    <2>6. QED
      BY <2>4, <2>5
  <1>3. QED
    BY <1>1, <1>2

\* A programme that is put back is still pending, and it was the first.
LEMMA PendingIfAdded ==
  ASSUME DecoderTypeOK, feed' = feed, batch' = batch, NEW d \in Sources,
         batch[d] = <<>>, HasNext(d), TakeAndAdd(d), NextItem(d).kind = "programme"
  PROVE  /\ \A i \in ProgrammesOf(d) : ProgrammePending(d, i) => ProgrammePending(d, i)'
         /\ \A i \in ChannelsOf(d) : ~ChannelPending(d, i)
  <1> DEFINE b == itemBuffer[d]
             e == NextItem(d)
  <1>1. CASE b # <<>>
    <2>1. itemBuffer'[d] = Append(Tail(b), Head(b)) /\ pos' = pos /\ e = Head(b)
      BY <1>1 DEF TakeAndAdd, readerVars, NextItem, DecoderTypeOK
    <2>2. b \in Seq(Items) /\ Tail(b) \in Seq(Items) /\ Head(b) \in Items
      BY <1>1, PositionTypes, HeadTailProperties
    <2> HIDE DEF b
    <2>3. \A x : x \in RangeOf(b) => x = Head(b) \/ x \in RangeOf(Tail(b))
      BY <1>1, <2>2, ShorterBuffer
    <2>4. \A x : x \in RangeOf(Tail(b)) \/ x = Head(b) =>
                    x \in RangeOf(Append(Tail(b), Head(b)))
      BY <2>2, LongerBuffer
    <2>5. ASSUME NEW i \in ProgrammesOf(d), ProgrammePending(d, i)
          PROVE  ProgrammePending(d, i)'
      <3>1. feed[d][i] \in RangeOf(b) \/ feed[d][i] \in RangeOf(batch[d]) \/ pos[d] < i
        BY <2>5 DEF ProgrammePending, b
      <3>2. feed[d][i] \in RangeOf(b) => feed[d][i] \in RangeOf(itemBuffer'[d])
        BY <2>1, <2>3, <2>4
      <3>3. QED
        BY <2>1, <3>1, <3>2 DEF ProgrammePending
    <2>6. \A x : ~NoProgramme(b) /\ ~Ahead(x, b)
      BY <1>1, <2>1, <2>2, ShorterBuffer
    <2>7. QED
      BY <2>5, <2>6 DEF ChannelPending, b
  <1>2. CASE b = <<>>
    <2>1. /\ itemBuffer'[d] = <<e>> /\ pos'[d] = pos[d] + 1
          /\ e = feed[d][pos[d] + 1]
      BY <1>2 DEF TakeAndAdd, Advance, NextItem, Element, DecoderTypeOK
    <2>2. \A x : RangeOf(<<>>) = {} /\ NoProgramme(<<>>) /\ ~Ahead(x, <<>>)
      BY EmptyBuffer
    <2>3. ASSUME NEW i \in ProgrammesOf(d), ProgrammePending(d, i)
          PROVE  ProgrammePending(d, i)'
      <3>1. pos[d] < i
        BY <1>2, <2>2, <2>3 DEF ProgrammePending
      <3>2. i = pos[d] + 1 \/ pos'[d] < i
        BY <2>1, <3>1, PositionTypes
      <3>3. e \in RangeOf(<<e>>)
        BY DEF RangeOf
      <3>4. QED
        BY <2>1, <3>2, <3>3 DEF ProgrammePending
    <2>4. ASSUME NEW i \in ChannelsOf(d), ChannelPending(d, i)
          PROVE  FALSE
      <3>1. pos[d] < i
        BY <1>2, <2>2, <2>4 DEF ChannelPending
      <3>2. pos[d] + 1 \in 1 .. i /\ \A k \in 1 .. i : feed[d][k].kind # "programme"
        BY <3>1, PositionTypes
      <3>3. QED
        BY <2>1, <3>2
    <2>5. QED
      BY <2>3, <2>4
  <1>3. QED
    BY <1>1, <1>2

\* Where the consumer meets the end nothing is pending.
LEMMA NonePending ==
  ASSUME DecoderTypeOK, Drained, NEW d \in Sources, buffering[d] = "none",
         NextError(d, "eof")
  PROVE  /\ \A i \in ProgrammesOf(d) : ~ProgrammePending(d, i)
         /\ \A i \in ChannelsOf(d) : ~ChannelPending(d, i)
         /\ pos' = pos
  <1>1. itemBuffer[d] = <<>> /\ batch[d] = <<>>
    BY DEF NextError, Drained
  <1>2. pos[d] = Len(feed[d]) /\ pos' = pos
    BY DEF NextError, DecodeError, Drained, readerVars
  <1>3. \A i \in ChannelsOf(d) \cup ProgrammesOf(d) : ~(pos[d] < i)
    BY <1>2, PositionTypes
  <1>4. \A x : RangeOf(<<>>) = {} /\ NoProgramme(<<>>) /\ ~Ahead(x, <<>>)
    BY EmptyBuffer
  <1>5. QED
    BY <1>1, <1>2, <1>3, <1>4 DEF ProgrammePending, ChannelPending

-----------------------------------------------------------------------------
(* What is handled stays so. *)

\* The first candidate in the playlist is one.
LEMMA OneTarget ==
  ASSUME NEW x \in Channel, NEW id, NEW id2, Target(x, id), Target(x, id2)
  PROVE  id = id2
  <1> DEFINE hashes == [i \in DOMAIN x.names |-> HashID[x.names[i]]]
  <1>1. x.id \in IDs /\ x.names \in Seq(Names)
    BY DEF Channel
  <1>2. /\ DOMAIN x.names = 1 .. Len(x.names) /\ Len(x.names) \in Nat
        /\ \A i \in DOMAIN x.names : x.names[i] \in Names
    BY <1>1, LenProperties, ElementOfSeq
  <1>3. hashes \in Seq(IDs)
    BY <1>2, PlaylistAssumption
  <1>4. <<x.id>> \in Seq(IDs)
    BY <1>1
  <1>5. candidateIDs(x) \in Seq(IDs)
    BY <1>3, <1>4, ConcatProperties DEF candidateIDs
  <1>6. \A i \in Wanted(x) : i \in Nat
    BY <1>5, LenProperties DEF Wanted
  <1>7. \A i, j \in Wanted(x) : i <= j /\ j <= i => i = j
    BY <1>6
  <1>8. QED
    BY <1>7 DEF Target

\* processChannel handles its channel.
LEMMA ChannelHandled ==
  ASSUME TypeOK, NEW d \in Sources, NEW x \in Channel, processChannel(x, d)
  PROVE  HandledChannel(x, d)'
  <1>1. CASE Wanted(x) = {}
    BY <1>1 DEF HandledChannel, Target
  <1>2. ASSUME NEW id \in PlaylistIDs, Target(x, id),
               \/ addedChannels[id] # Absent /\ KnownChannel(x, d, id)
               \/ addedChannels[id] = Absent /\ NewChannel(x, d, id)
        PROVE  HandledChannel(x, d)'
    <2>1. id # Absent /\ x.id \in IDs
      BY PlaylistAssumption, AbsentAssumption DEF Channel
    <2>2. MapTo(x, d, id) => channelIDMapping'[<<x.id, d>>] # Absent
      BY <2>1 DEF MapTo, TypeOK
    <2>3. CASE addedChannels[id] # Absent /\ KnownChannel(x, d, id)
      <3>1. addedChannels' = addedChannels
        BY <2>3 DEF KnownChannel
      <3>2. channelNamesMatch(x, id)' => channelNamesMatch(x, id)
        BY <3>1 DEF channelNamesMatch
      <3>3. channelNamesMatch(x, id)' => MapTo(x, d, id)
        BY <2>3, <3>2 DEF KnownChannel
      <3>4. QED
        BY <1>2, <2>2, <2>3, <3>1, <3>3, OneTarget DEF HandledChannel
    <2>4. CASE addedChannels[id] = Absent /\ NewChannel(x, d, id)
      <3>1. addedChannels'[id] = RangeOf(x.names)
        BY <2>4 DEF NewChannel, TypeOK
      <3>2. RangeOf(x.names) # Absent
        <4>1. x.names \in Seq(Names)
          BY DEF Channel
        <4>2. \A i \in DOMAIN x.names : x.names[i] \in Names
          BY <4>1, LenProperties, ElementOfSeq
        <4>3. QED
          BY <4>2, AbsentAssumption DEF RangeOf
      <3>3. MapTo(x, d, id)
        BY <2>4 DEF NewChannel
      <3>4. QED
        BY <1>2, <2>2, <3>1, <3>2, <3>3, OneTarget DEF HandledChannel
    <2>5. QED
      BY <1>2, <2>3, <2>4
  <1>3. QED
    BY <1>1, <1>2 DEF processChannel

\* Every step keeps the channels that are written, and what is mapped is mapped
\* to an id, even if to another one.
LEMMA ChannelStaysHandled ==
  ASSUME TypeOK, DecoderInv, [Next]_vars, NEW d \in Sources, NEW x \in Channel,
         HandledChannel(x, d)
  PROVE  HandledChannel(x, d)'
  <1>1. CASE UNCHANGED <<channelIDMapping, addedChannels>>
    BY <1>1 DEF HandledChannel, channelNamesMatch
  <1>2. ASSUME NEW s \in Sources, NEW ch \in Channel, NEW id \in PlaylistIDs,
               \/ addedChannels[id] # Absent /\ KnownChannel(ch, s, id)
               \/ addedChannels[id] = Absent /\ NewChannel(ch, s, id)
        PROVE  HandledChannel(x, d)'
    <2>1. id # Absent /\ x.id \in IDs
      BY PlaylistAssumption, AbsentAssumption DEF Channel
    <2>2. channelIDMapping[<<x.id, d>>] # Absent => channelIDMapping'[<<x.id, d>>] # Absent
      <3>1. UNCHANGED channelIDMapping \/ MapTo(ch, s, id)
        BY <1>2 DEF KnownChannel, NewChannel
      <3>2. QED
        BY <2>1, <3>1 DEF MapTo, TypeOK
    <2>3. \A i \in PlaylistIDs : addedChannels[i] # Absent =>
                                    addedChannels'[i] = addedChannels[i]
      BY <1>2 DEF KnownChannel, NewChannel, TypeOK
    <2>4. QED
      BY <2>2, <2>3 DEF HandledChannel, channelNamesMatch
  <1>3. QED
    BY <1>1, <1>2, OutputCases DEF processProgramme, outputVars

\* processProgramme handles its programme.
LEMMA ProgrammeHandled ==
  ASSUME NEW d \in Sources, NEW x \in Programme, processProgramme(x, d)
  PROVE  HandledProgramme(x, d)'
  BY DEF processProgramme, HandledProgramme, outputVars

\* Past the channels the mapping stands, and programmes are only added.
LEMMA ProgrammeStaysHandled ==
  ASSUME TypeOK, DecoderInv, [Next]_vars, phase \notin {"start", "channels"},
         NEW d \in Sources, NEW x \in Programme, HandledProgramme(x, d)
  PROVE  /\ HandledProgramme(x, d)'
         /\ phase' \notin {"start", "channels"}
  <1>1. /\ channelIDMapping' = channelIDMapping
        /\ addedProgrammes \subseteq addedProgrammes'
    <2>1. CASE ReadProgramme
      BY <2>1 DEF ReadProgramme, processProgramme, outputVars
    <2>2. CASE WriteTo /\ ~ReadProgramme
      BY <2>2 DEF WriteTo, StartDecoder, StartFails, StartDone, StopBuffer, ReadChannel,
         StopBufferReturns, MeetProgramme, SkipItem, ChannelsEnd, ProgrammesEnd,
         ReadFails, Finish, Close, Reads, Reading, outputVars
    <2>3. ASSUME NEW s \in Sources, Goroutine(s)
          PROVE  UNCHANGED outputVars
      BY <2>3 DEF Goroutine
    <2>4. CASE ClientGone \/ UNCHANGED vars
      BY <2>4 DEF ClientGone, vars, outputVars
    <2>5. QED
      BY <2>1, <2>2, <2>3, <2>4 DEF Next, Terminating, outputVars
  <1>2. HandledProgramme(x, d)'
    BY <1>1 DEF HandledProgramme
  <1>3. phase' \notin {"start", "channels"}
    <2>1. CASE WriteTo
      BY <2>1 DEF WriteTo, StartDecoder, StartFails, StartDone, StopBuffer, ReadChannel,
         StopBufferReturns, MeetProgramme, ReadProgramme, SkipItem, ChannelsEnd,
         ProgrammesEnd, ReadFails, Finish, Close, Reads, Reading, NextDecoder,
         consumerVars
    <2>2. ASSUME NEW s \in Sources, Goroutine(s)
          PROVE  UNCHANGED phase
      BY <2>2 DEF Goroutine, consumerVars
    <2>3. CASE ClientGone \/ UNCHANGED vars
      BY <2>3 DEF ClientGone, vars, consumerVars
    <2>4. QED
      BY <2>1, <2>2, <2>3 DEF Next, Terminating
  <1>4. QED
    BY <1>2, <1>3

-----------------------------------------------------------------------------
(* The steps. *)

\* Every step leaves no batch behind, and the end stays the end.
LEMMA DrainedStep ==
  ASSUME TypeOK, DecoderInv, Drained, [Next]_vars
  PROVE  Drained'
  <1> USE DEF DecoderInv, DecoderTypeOK, Drained, decoderVars, readerVars
  <1>1. CASE UNCHANGED decoderVars
    BY <1>1
  <1>2. CASE StartDecoder \/ StartFails \/ StopBuffer \/ Close
    BY <1>2 DEF StartDecoder, StartFails, StopBuffer, Close, StartBuffering,
       cancelBuffer, TypeOK
  <1>3. CASE ReadChannel \/ ReadProgramme \/ SkipItem \/ MeetProgramme
    <2>1. /\ idx \in Sources /\ HasNext(idx) /\ UNCHANGED <<feed, batch, err>>
          /\ UNCHANGED buffering \/ buffering' = [buffering EXCEPT ![idx] = "select"]
          /\ Take(idx) \/ TakeAndAdd(idx)
      BY <1>3 DEF TypeOK, ReadChannel, ReadProgramme, SkipItem, MeetProgramme,
         Reads, Reading
    <2>2. UNCHANGED pos \/ (err[idx] # "eof" /\ Advance(idx))
      BY <2>1 DEF Take, TakeAndAdd, HasNext
    <2>3. QED
      BY <2>1, <2>2 DEF Advance
  <1>4. CASE ChannelsEnd \/ ProgrammesEnd \/ (ReadFails /\ ~gone)
    <2>1. /\ idx \in Sources /\ (\E e : NextError(idx, e)) /\ UNCHANGED <<feed, batch, err>>
          /\ UNCHANGED buffering \/ buffering' = [buffering EXCEPT ![idx] = "select"]
      BY <1>4 DEF TypeOK, ChannelsEnd, ProgrammesEnd, ReadFails, Reading, Processing
    <2>2. UNCHANGED pos \/ (err[idx] # "eof" /\ Advance(idx))
      BY <2>1 DEF NextError, DecodeError
    <2>3. QED
      BY <2>1, <2>2 DEF Advance
  <1>5. CASE ReadFails /\ gone
    BY <1>5 DEF ReadFails
  <1>6. ASSUME NEW d \in Sources, Tick(d)
        PROVE  Drained'
    BY <1>6 DEF Tick
  <1>7. ASSUME NEW d \in Sources, BufferItem(d)
        PROVE  Drained'
    <2>1. \A s \in Sources : s # d => pos'[s] = pos[s] /\ batch'[s] = batch[s]
                                      /\ buffering'[s] = buffering[s]
      BY <1>7 DEF BufferItem, Advance
    <2>2. buffering'[d] # "none" /\ UNCHANGED <<feed, err>> /\ pos[d] # Len(feed[d])
      BY <1>7 DEF BufferItem, Decodes, AtElement
    <2>3. QED
      BY <2>1, <2>2
  <1>8. ASSUME NEW d \in Sources, BufferError(d) \/ BufferStops(d, gone)
        PROVE  Drained'
    <2>1. /\ batch' = [batch EXCEPT ![d] = <<>>] /\ feed' = feed
          /\ buffering' = [buffering EXCEPT ![d] = "none"]
      BY <1>8 DEF BufferError, BufferStops, End, Flush
    <2>2. \A s \in Sources : s # d => pos'[s] = pos[s] /\ err'[s] = err[s]
      BY <1>8 DEF BufferError, BufferStops, DecodeError, Advance
    <2>3. err'[d] = "eof" => pos'[d] = Len(feed[d])
      <3>1. CASE BufferStops(d, gone)
        BY <3>1 DEF BufferStops
      <3>2. CASE BufferError(d)
        BY <3>2 DEF BufferError, DecodeError
      <3>3. QED
        BY <1>8, <3>1, <3>2
    <2>4. QED
      BY <2>1, <2>2, <2>3
  <1>9. QED
    BY <1>1, <1>2, <1>3, <1>4, <1>5, <1>6, <1>7, <1>8
    DEF Next, WriteTo, Goroutine, ClientGone, Terminating, StartDone,
        StopBufferReturns, Finish, vars

\* addedProgrammes gets a key when its programme is written.
LEMMA RecordedStep ==
  ASSUME TypeOK, DecoderInv, Recorded, [Next]_vars
  PROVE  Recorded'
  <1>1. CASE UNCHANGED <<addedProgrammes, out>>
    BY <1>1 DEF Recorded, Of
  <1>2. ASSUME NEW e \in Written, out' = Append(out, e),
               \A k \in addedProgrammes' : k \in addedProgrammes
                                           \/ (e.kind = "programme" /\ k = Key(e, e.id))
        PROVE  Recorded'
    <2>1. /\ Len(out) \in Nat /\ \A k : Of(k) \subseteq 1 .. Len(out)
          /\ Of("programme") \subseteq Of("programme")'
          /\ e.kind = "programme" => Len(out) + 1 \in Of("programme")'
          /\ \A i \in 1 .. Len(out) : out'[i] = out[i]
          /\ out'[Len(out) + 1] = e
      BY <1>2, OneMoreEntry DEF TypeOK
    <2>2. ASSUME NEW k \in addedProgrammes
          PROVE  \E j \in Of("programme")' : Key(out'[j], out'[j].id) = k
      <3>1. PICK j \in Of("programme") : Key(out[j], out[j].id) = k
        BY <2>2 DEF Recorded
      <3>2. j \in Of("programme")' /\ out'[j] = out[j]
        BY <2>1
      <3>3. QED
        BY <3>1, <3>2
    <2>3. QED
      BY <1>2, <2>1, <2>2 DEF Recorded, Key
  <1>3. ASSUME NEW d \in Sources, NEW ch, NEW id \in PlaylistIDs, NewChannel(ch, d, id)
        PROVE  Recorded'
    <2> DEFINE e == [kind |-> "channel", id |-> id, src |-> d]
    <2>1. e \in Written /\ out' = Append(out, e) /\ addedProgrammes' = addedProgrammes
      BY <1>3 DEF NewChannel, Written
    <2>2. QED
      BY <1>2, <2>1
  <1>4. ASSUME NEW d \in Sources, NEW p \in Programme, processProgramme(p, d),
               ~UNCHANGED outputVars
        PROVE  Recorded'
    <2> DEFINE id == channelIDMapping[<<p.channel, d>>]
               e == [kind |-> "programme", id |-> id, src |-> d,
                     from |-> p.channel, start |-> p.start, pid |-> p.pid]
    <2>1. /\ out' = Append(out, e) /\ addedProgrammes' = addedProgrammes \cup {Key(p, id)}
          /\ id # Absent
      BY <1>4 DEF processProgramme
    <2>2. e \in Written
      BY <2>1 DEF TypeOK, Programme, Written
    <2>3. e.kind = "programme" /\ Key(e, e.id) = Key(p, id)
      BY DEF Key
    <2>4. QED
      BY <1>2, <2>1, <2>2, <2>3
  <1>5. QED
    BY <1>1, <1>3, <1>4, OutputCases DEF KnownChannel, outputVars

\* A step that takes nothing from decoder d keeps what is pending there.
LEMMA PendingStep ==
  ASSUME TypeOK, DecoderInv, [Next]_vars, NEW d \in Sources,
         idx = d => ~(ReadChannel \/ ReadProgramme \/ SkipItem \/ MeetProgramme)
  PROVE  PendingKept(d)
  <1> USE DEF DecoderInv, decoderVars, readerVars
  <1>1. CASE UNCHANGED <<feed, pos, itemBuffer, batch>>
    BY <1>1, PendingIfSame DEF Skips
  <1>2. CASE ReadChannel \/ ReadProgramme \/ SkipItem \/ MeetProgramme
    <2>1. /\ idx # d /\ idx \in Sources /\ UNCHANGED <<feed, batch>>
          /\ Take(idx) \/ TakeAndAdd(idx)
      BY <1>2 DEF TypeOK, ReadChannel, ReadProgramme, SkipItem, MeetProgramme,
         Reads, Reading
    <2>2. itemBuffer'[d] = itemBuffer[d] /\ pos'[d] = pos[d]
      BY <2>1 DEF Take, TakeAndAdd, Advance, DecoderTypeOK
    <2>3. QED
      BY <2>1, <2>2, PendingIfSame DEF Skips
  <1>3. CASE ChannelsEnd \/ ProgrammesEnd \/ (ReadFails /\ ~gone)
    <2>1. /\ idx \in Sources /\ (\E e : NextError(idx, e))
          /\ UNCHANGED <<feed, itemBuffer, batch>>
      BY <1>3 DEF TypeOK, ChannelsEnd, ProgrammesEnd, ReadFails, Reading, Processing
    <2>2. Skips(d)
      BY <2>1 DEF NextError, DecodeError, Advance, Skips, DecoderTypeOK
    <2>3. QED
      BY <2>1, <2>2, PendingIfSame
  <1>4. ASSUME NEW s \in Sources, BufferItem(s)
        PROVE  PendingKept(d)
    <2>1. CASE s = d
      BY <1>4, <2>1, PendingIfBuffered
    <2>2. CASE s # d
      <3>1. /\ feed' = feed /\ itemBuffer' = itemBuffer
            /\ batch'[d] = batch[d] /\ pos'[d] = pos[d]
        BY <1>4, <2>2 DEF BufferItem, Advance, DecoderTypeOK
      <3>2. QED
        BY <3>1, PendingIfSame DEF Skips
    <2>3. QED
      BY <2>1, <2>2
  <1>5. ASSUME NEW s \in Sources, BufferError(s) \/ BufferStops(s, gone)
        PROVE  PendingKept(d)
    <2>1. feed' = feed /\ End(s)
      BY <1>5 DEF BufferError, BufferStops
    <2>2. Skips(d)
      <3>1. pos' = pos \/ \E e : DecodeError(s, e)
        BY <1>5 DEF BufferError, BufferStops
      <3>2. ASSUME NEW e, DecodeError(s, e)
            PROVE  Skips(d)
        <4>1. pos' = pos \/ (Element(s).kind = "bad" /\ pos' = [pos EXCEPT ![s] = pos[s] + 1])
          BY <3>2 DEF DecodeError, Advance
        <4>2. CASE s = d
          BY <4>1, <4>2 DEF Skips, DecoderTypeOK
        <4>3. CASE s # d
          BY <4>1, <4>3 DEF Skips, DecoderTypeOK
        <4>4. QED
          BY <4>2, <4>3
      <3>3. QED
        BY <3>1, <3>2 DEF Skips
    <2>3. CASE s = d
      BY <2>1, <2>2, <2>3, PendingIfEnd
    <2>4. CASE s # d
      <3>1. itemBuffer'[d] = itemBuffer[d] /\ batch'[d] = batch[d]
        BY <2>1, <2>4 DEF End, Flush, DecoderTypeOK
      <3>2. QED
        BY <2>1, <2>2, <3>1, PendingIfSame
    <2>5. QED
      BY <2>3, <2>4
  <1>6. ASSUME NEW s \in Sources, Tick(s)
        PROVE  PendingKept(d)
    BY <1>1, <1>6 DEF Tick
  <1>7. CASE WriteTo /\ ~(ReadChannel \/ ReadProgramme \/ SkipItem \/ MeetProgramme)
             /\ ~(ChannelsEnd \/ ProgrammesEnd \/ (ReadFails /\ ~gone))
    BY <1>1, <1>7 DEF WriteTo, StartDecoder, StartFails, StartDone, StopBuffer,
       StopBufferReturns, ReadFails, Finish, Close
  <1>8. CASE ClientGone \/ UNCHANGED vars
    BY <1>1, <1>8 DEF ClientGone, vars
  <1>9. QED
    BY <1>2, <1>3, <1>4, <1>5, <1>6, <1>7, <1>8 DEF Next, Goroutine, Terminating

\* The consumer has a decoder to itself while it takes something from it.
LEMMA TakesAlone ==
  ASSUME TypeOK, DecoderInv, DecoderExclusive, Drained,
         ReadChannel \/ ReadProgramme \/ SkipItem \/ MeetProgramme
  PROVE  /\ idx \in Sources /\ batch[idx] = <<>> /\ HasNext(idx)
         /\ feed' = feed /\ batch' = batch
         /\ NextItem(idx) \in Items
         /\ ~MeetProgramme => Take(idx) /\ phase' = phase
         /\ MeetProgramme =>
               TakeAndAdd(idx) /\ phase = "channels" /\ NextItem(idx).kind = "programme"
         /\ ReadChannel => phase = "channels" /\ processChannel(NextItem(idx), idx)
         /\ ReadProgramme => phase = "programmes" /\ processProgramme(NextItem(idx), idx)
         /\ NextItem(idx).kind = "channel" => ReadChannel \/ phase = "programmes"
         /\ NextItem(idx).kind = "programme" => ReadProgramme \/ MeetProgramme
         /\ phase = "channels" /\ ~MeetProgramme => NextItem(idx).kind # "programme"
  <1>1. /\ idx \in Sources /\ batch[idx] = <<>> /\ HasNext(idx)
    BY DEF TypeOK, DecoderExclusive, Drained, Processing, ReadChannel, ReadProgramme,
       SkipItem, MeetProgramme, Reads, Reading
  <1>2. feed' = feed /\ batch' = batch
    BY DEF ReadChannel, ReadProgramme, SkipItem, MeetProgramme
  <1>3. NextItem(idx) \in Items
    BY <1>1, NextItemInFeed
  <1>4. /\ ~MeetProgramme => Take(idx) /\ phase' = phase
        /\ MeetProgramme =>
              TakeAndAdd(idx) /\ phase = "channels" /\ NextItem(idx).kind = "programme"
        /\ ReadChannel => phase = "channels" /\ processChannel(NextItem(idx), idx)
        /\ ReadProgramme => phase = "programmes" /\ processProgramme(NextItem(idx), idx)
        /\ NextItem(idx).kind = "channel" => ReadChannel \/ phase = "programmes"
        /\ NextItem(idx).kind = "programme" => ReadProgramme \/ MeetProgramme
        /\ phase = "channels" /\ ~MeetProgramme => NextItem(idx).kind # "programme"
    BY DEF ReadChannel, ReadProgramme, SkipItem, MeetProgramme, Reads, Reading,
       consumerVars
  <1>5. QED
    BY <1>1, <1>2, <1>3, <1>4

\* How WriteTo leaves a decoder: with nothing pending there.
LEMMA VisitedStep ==
  ASSUME TypeOK, Answered, [Next]_vars, NEW d \in Sources,
         Visited(d)' \/ result' = "ok"
  PROVE  \/ Visited(d) \/ result = "ok"
         \/ idx = d /\ phase = "channels" /\ step = "read"
            /\ (MeetProgramme \/ (ChannelsEnd /\ NextError(d, "eof")))
  <1> USE DEF TypeOK, Visited, Answered, consumerVars, outputVars
  <1>1. CASE MeetProgramme \/ ChannelsEnd
    <2>1. /\ phase = "channels" /\ step = "read" /\ result' = result
          /\ ChannelsEnd => NextError(idx, "eof")
          /\ NextDecoder("channels", "programmes")
      BY <1>1 DEF MeetProgramme, ChannelsEnd, Reads, Reading
    <2>2. idx \in Nat /\ d \in Nat /\ idx <= NumSources /\ d <= NumSources
      BY <2>1, SourcesAssumption
    <2>3. d < idx \/ d = idx \/ result = "ok"
      BY <2>1, <2>2 DEF NextDecoder
    <2>4. QED
      BY <1>1, <2>1, <2>3
  <1>2. CASE StartDone
    BY <1>2, SourcesAssumption DEF StartDone
  <1>3. CASE ProgrammesEnd
    BY <1>3 DEF ProgrammesEnd, Reading
  <1>4. CASE StartDecoder \/ StartFails \/ StopBuffer \/ StopBufferReturns
    BY <1>4 DEF StartDecoder, StartFails, StopBuffer, StopBufferReturns
  <1>5. CASE ReadChannel \/ ReadProgramme \/ SkipItem
    BY <1>5 DEF ReadChannel, ReadProgramme, SkipItem
  <1>6. CASE ReadFails \/ Finish \/ Close \/ ClientGone \/ UNCHANGED vars
    BY <1>6 DEF ReadFails, Finish, Close, ClientGone, vars
  <1>7. ASSUME NEW s \in Sources, Goroutine(s)
        PROVE  Visited(d) \/ result = "ok"
    BY <1>7 DEF Goroutine
  <1>8. QED
    BY <1>1, <1>2, <1>3, <1>4, <1>5, <1>6, <1>7 DEF Next, WriteTo, Terminating

\* How WriteTo leaves it the second time.
LEMMA ReadStep ==
  ASSUME TypeOK, Answered, [Next]_vars, NEW d \in Sources,
         Read(d)' \/ result' = "ok"
  PROVE  \/ Read(d) \/ result = "ok"
         \/ idx = d /\ phase = "programmes" /\ step = "read" /\ NextError(d, "eof")
            /\ UNCHANGED <<channelIDMapping, addedProgrammes>>
  <1> USE DEF TypeOK, Read, Answered, consumerVars, outputVars
  <1>1. CASE ProgrammesEnd
    <2>1. /\ phase = "programmes" /\ step = "read" /\ UNCHANGED <<result, outputVars>>
          /\ NextError(idx, "eof") /\ NextDecoder("programmes", "finish")
      BY <1>1 DEF ProgrammesEnd, Reading
    <2>2. idx \in Nat /\ d \in Nat /\ idx <= NumSources /\ d <= NumSources
      BY <2>1, SourcesAssumption
    <2>3. d < idx \/ d = idx \/ result = "ok"
      BY <2>1, <2>2 DEF NextDecoder
    <2>4. QED
      BY <2>1, <2>3
  <1>2. CASE MeetProgramme \/ ChannelsEnd
    <2>1. /\ phase = "channels" /\ result' = result
          /\ NextDecoder("channels", "programmes")
      BY <1>2 DEF MeetProgramme, ChannelsEnd, Reads, Reading
    <2>2. idx \in Nat /\ d \in Nat /\ 1 <= d
      BY SourcesAssumption
    <2>3. QED
      BY <2>1, <2>2 DEF NextDecoder
  <1>3. CASE StartDecoder \/ StartFails \/ StartDone \/ StopBuffer \/ StopBufferReturns
    BY <1>3 DEF StartDecoder, StartFails, StartDone, StopBuffer, StopBufferReturns
  <1>4. CASE ReadChannel \/ ReadProgramme \/ SkipItem
    BY <1>4 DEF ReadChannel, ReadProgramme, SkipItem
  <1>5. CASE ReadFails \/ Finish \/ Close \/ ClientGone \/ UNCHANGED vars
    BY <1>5 DEF ReadFails, Finish, Close, ClientGone, vars
  <1>6. ASSUME NEW s \in Sources, Goroutine(s)
        PROVE  Read(d) \/ result = "ok"
    BY <1>6 DEF Goroutine
  <1>7. QED
    BY <1>1, <1>2, <1>3, <1>4, <1>5, <1>6 DEF Next, WriteTo, Terminating

\* A channel is pending until processChannel sees it.
LEMMA ChannelsKeptStep ==
  ASSUME EpgInv, CompleteInv, [Next]_vars
  PROVE  ChannelsKept'
  <1>1. /\ TypeOK /\ DecoderInv /\ DecoderTypeOK /\ DecoderExclusive
        /\ Drained /\ ChannelsKept /\ Answered
    BY DEF EpgInv, CompleteInv, DecoderInv
  <1>2. feed' = feed
    BY <1>1, OutputCases
  <1>3. ASSUME NEW d \in Sources, NEW i \in ChannelsOf(d), NEW x, x = feed[d][i]
        PROVE  /\ phase' \in {"start", "channels"} =>
                      HandledChannel(x, d)' \/ ChannelPending(d, i)'
               /\ Visited(d)' \/ result' = "ok" => HandledChannel(x, d)'
    <2>1. x \in Channel /\ x.kind = "channel" /\ DOMAIN feed[d] = 1 .. Len(feed[d])
      <3>1. x \in Items /\ x.kind = "channel"
        BY <1>1, <1>3, PositionTypes, ElementOfSeq DEF ChannelsOf, Leading, DecoderTypeOK
      <3>2. QED
        BY <1>1, <3>1, ItemTypes, PositionTypes
    <2>2. HandledChannel(x, d) => HandledChannel(x, d)'
      BY <1>1, <2>1, ChannelStaysHandled
    <2>3. /\ phase \in {"start", "channels"} => HandledChannel(x, d) \/ ChannelPending(d, i)
          /\ Visited(d) \/ result = "ok" => HandledChannel(x, d)
      BY <1>1, <1>3 DEF ChannelsKept
    <2>4. ASSUME phase' \in {"start", "channels"}, ChannelPending(d, i), ~HandledChannel(x, d)'
          PROVE  ChannelPending(d, i)'
      <3>1. CASE idx = d /\ (ReadChannel \/ ReadProgramme \/ SkipItem)
        <4>1. CASE MeetProgramme
          BY <1>1, <1>2, <2>4, <3>1, <4>1, TakesAlone, PendingIfAdded
        <4>2. CASE ~MeetProgramme
          <5>1. phase = "channels" /\ NextItem(d).kind # "programme"
            <6>1. phase' = phase /\ idx \in Sources
              BY <1>1, <3>1, <4>2, TakesAlone
            <6>2. phase = "channels"
              BY <2>4, <3>1, <6>1 DEF ReadChannel, ReadProgramme, SkipItem, Reads, Reading
            <6>3. QED
              BY <1>1, <3>1, <4>2, <6>2, TakesAlone
          <5>2. ChannelPending(d, i)' \/ x = NextItem(d)
            BY <1>1, <1>2, <1>3, <2>4, <3>1, <4>2, <5>1, TakesAlone, PendingIfTaken
          <5>3. CASE x = NextItem(d)
            <6>1. processChannel(NextItem(d), d)
              BY <1>1, <2>1, <3>1, <5>1, <5>3, TakesAlone
            <6>2. processChannel(x, d)
              BY <5>3, <6>1
            <6>3. QED
              BY <1>1, <2>1, <2>4, <6>2, ChannelHandled
          <5>4. QED
            BY <5>2, <5>3
        <4>3. QED
          BY <4>1, <4>2
      <3>2. CASE idx = d /\ MeetProgramme
        BY <1>1, <1>2, <2>4, <3>2, TakesAlone, PendingIfAdded
      <3>3. CASE idx = d => ~(ReadChannel \/ ReadProgramme \/ SkipItem \/ MeetProgramme)
        BY <1>1, <2>4, <3>3, PendingStep DEF PendingKept
      <3>4. QED
        BY <3>1, <3>2, <3>3
    <2>5. phase' \in {"start", "channels"} => phase \in {"start", "channels"}
      <3>1. CASE WriteTo
        BY <3>1 DEF WriteTo, StartDecoder, StartFails, StartDone, StopBuffer,
           StopBufferReturns, ReadChannel, MeetProgramme, ReadProgramme, SkipItem,
           ChannelsEnd, ProgrammesEnd, ReadFails, Finish, Close, Reads, Reading,
           NextDecoder, consumerVars
      <3>2. ASSUME NEW s \in Sources, Goroutine(s)
            PROVE  phase' = phase
        BY <3>2 DEF Goroutine, consumerVars
      <3>3. CASE ClientGone \/ UNCHANGED vars
        BY <3>3 DEF ClientGone, vars, consumerVars
      <3>4. QED
        BY <3>1, <3>2, <3>3 DEF Next, Terminating
    <2>6. ASSUME Visited(d)' \/ result' = "ok", ~(Visited(d) \/ result = "ok")
          PROVE  HandledChannel(x, d)
      <3>1. /\ idx = d /\ phase = "channels" /\ step = "read"
            /\ MeetProgramme \/ (ChannelsEnd /\ NextError(d, "eof"))
        BY <1>1, <2>6, VisitedStep
      <3>2. ~ChannelPending(d, i)
        <4>1. CASE MeetProgramme
          BY <1>1, <1>2, <3>1, <4>1, TakesAlone, PendingIfAdded
        <4>2. CASE NextError(d, "eof")
          <5>1. buffering[d] = "none"
            BY <1>1, <3>1 DEF DecoderExclusive, Processing
          <5>2. QED
            BY <1>1, <4>2, <5>1, NonePending
        <4>3. QED
          BY <3>1, <4>1, <4>2
      <3>3. QED
        BY <2>3, <3>1, <3>2
    <2>7. QED
      BY <2>2, <2>3, <2>4, <2>5, <2>6
  <1>4. \A d : ChannelsOf(d)' = ChannelsOf(d)
    BY <1>2 DEF ChannelsOf, Leading
  <1>5. QED
    BY <1>2, <1>3, <1>4 DEF ChannelsKept

\* A programme is pending until processProgramme sees it, with the mapping made.
LEMMA ProgrammesKeptStep ==
  ASSUME EpgInv, CompleteInv, [Next]_vars
  PROVE  ProgrammesKept'
  <1>1. /\ TypeOK /\ DecoderInv /\ DecoderTypeOK /\ DecoderExclusive
        /\ Drained /\ ProgrammesKept /\ Answered
    BY DEF EpgInv, CompleteInv, DecoderInv
  <1>2. feed' = feed
    BY <1>1, OutputCases
  <1>3. ASSUME NEW d \in Sources, NEW i \in ProgrammesOf(d), NEW x, x = feed[d][i]
        PROVE  /\ \/ ProgrammePending(d, i)'
                  \/ phase' \notin {"start", "channels"} /\ HandledProgramme(x, d)'
               /\ Read(d)' \/ result' = "ok" => HandledProgramme(x, d)'
    <2>1. x \in Programme /\ x.kind = "programme"
      <3>1. x \in Items /\ x.kind = "programme"
        BY <1>1, <1>3, PositionTypes, ElementOfSeq DEF ProgrammesOf, DecoderTypeOK
      <3>2. QED
        BY <3>1, ItemTypes
    <2>2. phase \notin {"start", "channels"} /\ HandledProgramme(x, d) =>
             phase' \notin {"start", "channels"} /\ HandledProgramme(x, d)'
      BY <1>1, <2>1, ProgrammeStaysHandled
    <2>3. /\ \/ ProgrammePending(d, i)
             \/ phase \notin {"start", "channels"} /\ HandledProgramme(x, d)
          /\ Read(d) \/ result = "ok" => HandledProgramme(x, d)
      BY <1>1, <1>3 DEF ProgrammesKept
    <2>4. ASSUME ProgrammePending(d, i)
          PROVE  \/ ProgrammePending(d, i)'
                 \/ phase' \notin {"start", "channels"} /\ HandledProgramme(x, d)'
      <3>1. CASE idx = d /\ MeetProgramme
        BY <1>1, <1>2, <2>4, <3>1, TakesAlone, PendingIfAdded
      <3>2. CASE /\ idx = d /\ ~MeetProgramme
                 /\ ReadChannel \/ ReadProgramme \/ SkipItem
        <4>1. ProgrammePending(d, i)' \/ x = NextItem(d)
          BY <1>1, <1>2, <1>3, <2>4, <3>2, TakesAlone, PendingIfTaken
        <4>2. CASE x = NextItem(d)
          <5>1. /\ phase = "programmes" /\ phase' = phase
                /\ processProgramme(NextItem(d), d)
            BY <1>1, <2>1, <3>2, <4>2, TakesAlone
          <5>2. processProgramme(x, d)
            BY <4>2, <5>1
          <5>3. QED
            BY <2>1, <5>1, <5>2, ProgrammeHandled
        <4>3. QED
          BY <4>1, <4>2
      <3>3. CASE idx = d => ~(ReadChannel \/ ReadProgramme \/ SkipItem \/ MeetProgramme)
        BY <1>1, <2>4, <3>3, PendingStep DEF PendingKept
      <3>4. QED
        BY <3>1, <3>2, <3>3
    <2>5. ASSUME Read(d)' \/ result' = "ok"
          PROVE  HandledProgramme(x, d)'
      <3>1. CASE Read(d) \/ result = "ok"
        <4>1. phase \notin {"start", "channels"}
          BY <1>1, <3>1 DEF Read, Answered
        <4>2. QED
          BY <2>2, <2>3, <3>1, <4>1
      <3>2. CASE ~(Read(d) \/ result = "ok")
        <4>1. /\ idx = d /\ phase = "programmes" /\ step = "read" /\ NextError(d, "eof")
              /\ UNCHANGED <<channelIDMapping, addedProgrammes>>
          BY <1>1, <2>5, <3>2, ReadStep
        <4>2. buffering[d] = "none"
          BY <1>1, <4>1 DEF DecoderExclusive, Processing
        <4>3. ~ProgrammePending(d, i)
          BY <1>1, <4>1, <4>2, NonePending
        <4>4. QED
          BY <2>2, <2>3, <4>3
      <3>3. QED
        BY <3>1, <3>2
    <2>6. QED
      BY <2>2, <2>3, <2>4, <2>5
  <1>4. \A d : ProgrammesOf(d)' = ProgrammesOf(d)
    BY <1>2 DEF ProgrammesOf
  <1>5. QED
    BY <1>2, <1>3, <1>4 DEF ProgrammesKept

\* Only a document that is finished is answered with success.
LEMMA AnsweredStep ==
  ASSUME TypeOK, Answered, [Next]_vars
  PROVE  Answered'
  <1> USE DEF Answered, consumerVars
  <1>1. CASE WriteTo
    BY <1>1 DEF WriteTo, StartDecoder, StartFails, StartDone, StopBuffer,
       StopBufferReturns, ReadChannel, MeetProgramme, ReadProgramme, SkipItem,
       ChannelsEnd, ProgrammesEnd, ReadFails, Finish, Close, Reads, Reading, Processing
  <1>2. ASSUME NEW s \in Sources, Goroutine(s)
        PROVE  Answered'
    BY <1>2 DEF Goroutine
  <1>3. CASE ClientGone \/ UNCHANGED vars
    BY <1>3 DEF ClientGone, vars
  <1>4. QED
    BY <1>1, <1>2, <1>3 DEF Next, Terminating

\* At the start everything is pending.
LEMMA CompleteInit ==
  ASSUME Init
  PROVE  CompleteInv
  <1> USE DEF Init, DecoderInit
  <1>1. EpgInv /\ DecoderExclusive
    BY EpgInit
  <1>2. DecoderTypeOK
    BY <1>1 DEF EpgInv, DecoderInv
  <1>3. NoProgramme(<<>>)
    BY EmptyBuffer
  <1>4. Drained /\ Recorded /\ Answered
    BY DEF Drained, Recorded, Answered
  <1>5. ASSUME NEW d \in Sources
        PROVE  /\ pos[d] = 0 /\ itemBuffer[d] = <<>> /\ batch[d] = <<>>
               /\ ~Visited(d) /\ ~Read(d)
               /\ \A i \in ChannelsOf(d) \cup ProgrammesOf(d) : pos[d] < i
    <2>1. \A i \in ChannelsOf(d) \cup ProgrammesOf(d) : i \in DOMAIN feed[d]
      BY DEF ChannelsOf, ProgrammesOf, Leading
    <2>2. QED
      BY <1>2, <2>1, PositionTypes DEF Visited, Read
  <1>6. ChannelsKept /\ ProgrammesKept
    BY <1>3, <1>5 DEF ChannelsKept, ProgrammesKept, ChannelPending, ProgrammePending
  <1>7. QED
    BY <1>1, <1>4, <1>6 DEF CompleteInv

-----------------------------------------------------------------------------
\* The invariant: what a source holds is ahead of the parser, or buffered, or seen
\* by its handler.
THEOREM CompleteInvariance == Spec => []CompleteInv
  <1>1. Init => CompleteInv
    BY CompleteInit
  <1>2. EpgInv /\ CompleteInv /\ [Next]_vars => CompleteInv'
    <2>1. SUFFICES ASSUME EpgInv, CompleteInv, [Next]_vars
                   PROVE  CompleteInv'
      OBVIOUS
    <2>2. /\ TypeOK /\ DecoderInv /\ DecoderExclusive /\ Drained /\ Recorded /\ Answered
      BY <2>1 DEF EpgInv, CompleteInv
    <2>3. DecoderExclusive' /\ Drained' /\ Recorded' /\ Answered'
      BY <2>1, <2>2, ExclusiveStep, DrainedStep, RecordedStep, AnsweredStep
    <2>4. ChannelsKept' /\ ProgrammesKept'
      BY <2>1, ChannelsKeptStep, ProgrammesKeptStep
    <2>5. QED
      BY <2>3, <2>4 DEF CompleteInv
  <1>3. QED
    BY <1>1, <1>2, EpgInvariant, PTL DEF Spec

\* The EPG of any sources has every channel of the playlist that a source lists
\* ahead of its programmes, and every programme of the channels it merged, however
\* reading ahead, stopping, starting again and the sources' ends interleave.
THEOREM EpgComplete == Spec => []NothingLost
  <1>1. EpgInv /\ CompleteInv => NothingLost
    <2>1. SUFFICES ASSUME EpgInv, CompleteInv, result = "ok", NEW d \in Sources
                   PROVE  /\ \A i \in Leading(d) : \A id \in PlaylistIDs :
                                feed[d][i].kind = "channel" /\ Target(feed[d][i], id) =>
                                   /\ addedChannels[id] # Absent
                                   /\ channelNamesMatch(feed[d][i], id) =>
                                        channelIDMapping[<<feed[d][i].id, d>>] # Absent
                          /\ \A p \in RangeOf(feed[d]) : p.kind = "programme" =>
                                LET id == channelIDMapping[<<p.channel, d>>] IN
                                id # Absent => \E j \in Of("programme") :
                                                  Key(out[j], out[j].id) = Key(p, id)
      BY DEF NothingLost
    <2>2. ChannelsKept /\ ProgrammesKept /\ Recorded
      BY <2>1 DEF CompleteInv
    <2>3. \A i \in ChannelsOf(d) : HandledChannel(feed[d][i], d)
      BY <2>1, <2>2 DEF ChannelsKept
    <2>4. \A i \in ProgrammesOf(d) : HandledProgramme(feed[d][i], d)
      BY <2>1, <2>2 DEF ProgrammesKept
    <2>5. \A p \in RangeOf(feed[d]) : p.kind = "programme" => HandledProgramme(p, d)
      BY <2>4 DEF RangeOf, ProgrammesOf
    <2>6. \A p \in RangeOf(feed[d]) : p.kind = "programme" =>
             LET id == channelIDMapping[<<p.channel, d>>] IN
             id # Absent => \E j \in Of("programme") : Key(out[j], out[j].id) = Key(p, id)
      BY <2>2, <2>5 DEF HandledProgramme, Recorded
    <2>7. QED
      BY <2>3, <2>6 DEF HandledChannel, ChannelsOf
  <1>2. QED
    BY <1>1, EpgInvariant, CompleteInvariance, PTL
=============================================================================
