------------------------------ MODULE LazyDecoder ------------------------------
(***************************************************************************)
(* BaseDecoder (src/internal/listing/streaming.go): the decoder of a       *)
(* listing source, which a goroutine of its own reads ahead while its      *)
(* consumer, one goroutine for all sources, is busy with another source.   *)
(* The consumer's modules build their actions from the operators below.    *)
(*                                                                         *)
(* feed[d] is what the body of source d holds, element by element; an      *)
(* element of kind "bad" is one that the parser rejects and then skips.    *)
(***************************************************************************)
EXTENDS Integers, Sequences

CONSTANTS
    Sources,    \* the decoders
    Items,      \* what a parser may yield, records with a kind
    BatchSize   \* bufferBatchSize

ASSUME BatchAssumption == BatchSize \in Nat \ {0}

VARIABLES
    feed,        \* constant during a request
    body,        \* d.reader and the state of the parser on it
    pos,         \* elements the parser has read
    itemBuffer,
    batch,       \* the goroutine's, not yet in itemBuffer
    err,         \* d.err
    buffering,   \* where the goroutine is; "none": there is none
    cancelled    \* bufferCtx is cancelled

readerVars == <<body, pos>>
decoderVars == <<feed, readerVars, itemBuffer, batch, err, buffering, cancelled>>

-----------------------------------------------------------------------------
DecoderTypeOK ==
    /\ feed \in [Sources -> Seq(Items)]
    /\ body \in [Sources -> {"unopened", "open", "broken", "closed"}]
    /\ pos \in [Sources -> Nat]
    /\ itemBuffer \in [Sources -> Seq(Items)]
    /\ batch \in [Sources -> Seq(Items)]
    /\ err \in [Sources -> {"none", "eof", "failed"}]
    /\ buffering \in [Sources -> {"none", "select", "decode"}]
    /\ cancelled \in [Sources -> BOOLEAN]
    /\ \A d \in Sources : pos[d] <= Len(feed[d]) /\ Len(batch[d]) <= BatchSize

\* NewLazyBaseDecoder.
DecoderInit ==
    /\ body = [d \in Sources |-> "unopened"]
    /\ pos = [d \in Sources |-> 0]
    /\ itemBuffer = [d \in Sources |-> <<>>]
    /\ batch = [d \in Sources |-> <<>>]
    /\ err = [d \in Sources |-> "none"]
    /\ buffering = [d \in Sources |-> "none"]
    /\ cancelled = [d \in Sources |-> FALSE]

-----------------------------------------------------------------------------
(* decoder.Decode, by whoever calls it. *)

AtElement(d) == body[d] = "open" /\ pos[d] < Len(feed[d])
Element(d)   == feed[d][pos[d] + 1]
Decodes(d)   == AtElement(d) /\ Element(d).kind # "bad"
Advance(d)   == pos' = [pos EXCEPT ![d] = @ + 1] /\ UNCHANGED body

\* The end; an element the parser rejects; a body that breaks off, for good.
DecodeError(d, e) ==
    \/ /\ body[d] = "open" /\ pos[d] = Len(feed[d])
       /\ e = "eof"
       /\ UNCHANGED readerVars
    \/ /\ AtElement(d) /\ Element(d).kind = "bad"
       /\ e = "failed"
       /\ Advance(d)
    \/ /\ body[d] = "open"
       /\ e = "failed"
       /\ body' = [body EXCEPT ![d] = "broken"]
       /\ UNCHANGED pos
    \/ /\ body[d] \in {"broken", "closed"}
       /\ e = "failed"
       /\ UNCHANGED readerVars

-----------------------------------------------------------------------------
(* The consumer's calls. *)

\* init opens the source the first time; a new goroutine starts.
StartBuffering(d) ==
    /\ body' = [body EXCEPT ![d] = IF @ = "unopened" THEN "open" ELSE @]
    /\ cancelled' = [cancelled EXCEPT ![d] = FALSE]
    /\ buffering' = [buffering EXCEPT ![d] = "select"]

\* Mutant: the goroutine is waited for without being told to stop.
cancelBufferForgotten(d) == UNCHANGED cancelled

\* StopBuffer and Close: bufferCtx is cancelled ...
cancelBuffer(d) == cancelled' = [cancelled EXCEPT ![d] = TRUE]

\* Mutant: StopBuffer does not wait.
NobodyWaits(d) == TRUE

\* ... and StopBuffer waits for the goroutine.
Waited(d) == buffering[d] = "none"

\* NextItem: from the buffer, or else the error, or else from the parser.
HasNext(d)  == itemBuffer[d] # <<>> \/ (err[d] = "none" /\ Decodes(d))
NextItem(d) == IF itemBuffer[d] # <<>> THEN Head(itemBuffer[d]) ELSE Element(d)
Take(d) ==
    IF itemBuffer[d] # <<>>
    THEN /\ itemBuffer' = [itemBuffer EXCEPT ![d] = Tail(@)]
         /\ UNCHANGED readerVars
    ELSE Advance(d) /\ UNCHANGED itemBuffer

\* NextItem, then AddToBuffer of the item: it goes behind what is buffered.
TakeAndAdd(d) ==
    IF itemBuffer[d] # <<>>
    THEN /\ itemBuffer' = [itemBuffer EXCEPT ![d] = Append(Tail(@), Head(@))]
         /\ UNCHANGED readerVars
    ELSE /\ itemBuffer' = [itemBuffer EXCEPT ![d] = <<Element(d)>>]
         /\ Advance(d)

NextError(d, e) ==
    /\ itemBuffer[d] = <<>>
    /\ \/ err[d] # "none" /\ e = err[d] /\ UNCHANGED readerVars
       \/ err[d] = "none" /\ DecodeError(d, e)

-----------------------------------------------------------------------------
(* The goroutine. *)

\* Mutant: a batch that is not full is dropped.
FlushIfFull(d) ==
    /\ itemBuffer' = [itemBuffer EXCEPT ![d] =
                         IF Len(batch[d]) = BatchSize THEN @ \o batch[d] ELSE @]
    /\ batch' = [batch EXCEPT ![d] = <<>>]

\* Its deferred function, before bufferWG.Done.
Flush(d) ==
    /\ itemBuffer' = [itemBuffer EXCEPT ![d] = @ \o batch[d]]
    /\ batch' = [batch EXCEPT ![d] = <<>>]

End(d) ==
    /\ Flush(d)
    /\ buffering' = [buffering EXCEPT ![d] = "none"]
    /\ cancelled' = [cancelled EXCEPT ![d] = TRUE]

\* The ticker, which select may prefer to a context that is done.
Tick(d) ==
    /\ buffering[d] = "select"
    /\ Len(batch[d]) < BatchSize
    /\ buffering' = [buffering EXCEPT ![d] = "decode"]
    /\ UNCHANGED <<feed, readerVars, itemBuffer, batch, err, cancelled>>

\* Mutant: <= for <.
BufferOneMore(d) ==
    /\ buffering[d] = "decode"
    /\ Decodes(d)
    /\ Advance(d)
    /\ batch' = [batch EXCEPT ![d] = Append(@, Element(d))]
    /\ buffering' = [buffering EXCEPT ![d] =
                        IF Len(batch[d]) = BatchSize THEN "select" ELSE "decode"]
    /\ UNCHANGED <<feed, itemBuffer, err, cancelled>>

BufferItem(d) ==
    /\ buffering[d] = "decode"
    /\ Decodes(d)
    /\ Advance(d)
    /\ batch' = [batch EXCEPT ![d] = Append(@, Element(d))]
    /\ buffering' = [buffering EXCEPT ![d] =
                        IF Len(batch'[d]) = BatchSize THEN "select" ELSE "decode"]
    /\ UNCHANGED <<feed, itemBuffer, err, cancelled>>

BufferError(d) ==
    /\ buffering[d] = "decode"
    /\ \E e \in {"eof", "failed"} : DecodeError(d, e) /\ err' = [err EXCEPT ![d] = e]
    /\ End(d)
    /\ UNCHANGED feed

\* bufferCtx, or the request's context it derives from, is done.
BufferStops(d, gone) ==
    /\ buffering[d] = "select"
    /\ cancelled[d] \/ gone
    /\ End(d)
    /\ UNCHANGED <<feed, readerVars, err>>
=============================================================================
