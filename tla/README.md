# Majmun in TLA+

Majmun (`src/`) is an IPTV proxy: for each client it merges the playlists (M3U8)
and programme guides (XMLTV) of several providers into one of each, filtered and
renamed by rules, and proxies the streams themselves.  This directory holds TLA+
modules of the parts where goroutines, limits, files and sources interact, the TLC
configurations that check them, and proofs that TLAPS checks.

Contents: 1 the system, 2 the modules, 3 the runs, 4 fairness, 5 the proofs,
6 where the code and its docs disagree, 7 what is left out, 8 what could follow.

## 1. The system

| Component (`src/internal/`) | State | Operations | What makes it correct | Module |
|---|---|---|---|---|
| stream pool `streampool/` | map from stream key to segmenter; per segmenter a client count, an empty channel, a ready signal, a context; a directory of segments per key | `GetReader`, `Close` of a reader, `runSegmenter`, `waitForSegments`, `remove`, `stopAll` | one upstream fetch per stream; each permit released exactly once; no viewer cut off by another; nothing left in the map or on disk | `StreamPool` |
| stream proxy `server/stream.go`, `semaphore.go` | permits of the server's and the clients' semaphores; per request the attempt, the source and the failures seen | `handleStreamProxy`, `acquireSemaphores`, `tryAllStreams`, `tryStream`, the error streams | limits hold; permits come back on every path; fallback and retry end; a limit that is told was met | `StreamProxy` |
| HTTP cache `httpclient/` | four files per entry: body, temporary body, metadata, temporary metadata | `RoundTrip`, reading and closing a body, `cleanExpired` | only whole bodies are served, a confirmed one is current, nothing is left behind | `HttpCache` |
| lazy decoder `listing/streaming.go` | parser position, buffer, error, the goroutine that reads ahead | `StartBuffering`, `StopBuffer`, `NextItem`, `AddToBuffer`, `Close` | goroutine and consumer never overlap; nothing read ahead is lost | `LazyDecoder` |
| EPG streamer `listing/xmltv/streamer.go` | channel mapping, channels and programmes written | `WriteTo` over all sources, twice | complete, no duplicates, programmes under their own channel | `EpgStreamer` |
| playlist streamer `listing/m3u8/streamer.go`, `writer.go` | the channels of the request, what is written | fetch of all sources, rules, merge, write | rules see all tracks or none; what is written reads back | `PlaylistStreamer` |
| channel merge `listing/m3u8/processor.go`, `store/` | channel per tvg-id, streams per channel | `Process` | one channel per id, with every source once and the best in front | `ChannelMerge` |
| playlist and channel rules `listing/m3u8/rules/` | none; functions of a channel or of all | filter, set, remove, merge, sort | an order that is an order; of duplicates the best one stays | `ChannelRules`, `PlaylistRules` |
| M3U parser `parser/m3u8/` | the channel begun | line by line; the encoder | what is encoded is decoded again | `M3uListing` |
| configuration `config/` | none | defaults, load, validate | what is accepted can be started | `Configuration` |
| app manager `app/` | providers, semaphores, URL generators per client | built at start | who shares which limit; the nearer setting wins | `ProxyConfig`, `Access` |
| routes and middleware `server/` | none | authentication, playlist, EPG, files, shutdown | who may fetch what, and for how long | `Access` |
| url generator `urlgen/` | none | encrypt, decrypt, expiry | a link opens what it was made for, while valid | `Access` |
| gauge `metrics/gauge_clean.go` | series and the time each became zero | `Inc`, `Dec`, clean | a live series is never removed, an idle one is | `AutoCleanGauge` |

How they interact.  A stream request passes the middleware, takes a permit of the
global and of its client's semaphore (two goroutines), then asks the stream pool for
a reader of each source of its channel in turn.  The pool takes a permit of the
subscription, whose semaphore the manager made, starts a segmenter process, and lets
every further viewer of the same stream read the same segments.  Playlist and EPG
requests open all sources of a client; each source is read ahead by a goroutine of
its own while the handler works through them one after another; the bodies come
through the HTTP cache, which stores them as they are read and keeps an entry only if
the reader came to the end.  The playlist handler makes a link of each channel, which
carries the playlists and URLs of all its sources, encrypted with a key of its client;
the links come back later, perhaps to a server that was started again from another
configuration, and what they may open is decided then.

What is hard here: viewers and goroutines that come and go in any order around one
segmenter (a lock protects the map, but neither the joining of a client nor the
removal of a directory); permits acquired by one goroutine and released by another;
waiting on signals whose sender may be gone; two acquisitions of which one fails;
file operations of several downloads, a cleaner and a crash on the same four names; a
decoder without a lock that two goroutines use in turns; maps by id and by channel that
must change together while channels replace each other; an unstable sort over a
comparison put together from patterns and natural numbers; links that outlive the
configuration they were made under.  `PROJECT.json` lists each of
these hazards at its line, with the properties that watch it.

## 2. The modules

`StreamPool` — the pool.  `Calls` are calls of `GetReader`; each creates at most one
segmenter, named after it.  `pc` is where a call is, `run` where its `runSegmenter`
is, `cancelled` the watcher goroutine that kills the process when the segmenter's
context or its emptiness ends it, `rm`/`victim`/`doomed` where a `remove` or `stopAll`
is; `count`, `empty`, `stopped`, `ready` are the segmenter's fields, `pool` the map,
`held` the semaphores, `dir` the number of segments on disk (`NoDir`: no directory).
An action is what runs between two points where another goroutine may: so
`getOrCreate` under its lock is one action (`CreateSegmenter`, `CreateFails` or
`FindSegmenter`), while `addClient` after it (`Join`) is another, and so is each of
deleting the entry, stopping and cleaning in `remove`.  The segmenter process
(FFmpeg) is external: it writes segments and exits when it likes.  Segments are
counted up to `InitSegments`, beyond which nothing looks.

`SharedStreams` — what the pool promises, with no goroutine in sight: segmenters
start and end, within the concurrency of a subscription and one at a time per stream.
`StreamPool` refines it: active are the segmenters that hold their permit
(`Abstract == INSTANCE SharedStreams WITH ...`, checked and proved).

`StreamProxy` — `handleStreamProxy`.  `acq` holds the two goroutines of
`acquireSemaphores`, `attempt`/`idx`/`outcome` the two nested loops and what came of
each source, `answer` what the client was sent.  The pool appears as `feed`, at the
grain of `SharedStreams`: which stream is active on which subscription's permit.
`Admit`, `Refuse`, `SkipSource`, `SourceLimited`, `GetReader`, `SourceFails`,
`SourceOpens`, `CopyEmpty`, `Streamed`, `Retry`, `GiveUp`, `Return` follow the
handler's branches one by one.

`HttpCache` — one entry, that is one URL with one set of options.  The four names
refer to inodes as in POSIX: an open file stays readable and writable when its name
goes or is reused.  A fetch is one `RoundTrip` and what its consumer does with the
body (`ReadToEnd`, `ReadLess`, `Abandon`); checking, renewing, downloading, replacing
body and metadata, and the cleaner are one action per file operation.  `Crash` leaves
the files alone and ends everything else.

`LazyDecoder` — `BaseDecoder`: the parser's position in what the source holds
(`feed`), `itemBuffer`, `batch`, `err`, and the goroutine that reads ahead
(`buffering`).  It has the operators from which a consumer's module builds its
actions, and the goroutine's actions themselves.  Elements the parser rejects are of
kind `"bad"`: they yield an error once and are passed; a body that breaks off fails
for good.

`EpgStreamer` — extends `LazyDecoder` with `WriteTo`: start every source, then all
channels of each up to its first programme (which is put back), then all programmes
of each.  `channelIDMapping`, `addedChannels` and `addedProgrammes` are the
streamer's maps, `out` is what was encoded together with where it came from.

`Channels` — a channel of a playlist request (`store_channel.go`), selectors, patterns
and templates.  Strings are members of `Values`; a pattern is the set of values it
matches with what is left of each when it is cut out, and a template one of the forms
that the rules use.

`ChannelRules` — `rules/channel/processor.go`: set, remove a field, remove or hide a
channel, under conditions that nest (`and`, `or`, `invert`).

`PlaylistRules` — `rules/playlist/`: `Deduplicated` merges or removes duplicates, which
`GroupChannels` finds; `SortedStores` sorts.  `sort.Slice` is not stable and maps have
no order, so these operators return every store that may come out.  `naturalLess`
compares digits and letters chunk by chunk, as the code does, overflow included.

What is recursive in the last two is a recursive function in a `LET`, so that it can be
reasoned about; the types of rules and conditions are written out for the same reason.

`M3uListing` — the decoder of M3U line by line (`Decode` is a step from what was begun
and one line to the next) and the encoder.  Lines are what the decoder takes them for,
so the encoder's are not those it meant: constants say which attributes `attrRegex`
finds between the quotes of values and names (`Found`), how commas split attributes
(`AttrParts`) and names (`Parts`), what `#key:value` is for any key (`TagText`), and what
a URI is on a line of its own (`Alone`: an empty one is skipped, one that begins with `#`
is none).  `Torn` is what is left of a line that is cut off, which the scanner yields as a
line (a URI then is another URI, `Beginnings`), and `Cut` what is left of a listing.

`ChannelMerge` — `Processor.Process` as a state machine over the store: `at` is the
loop's index, `channelsByID` and `channelStreams` are its two maps, `link` the result.
`SkipRemoved`, `AddFirst`, `ReplaceBest`, `AddFallback` are the branches of its loop.

`PlaylistStreamer` — composes `LazyDecoder`, the rules, `ChannelMerge` and `M3uListing`
into `WriteTo` of the playlist: start, read each source, channel rules, playlist rules,
merge, write, with failures of each, the client's going and the deferred `Close`.

`ProxyConfig`, `Configuration` — the proxy block with its three levels
(`mergeProxies`), and the configuration: defaults, files of a directory decoded one over
the other, `Validate` after each.

`AutoCleanGauge` — the gauge: `Inc`, `Dec`, the clock and the cleanup.

`Access` — composes the last three: a server loads its configuration file by file
(`LoadConfig`, `ReadFile`, `LoadFails`, `Loaded`; `unread` are the files still ahead), is
started, ended, and started again; clients get links, somebody holds them (they survive
the server), and `proxyAuth` opens them for the first client that may; viewers of an opened
stream go through its sources and are counted by the gauge.  Inside it how long a
source is tried is left to `StreamProxy`.

`StreamPoolProofs`, `StreamProxyProofs`, `HttpCacheProofs`, `EpgStreamerProofs`,
`ChannelMergeProofs`, `PlaylistStreamerProofs`, `AccessProofs` — the proofs about the
module of that name; `DataInduction` — lemmas that several of them need.  `MC*` —
constants for TLC.

Mutants, marked as such, are kept beside the definitions they alter; each shows that
one property would notice one plausible mistake.

## 3. The runs

| Run | Instance | Shows |
|---|---|---|
| `PoolContention` | two calls for one stream, one for another, one permit for both, a shutdown | types; `ClientAccounting`: a client is counted exactly from joining to leaving; `DirHasOwner`: no directory is leaked; `PermitAccounting`; `RegisteredHasRemover`: no entry is stranded; `NoViewerCutOff`: only a shutdown or a refused creator ends a stream that a joined viewer waits for or reads; the refinement `SharesStreams` |
| `PoolLiveness` | two calls of two clients for one stream, two initial segments | `EndedStreamIsFreed`, `AdmittedCallReturns` |
| `ProxyLimits` | three requests, two clients, global limit 2, client limits 1 and 2, two subscriptions of one permit, channels with a fallback and with a provider that is gone | types, `PermitAccounting`, `ServedWithinLimits`, `ServedReleasesPermits`, `ViewersSharePermit`: a subscription refuses a client only if more of its streams were asked for than it allows, whatever shares and outlives |
| `ProxyLiveness` | two requests, overlapping channels, global limit 1 | `RequestsAnswered` |
| `CacheTidy` | three fetches one after the other, two versions on the origin, a crash anywhere, the cleaner beside them | types, `CachedIsWhole`, `RenewedIsCurrent`, `GarbageCollected` |
| `EpgSources` | two sources, each with any of six contents, batches of three | types, `DecoderExclusive`, `WellFormed`, `NothingLost`, `ChannelsNotMixed`, `RequestReturns` |
| `Playlist` | two sources with one of 14 pairs of listings, nine clients with rules of every kind, batches of two | `AllSourcesRead`, `SortConsistent`, `DedupKeepsBest`, `OneChannelPerID`, `EverySourceOnce`, `BestSourceFirst`, `ReadsBack`, `RequestReturns` |
| `Access` | nine configurations of one or two files, two clients, two playlists and an EPG, one link at a time, two viewers | `ValidConfigStarts`, `ConfigOverrides`, `CachedHasTTL`, `LinkHonoured`, `OwnPlaylistsOnly`, `GaugeCountsViewers`, `IdleLabelsGone` |
| `PoolWaitEnds` | violation | a viewer waits on a creator that got no permit, see 6 |
| `PoolDirRace` | violation | a cleanup deletes the next segmenter's directory, see 6 |
| `ProxyPermitLeak` | violation | a permit kept by a refused request, see 6 |
| `CacheRace` | violation | a truncated body in the cache, see 6 |

Bounds and why they are enough.

- *Three calls* of the pool are a creator, a viewer that joins it and a call that
  competes for the permit: the races of this code are between those roles.  With one
  permit every way to be refused happens.  The proofs remove the bound for most of the
  safety properties.
- *Three requests* of the proxy are two that compete for one client's permit and one
  of another client that competes for the server's.  Retry (two attempts) is the
  code's own bound.  The proofs remove the bound for all its safety properties.
- *Three fetches* are needed to write an entry, to replace it and crash on the way, and to
  renew what is left.  They are named in the order in which they start (`NextFetch`): any
  other naming is the same behaviour.
  `Parallel` bounds those under way, `MaxVersion` the versions of the origin's resource,
  `MaxCrashes` the crashes.  With `Parallel = 1` the entry is right; with two at once it
  need not be (`CacheRace`).  The entry's age goes through `fresh`, `stale` (TTL over)
  and `expired` (retention over) at any time.
- *Two sources* contain every pair of roles (the first to list a channel, a later one
  that repeats or contradicts it).  The contents of the EPG have a channel known by its
  id, one known by its name, one with a foreign id and a known name, one with a known id
  and a foreign name, one without a name, programmes of no channel, a rejected element,
  and a source without programmes.  The code's batch is larger than three elements;
  three makes both the full and the half-full batch happen within a source of six.
- The *listings* of the playlist run have up to three channels of one id in two sources
  (so that a winner is replaced and then falls back), ids that are URLs and so are
  rewritten, channels without an id, tags that the decoder keeps or drops, a number too long for int64 (`MaxInt` is 50), a broken `#EXTINF`, a bad URI, a
  missing header.  The clients have each kind of rule, conditions nested in each way,
  and rules that fail; their rules make names and attributes with a comma, an attribute
  with a quote, channels without a name, URIs that are empty or begin with `#`, and tags that
  look like an `#EXTINF` or like nothing.  `StreamLink` tells the links of different
  streams apart.
- The *configurations* of the access run differ in the salt, secrets, the order of
  clients, the playlists named, lifetimes and overrides, and some are not accepted.
  `MaxAge` is one more than the lifetime of the links that can expire; the default of 30
  days is one that does not end.  One link at a time suffices, as links
  do not touch each other; two viewers make a label be shared.
- Symmetry is used only in runs without liveness, and only over identifiers that the
  instance treats alike.

`TypeOK` of `PlaylistStreamer` and `Access` documents their variables and is left out of
the runs.  `CHECK_DEADLOCK` stays on everywhere: the modules that end have a
`Terminating` step that says what it is to have ended.

## 4. Fairness

- Pool: weak fairness of each call, each `runSegmenter`, watcher, `waitForSegments`
  and `remove`: they are goroutines that the Go scheduler runs, and everything they
  wait for that takes finite time (the semaphore's and the ready timeout) is an action
  of theirs.  None for viewers, the process, new calls, or the shutdown.
- Proxy: weak fairness of the handler and of its two acquisitions, which end by
  `semaphoreTimeout`.  None for the pool's answer, unless the client has gone
  (`GetReader` selects on the client's context), nor for a viewer's leaving: hence the
  exception in `RequestsAnswered`.
- Cache: weak fairness of the cleaner, a ticker that never stops.
- EPG: weak fairness of `WriteTo` and of each goroutine; a read from a source ends
  because the HTTP client has timeouts, and then it yields an element or an error.  The
  goroutine's `select` has no preference between its ticker and a context that is done;
  weak fairness of the goroutine suffices, since a full batch leaves it only the latter.
- Playlist: the same, of its `WriteTo` and its goroutines.
- Access: weak fairness of the gauge's clock and of its cleanup, a ticker that runs as
  long as the process.

## 5. The proofs

Checked by TLAPS for every value of the constants, under the modules' named
assumptions, which TLC evaluates in the runs.  Each theorem names the property of a run
that it states, if it states one; TLC has checked the invariants too, on the instances
of the runs, before they were proved.

`DataInduction`.  The least element of a set of numbers exists since `<` is well-founded
(the library's theorem, for a relation and not for an operator), so what holds of a
function on `0 .. n` at 0, and is kept from each number to the next, holds up to `n`
(`Kept`), and a recursion from 0 to `n` has a function (`HasIteration`, `Iterated`).
With this the proofs reason about the recursive functions of the models, though the
library's induction theorems, which take an operator, are out of the provers' reach.

`StreamPoolProofs`.  The assumptions are that calls are finitely many and named apart
from `NoSeg` and `Server`, that each has a stream and a subscription, and that limits
are natural numbers.  The invariant `PoolInv` has five parts: the types; `ServerPhase`
(the server never deletes an entry by key); `CallPhases` (a call without its permit
runs nothing, one whose segmenter is active removes nothing); `Registration` (an entry
is filed under its own key by an owner, and until shutdown an owner's entry is in the
map); `PermitAccounting`.  None of the properties is inductive alone: that a permit is
released only if held (`held` stays a natural number, where `Weighted.Release` would
panic) needs the count, the count needs the phases, and that a stream has one active
segmenter follows from `Registration`, since two owners of one key would be the same
entry.  Proved: `TypeCorrect`, `PermitsCorrect`, `EntriesHaveRemover`, `OneSegmenter`,
and `Refinement`: every step of the pool is a step of `SharedStreams` or a stutter.

A second invariant of the pool, `ViewerInv`, is about its viewers: `ViewerPhases` (a call
has no segmenter before `getOrCreate`, its own if it made one, and another's if it found
it), `SegmentersMade`, and `RemoverPhases` (who removes has met an empty segmenter, and,
until shutdown, removes its own), with the properties `ClientAccounting` and `DirHasOwner`.
A client is counted from joining to leaving only because a call gets its segmenter once;
and that a directory has an owner when its entry is deleted needs that the remover who
deleted it is the one who still has to clean up.  Proved: `ClientsCounted`, `DirsOwned`, and `ViewersKept` (`NoViewerCutOff`): a
segmenter that still has clients is stopped only by the shutdown or the refusal of its
creator.

`StreamProxyProofs`.  For any requests, clients, channels and limits.  `ProxyInv` adds
five parts to the properties: `PermitPhases` (what a request holds follows from where
its handler is: past the semaphores a permit of each that is not nil), `WithinLimits`
(no semaphore gives out more than it has), `AnswerPhases` (the answer comes last), and
`FeedsWanted` and `LimitsMet` for the limits that a client is told of.
`releaseSemaphores` decides by whether a semaphore is nil, not by what the request
holds; that it gives back exactly the latter is `PermitsGivenBack`, which needs the
phases, and only with it do the counters stay natural numbers.  `ServedWithinLimits` is
then a matter of cardinalities: who is served holds a permit.  Proved:
`ProxyTypeCorrect`, `ProxyPermitsCorrect`, `LimitsHold`, `PermitsReturned`, and `PermitShared`
(`ViewersSharePermit`): what plays was asked for (`FeedsWanted`), a source is
only refused while as many other streams of its subscription play as that has permits
(`LimitedIsContended`), and what was asked for stays so (`ContendedStays`).

`HttpCacheProofs`.  For any fetches, versions and crashes.  `CacheInv` adds `Inodes` to
the types: a name or an open file refers to an inode that was made, and a cleanup under
way has something left to remove; with it `CacheTypeCorrect` holds for any number of
parallel fetches.  That what is served is whole does not (`CacheRace`), so `SerialWhole`
and `SerialRenewed` assume `Parallel = 1`, with the cleaner and crashes between any two
file operations: `SerialInv` says what each file is worth at each of them.  `Bodies`: the
entry's body is whole, and the temporary name is that of the fetch under way.  `Dated`:
metadata never claims a newer version than the body beside it.  This orders the code's
steps: the old metadata may stand beside the new body for a moment, or after a crash, but
never the other way round, and only therefore is a 304 about the body on the disk.
`Confirmed`: a fetch serves at least the version that the origin confirmed to it.

`EpgStreamerProofs`.  For any number of sources, any contents, playlist, names, batch
size and hash (collisions of ids included).  `EpgInv` consists of the types;
`BatchHasRoom` (without which a batch might outgrow its bound); `ReadAhead` (what is
buffered was read from that source); `Bookkeeping` (the maps say exactly what was
written); `MappedByName`; and the two results `WellFormed` and `ChannelsNotMixed`.
`WellFormed` needs `Bookkeeping`, as the code decides by its maps; `ChannelsNotMixed`
needs `MappedByName`, which holds because names of a written channel never change.
Proved: `EpgTypeCorrect`, `EpgDecodersExclusive`, `EpgWellFormed`,
`EpgChannelsNotMixed`.

`NothingLost` needs more, `CompleteInv`: every channel ahead of a source's first
programme is still ahead of the parser, or in one of the two buffers with no programme
before it, or handled (`ChannelsKept`); every programme the same, and handled only when
all channels are (`ProgrammesKept`); a goroutine that returned left its batch empty, and
the end of a source was met at its end (`Drained`); `addedProgrammes` has nothing that
was not written (`Recorded`).  Putting the first programme back behind those read ahead
keeps all this, since only the order of programmes changes.  Proved: `EpgComplete`.

`ChannelMergeProofs`.  For any store, with any ids, priorities, removed channels and
playlists, under `MergeSpec`, the loop of `Process` by itself.  `MergeInv` adds to the
results that the two maps agree: `Tracked` (what is found by an id is a channel of the
result with this id), `Findable` (every channel of the result is found by its id, unless
the id is a URL and was rewritten), `Behind` (the sources collected so far are channels
already met) and `Unlinked`.  Without `Findable` a third channel of an id might start a
channel of its own, and without `Tracked` a replacement might take the streams of
another.  Proved: `MergeTypeCorrect`, `OneChannelCorrect`, `EverySourceCorrect`,
`BestSourceCorrect`.

`PlaylistStreamerProofs`.  For any number of sources, any listings, clients, rules,
batch size, hash and order of chunks; `ListingsAssumption`, `ClientsAssumption`,
`ConditionsAssumption`, `ChunksAssumption` and `TagsAssumption` say of what types these
are and nothing else; `PartsAssumption`, `FoundAssumption` and `LinesAssumption` the same of
what becomes of a value in a line, and that a line `#key:value` is no URI, an empty URI
none either, and no attributes no text; `TrackAssumption` that no track is `Absent`.  `PlaylistInv` says that decoders yield
tracks (`DecodersTyped`), that the request's phases and counters are in range (`PhasesTyped`), and that the store
holds channels whatever a rule does to it, has a fresh merge until merging starts, and
then keeps `MergeInv` (`StoreKept`).  The last needs the operators: a lemma for each kind
of rule says that it takes channels to channels, changes no playlist, and fails or keeps
the store's length.  Proved from it:
- `MergedCorrect`: `OneChannelPerID`, `EverySourceOnce` and `BestSourceFirst` in the
  request as a whole, after any rules;
- `SortCorrect` (`SortConsistent`): `sort.Slice` gets a strict weak order.  Natural
  comparison is shown to be the lexical order of sequences of codes (`Codes`, `Precedes`:
  numbers first, then characters, a number beyond `MaxInt` counted as 0), the place in
  an `order` is a number, and the comparison of groups and of channels is the lexical
  product of these;
- `DedupCorrect` (`DedupKeepsBest`): groups of duplicates do not share channels, so what
  is done to one does not undo another, and the best of each stays.

`ReadInv` is about completeness: `SourceRead` (what a decoder has parsed is in its
buffers or taken, and the end of a source is met at its end), `InTurn` (decoders that
the consumer has left are drained), and `Counted` (the store has one channel of each
playlist for each track taken of its sources, as neither rules nor the merge change how
many there are).  Proved: `AllSourcesCorrect`.

`WriteInv` is about what another majmun reads of the answer.  `Told`: a decoder that has
read the lines in `out` has the items that it reads of each channel by itself, for those
that are no longer unwritten, in the order of the result (`AloneUpTo`); `LastOnes`: the
unwritten channels are the end of the result.  `Broken`: after a failed write it has the
beginning of what all channels give.  The induction over lines is in lemmas about
`M3uListing` alone.  A run of the decoder (`DecoderRun`) is a function from line numbers to
states; a line changes the track by the track alone (`TrackAfter`) and adds an item or
none (`Yields`), and the first line of each track is an `#EXTINF`, broken or not; so lines
of a track are read in the same way whatever was read before (`ReadAnywhere`), and one
channel cannot change what is read of another, even if its URI is empty or its tags look
like tracks.  Lines only ever add items (`DecodeGrows`), so what is read of the first
lines begins what is read of all (`FirstRead`), and the line that is cut off may add one.
`LegibleRead` says what is read of a channel whose link is a URI and whose tags begin no
track, for any number of tags in any order: its link, and its attributes, name and tags as
far as quotes, commas and the white list leave them.  Proved: `ReadsBackCorrect`
(`ReadsBack`).

`AccessProofs`.  For any configurations in any number of files, any clients, links,
requests and restarts.  The assumptions say of what types the files are (a field that a
file sets keeps the configuration's type), that what is offered has sources, playlists if
it is a stream (`OffersAssumption`), and that under one salt different secrets give
different keys (`KeysAssumption`).
`ConfigInv`: the configuration is the default one or has passed `Validate`, file by file.
From it: `OverridesHold`, on top of `MergeOverrides`, which says of the fold of
`mergeProxies` over three levels which level decides each field; `AcceptedStarts`;
`CachesExpire`.  `LinksInv` and `ViewersInv`: links have sources, of streams only
playlists; a viewer that is copied has, while the server is up, the provider that it is
copied from.  From these `LinksOpen` (`LinkHonoured`) and `OwnPlaylists`
(`OwnPlaylistsOnly`), where the first client whose key opens a link must be the one that
it was made for.  `GaugeInv`: each label counts its viewers, and only a label at zero has
a time since when; hence the cleanup removes no live one.  Proved: `GaugeCounts`.

Only model-checked: all liveness properties (`EndedStreamIsFreed`, `AdmittedCallReturns`,
`RequestsAnswered`, `GarbageCollected`, `RequestReturns`, `IdleLabelsGone`), since
liveness under fairness and ENABLED are out of the prover's reach.  `CachedIsWhole` and
`RenewedIsCurrent` for concurrent fetches are neither, as the code does not promise them.
Where the code disagrees with its docs there is no theorem, but a run or a note in 6.

## 6. Where the code and its docs disagree

With a run that keeps the counterexample:

- `PoolWaitEnds` (`streampool.go:72`): a viewer that joined a segmenter whose creator
  then gets no permit waits until it leaves, since nothing signals ready and
  `ready_timeout` never started.
- `PoolDirRace` (`segmenter_pool.go:46`): `remove` cleans up after the lock is released,
  and may delete the directory of the next segmenter of the same stream.
- `ProxyPermitLeak` (`semaphore.go:43`): if one of the two acquisitions fails the permit
  of the other is never given back.
- `CacheRace` (`reader.go:123`): concurrent downloads of one URL share a temporary name;
  one may publish the unfinished body of the other.

In the models too, but without a run:

- `app/utils.go:88`: for each kind of error, the common handler of all levels so far is
  merged before what the kind has gathered, common handlers of farther levels included.
  Where the global block sets `error.command` (the defaults always do), that of a playlist
  or a client is never used (`docs/config/proxy.md:15`, `docs/config/proxy/error.md:41`);
  what it sets for a kind itself does override, which is what `OverridesWin` asks for.
- `streampool.go:80`: a viewer may find a segmenter before its last viewer leaves and be
  counted after; it has then joined a stream that is being stopped.
  `NoViewerCutOff` is therefore about viewers that had joined.
- `segmenter.go:78`: a process that exits without an error, or is killed, signals ready;
  its clients start reading with fewer than `init_segments` segments
  (`docs/config/proxy/segmenter.md:26`).
- `app.go:145`: the semaphore of a playlist is made for each client of it, so the
  playlist's concurrency limits each client and not the subscription.  `Subs` are thus
  pairs of client and playlist.
- `stream.go:173`: a source that fails to start counts neither as a limit nor as an
  upstream error; if all do, the client gets 502 instead of the `upstream_error` stream
  (`docs/config/proxy/error.md:11`).
- `reader.go:187`: an ETag is stored as `ETag` and looked up as `Etag`, so it is never
  sent; in `HttpCache` the headers of an entry have no ETag.
- `streaming.go:84`: reading ahead that is started again overwrites an earlier error, so
  that whether a rejected element fails the EPG depends on when it was met.
- `xmltv/streamer.go:118`: the first programme is put behind those already read ahead,
  so programmes may be written in another order than the source's.
- `xmltv/streamer.go:183`: the first candidate id decides.  A channel whose id belongs to
  another channel is dropped even if its display name is one of the playlist's.
- `processor.go:101`: behind the first, the sources of a channel are in the order in which
  they were met, not by priority.
- `processor.go:108`: a better source that takes over a channel brings its own
  attributes, which are not rewritten to links, unlike those of a channel that is first.
- A winner whose playlist is not proxied is written with its own URI, and its fallbacks,
  proxied or not, are lost.
- `rules/channel/processor.go:118`: `remove_field` on a tag deletes the attribute of that
  name and leaves the tag.
- `rules/playlist/`: removed channels take part in the search for duplicates and may be
  the best of their group, so that a rule may remove every visible channel of it;
  `DedupKeepsBest` is about groups without removed channels.
- `pattern_matcher.go:111`: a pattern that matches a whole name leaves an empty base name,
  under which unrelated channels become duplicates of each other.
- `parser/m3u8/decoder.go:88`: an empty line is skipped, so that a channel whose URI a rule
  has set to the empty string (`url.Parse` accepts it) is written and lost by the reader; so
  is one whose URI begins with `#`.  The channels beside it are not touched.
- `parser/m3u8/decoder.go:156`: the name is what follows the last comma of the whole line.
  A name with a comma is read back without what is in front of it, and a channel
  without a name whose attributes have a comma gets a piece of them as its name
  (`encoder.go:84` writes no comma then).
- `parser/m3u8/encoder.go:77`: quotes in a value are written as they are and cut the
  value short, and a tag that a rule sets may be named `EXTINF`: its line fails the reader or
  begins another track.
- `parser/m3u8/decoder.go:85`: the scanner yields a last line that was not ended.  If the
  connection breaks within a URI, the reader gets the channel with another link, or
  an error; `ReadsBack` allows one such entry behind the ones that are right.
- `parser/m3u8/encoder.go:72`: lengths are written with six digits, longer ones with an
  exponent, of which the reader takes the first digits.
- `middleware.go:83`: `Decrypt` returns no data with the error of an expired link, so that
  the `link_expired` stream is never sent; the request is unauthorized.
- `middleware.go:112`: only the first source of a link is looked up; a link whose first
  playlist is gone is refused although its fallbacks could play.
- `loader.go`: the files of a directory are validated one by one, so that a file that
  refers to what a later one defines is not accepted.
- `client.go:119`: a cache that is enabled for a playlist or a client is not used if the
  global one is disabled.
- `config.go`: commands that are no templates pass `Validate` and fail `NewManager`;
  `ValidConfigStarts` excepts them.
- `defaults.go:26`: stream links live 30 days; the documentation says 7.
- `handlers.go:208`: stream keys are the first four bytes of a hash.  Two channels with
  the same ones would share a segmenter; keys are taken to be different here.

## 7. What is left out

Bytes, text and timing: segments are counted, not read; bodies are whole, partial or
torn; durations are "may pass at any time".  In `HttpCache` metadata is written at
once and a body's end is its EOF; concurrent requests are for one entry, since
entries share nothing but the cleaner's pass, whose errors are modelled by passes that
end early.  In `EpgStreamer` icons, gzip and the rewriting of the display name are left
out, a programme's key is the triple of its parts (the code concatenates them), and
sources have different URLs; an encoder that fails is a client that has gone.  In
`StreamProxy` a reader's content is empty or not.  In `M3uListing` values are without line
breaks, lines are no longer than the scanner takes, and lengths are left out.  In `PlaylistRules` white space is not
normalised, and regular expressions are functions on the instance's values.  In `Access`
encryption is right: a link opens with the key it was made with and no other.

Not modelled: `GetAllChannels` and with it the composition of the playlist's channels
with the EPG (`EpgStreamer` takes the channels as a constant); the body of a proxied
file, a plain copy; the fields of XMLTV, copied one by one; `Set`, `Add` and `Collect` of
the gauge and the plain counters; templates and process groups of the shell, operating
system calls; logging, context values and wrappers of readers, which keep no state of
their own.  `PROJECT.json` calls the components that have such parts `partly` modelled.

## 8. What could follow

- A composition of `StreamProxy` with `StreamPool` in place of `feed`, for the refinement
  of the part of the pool that the proxy sees.
- `GetAllChannels` between `PlaylistStreamer` and `EpgStreamer`.
- Abstract specifications: of the cache, a register that holds the last whole download;
  of the EPG, channels and programmes as a function of the sources.
- Theorems: the types of `PlaylistStreamer` and `Access` in full.
