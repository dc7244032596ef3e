--------------------------------- MODULE Access ---------------------------------
(***************************************************************************)
(* Who gets in: the server is started from its configuration, makes links  *)
(* for its clients, and opens them later, perhaps after it was started     *)
(* again from another configuration (app/app.go, app/client.go,            *)
(* server/middleware.go, urlgen/urlgen.go).  Viewers of an opened stream   *)
(* are counted by a gauge.                                                 *)
(***************************************************************************)
EXTENDS Configuration, AutoCleanGauge

CONSTANTS
    BadCommands,   \* those of Commands that text/template does not parse
    ConfigFiles,   \* sequences of files the server may be started from
    Offers,        \* what links are made for: [type, channel, sources]
    Requests,
    MaxLinks,      \* bounds the links there are at a time
    MaxAge         \* ages of links, in days, count up to it

Source == [type : {"playlist", "epg"}, name : Names, hidden : BOOLEAN]
Viewer == [channel : Names, sources : Seq(Source), client : Nat, source : Nat,
           copying : BOOLEAN]

ASSUME AccessAssumption ==
    /\ BadCommands \subseteq Commands
    /\ IsFiniteSet(Requests) /\ Absent \notin Viewer
    /\ MaxLinks \in Nat /\ MaxAge \in Nat

Files == UNION {ToSet(files) : files \in ConfigFiles}

\* Each element of a file fits into a configuration.
ASSUME FilesAssumption ==
    /\ ConfigFiles \subseteq Seq(Files)
    /\ DefaultConfig \in Config
    /\ \A file \in Files : \A k \in DOMAIN file :
          k \in DOMAIN DefaultConfig /\ [DefaultConfig EXCEPT ![k] = file[k]] \in Config

\* createStream, proxyChannelAttributes: a stream comes from playlists.
ASSUME OffersAssumption ==
    \A o \in Offers :
        /\ o \in [type : {"stream", "file"}, channel : Names, sources : Seq(Source)]
        /\ o.sources # <<>>
        /\ o.type = "stream" => \A k \in DOMAIN o.sources : o.sources[k].type = "playlist"

\* A salt leaves different secrets different.
ASSUME KeysAssumption ==
    \A salt \in Salts, s, t \in Secrets : salt \o s = salt \o t => s = t

VARIABLES
    server,    \* "down", "loading", "loaded", "up", or "failed": NewManager returned an error
    config,
    unread,    \* the files that Load has yet to read
    links,     \* those somebody holds; they outlive the server
    viewers    \* the requests for streams that were let in

accessVars == <<server, config, unread, links, viewers>>
vars == <<accessVars, gaugeVars>>

\* A token, and beside what it holds, whom it was made for.
Keys == {salt \o secret : salt \in Salts, secret \in Secrets}
Link == [key : Keys, type : {"stream", "file"}, channel : Names, sources : Seq(Source),
         age : 0 .. MaxAge, madeFor : Names]

TypeOK ==
    /\ server \in {"down", "loading", "loaded", "up", "failed"}
    /\ config \in Config
    /\ links \subseteq Link /\ Cardinality(links) <= MaxLinks
    /\ \A r \in Requests : viewers[r] # Absent =>
          /\ server = "up"
          /\ viewers[r].client \in DOMAIN config.clients
          /\ viewers[r].source \in 1 .. Len(viewers[r].sources) + 1
    /\ GaugeTypeOK

Init ==
    /\ server = "down" /\ config = DefaultConfig /\ unread = <<>>
    /\ links = {} /\ viewers = [r \in Requests |-> Absent]
    /\ GaugeInit

-----------------------------------------------------------------------------
(* The manager, its clients and their providers. *)

\* initClientProviders: a client that names none has all of them.
ProvidersOf(i, type) ==
    LET client == config.clients[i]
        named == IF type = "playlist" THEN client.playlists ELSE client.epgs
        all == IF type = "playlist" THEN config.playlists ELSE config.epgs IN
    {k \in DOMAIN all : named = <<>> \/ all[k].name \in ToSet(named)}

ConfOf(type) == IF type = "playlist" THEN config.playlists ELSE config.epgs

\* BuildPlaylistProvider, BuildEPGProvider
MergedProxy(i, type, k) ==
    mergeProxies(config.proxy, ConfOf(type)[k].proxy, config.clients[i].proxy)

\* Mutant: every provider there is.
GetConfigured(i, source) ==
    LET found == {k \in DOMAIN ConfOf(source.type) : ConfOf(source.type)[k].name = source.name} IN
    IF found = {} THEN 0 ELSE Min(found)

\* Client.GetProvider, or 0.
GetProvider(i, source) ==
    LET found == {k \in ProvidersOf(i, source.type) : ConfOf(source.type)[k].name = source.name} IN
    IF found = {} THEN 0 ELSE Min(found)

\* NewPlaylistProvider: the commands of a playlist are templates.
Parses(proxy) ==
    \A h \in ErrorKinds \cup {"stream"} : proxy.handlers[h].command \notin BadCommands

\* NewManager: every client has a secret, its providers exist, and can be built.
NewManager ==
    \A i \in DOMAIN config.clients :
        /\ config.clients[i].secret # ""
        /\ ToSet(config.clients[i].playlists) \subseteq Named(config.playlists)
        /\ ToSet(config.clients[i].epgs) \subseteq Named(config.epgs)
        /\ \A k \in ProvidersOf(i, "playlist") : Parses(MergedProxy(i, "playlist", k))

\* newHTTPClient: there is a store only if the global cache is enabled.
UsesCache(proxy) == CacheEnabled(config.proxy) /\ CacheEnabled(proxy)

\* Manager.Client: of clients with one secret the last, or 0.
Client(secret) ==
    LET found == {i \in DOMAIN config.clients : config.clients[i].secret = secret} IN
    IF found = {} THEN 0 ELSE Max(found)

\* createURLGenerator
Key(i) == config.salt \o config.clients[i].secret

\* A process is started; Load reads one file after the other.
LoadConfig ==
    /\ server \in {"down", "failed"}
    /\ server' = "loading"
    /\ config' = DefaultConfig
    /\ unread' \in ConfigFiles
    /\ UNCHANGED <<links, viewers, gaugeVars>>

\* Each is validated with those before it: the first one alone, too.
ReadFile ==
    /\ server = "loading" /\ unread # <<>>
    /\ LET read == DecodeFile(config, Head(unread)) IN
       Validate(read) /\ config' = read
    /\ unread' = Tail(unread)
    /\ UNCHANGED <<server, links, viewers, gaugeVars>>

\* A file cannot be read, or is not accepted: the process ends.
LoadFails ==
    /\ server = "loading" /\ unread # <<>>
    /\ server' = "down"
    /\ unread' = <<>>
    /\ UNCHANGED <<config, links, viewers, gaugeVars>>

Loaded ==
    /\ server = "loading" /\ unread = <<>>
    /\ server' = "loaded"
    /\ UNCHANGED <<config, unread, links, viewers, gaugeVars>>

Start ==
    /\ server = "loaded"
    /\ server' = IF NewManager THEN "up" ELSE "failed"
    /\ UNCHANGED <<config, unread, links, viewers, gaugeVars>>

\* The process ends, with its gauge and all requests.
Exit ==
    /\ server = "up"
    /\ server' = "down"
    /\ viewers' = [r \in Requests |-> Absent]
    /\ values' = << >> /\ zeroAge' = << >>
    /\ UNCHANGED <<config, unread, links>>

-----------------------------------------------------------------------------
(* Links are made when a client asks for its playlist or its EPG. *)

\* The first source decides whether there is a link; the others may be any.
LinksFor(i) ==
    {o \in Offers :
        /\ \A k \in DOMAIN o.sources : GetProvider(i, o.sources[k]) # 0
        /\ IsProxied(MergedProxy(i, o.sources[1].type, GetProvider(i, o.sources[1])))}

\* clientAuthMiddleware, then CreateStreamURL or CreateFileURL.
GetListing ==
    /\ server = "up"
    /\ Cardinality(links) < MaxLinks
    /\ \E secret \in Secrets \ {""} :
          LET i == Client(secret) IN
          /\ i # 0
          /\ \E o \in LinksFor(i) :
                links' = links \cup
                    {[key |-> Key(i), type |-> o.type, channel |-> o.channel, age |-> 0,
                      sources |-> o.sources, madeFor |-> config.clients[i].name]}
    /\ UNCHANGED <<server, config, unread, viewers, gaugeVars>>

Forget ==
    /\ \E l \in links : links' = links \ {l}
    /\ UNCHANGED <<server, config, unread, viewers, gaugeVars>>

Day ==
    /\ links' = {[l EXCEPT !.age = IF @ < MaxAge THEN @ + 1 ELSE @] : l \in links}
    /\ UNCHANGED <<server, config, unread, viewers, gaugeVars>>

-----------------------------------------------------------------------------
(* Links are opened. *)

TTL(l) == IF l.type = "stream" THEN config.streamTTL ELSE config.fileTTL

Expired(l) == TTL(l) > 0 /\ l.age > TTL(l)

\* getProviderFromData
HasProvider(i, l) == GetProvider(i, l.sources[1]) # 0

\* Clients are asked in turn.  One that can decrypt the link lets it in, or goes on if
\* the file link has expired or its provider is gone; an expired stream is refused for
\* good: Decrypt returns no data with that error, and so no provider is found for it.
Decides(i, l) ==
    /\ l.key = Key(i)
    /\ IF Expired(l) THEN l.type = "stream" ELSE HasProvider(i, l)

\* proxyAuthMiddleware: the client that the link is opened for, or 0 (unauthorized).
proxyAuth(l) ==
    LET deciding == {i \in DOMAIN config.clients : Decides(i, l)} IN
    IF deciding = {} \/ Expired(l) THEN 0 ELSE Min(deciding)

\* handleProxy; a file is sent and changes nothing.
Open(r) ==
    /\ server = "up"
    /\ viewers[r] = Absent
    /\ \E l \in links :
          /\ proxyAuth(l) # 0 /\ l.type = "stream"
          /\ viewers' = [viewers EXCEPT ![r] =
                [channel |-> l.channel, sources |-> l.sources, client |-> proxyAuth(l),
                 source |-> 1, copying |-> FALSE]]
    /\ UNCHANGED <<server, config, unread, links, gaugeVars>>

Current(v) == v.sources[v.source]
Label(v) == <<config.clients[v.client].name, Current(v).name, v.channel>>

Trying(r) == viewers[r] # Absent /\ ~viewers[r].copying
Copying(r) == viewers[r] # Absent /\ viewers[r].copying
HasSource(r) == viewers[r].source <= Len(viewers[r].sources)

NextSource(r) == viewers' = [viewers EXCEPT ![r].source = @ + 1, ![r].copying = FALSE]
Leave(r) == viewers' = [viewers EXCEPT ![r] = Absent]

\* tryAllStreams: no provider, or no reader for it: the permits are taken, the client is
\* over its limit or the segmenter fails.
SourceFails(r) ==
    /\ Trying(r) /\ HasSource(r)
    /\ NextSource(r)
    /\ UNCHANGED <<server, config, unread, links, gaugeVars>>

\* streamToResponse; hidden channels are not counted.
StartCopy(r) ==
    /\ Trying(r) /\ HasSource(r)
    /\ GetProvider(viewers[r].client, Current(viewers[r])) # 0
    /\ viewers' = [viewers EXCEPT ![r].copying = TRUE]
    /\ IF Current(viewers[r]).hidden THEN UNCHANGED gaugeVars ELSE Inc(Label(viewers[r]))
    /\ UNCHANGED <<server, config, unread, links>>

\* The stream ends; an empty one is followed by the next source.
EndCopy(r) ==
    /\ Copying(r)
    /\ Leave(r) \/ NextSource(r)
    /\ IF Current(viewers[r]).hidden THEN UNCHANGED gaugeVars ELSE Dec(Label(viewers[r]))
    /\ UNCHANGED <<server, config, unread, links>>

\* All sources failed: all are tried again (StreamProxy says how often), or an error is sent.
AllFailed(r) ==
    /\ Trying(r) /\ ~HasSource(r)
    /\ Leave(r) \/ viewers' = [viewers EXCEPT ![r].source = 1]
    /\ UNCHANGED <<server, config, unread, links, gaugeVars>>

-----------------------------------------------------------------------------
GaugeTick == server = "up" /\ GaugeAges /\ UNCHANGED accessVars
Cleanup == server = "up" /\ performCleanup /\ UNCHANGED accessVars

Next ==
    \/ LoadConfig \/ ReadFile \/ LoadFails \/ Loaded \/ Start \/ Exit
    \/ GetListing \/ Forget \/ Day \/ GaugeTick \/ Cleanup
    \/ \E r \in Requests :
          Open(r) \/ SourceFails(r) \/ StartCopy(r) \/ EndCopy(r) \/ AllFailed(r)

Spec == Init /\ [][Next]_vars

\* The ticker of the gauge runs.
FairSpec == Spec /\ WF_vars(GaugeTick) /\ WF_vars(Cleanup)

-----------------------------------------------------------------------------
ConfiguredProxies ==
    {config.proxy} \cup {config.playlists[k].proxy : k \in DOMAIN config.playlists}
                   \cup {config.clients[i].proxy : i \in DOMAIN config.clients}

\* Config.Validate: what it accepts, NewManager can be made of, unless a command is no
\* template.
ValidConfigStarts ==
    server = "failed" =>
        \E p \in ConfiguredProxies, h \in HandlerNames : p.handlers[h].command \in BadCommands

AllProviders ==
    {p \in (DOMAIN config.clients) \X {"playlist", "epg"}
              \X ((DOMAIN config.playlists) \cup (DOMAIN config.epgs)) :
        p[3] \in ProvidersOf(p[1], p[2])}

\* mergeProxies: for every provider of every client, what the configuration says
\* closest to the client holds.
ConfigOverrides ==
    server = "loaded" =>
        \A p \in AllProviders : OverridesWin(
            config.proxy, ConfOf(p[2])[p[3]].proxy, config.clients[p[1]].proxy)

\* ValidateProxyOverride: whatever the levels override, responses are not cached
\* without a time to live, which would renew every one of them on each request.
CachedHasTTL ==
    server = "loaded" =>
        \A p \in AllProviders :
            LET merged == MergedProxy(p[1], p[2], p[3]) IN
            UsesCache(merged) => merged.set["ttl"] \notin {Absent, 0}

\* proxyAuthMiddleware: a link opens for the client it was made for, no matter how
\* often the server was started again, as long as the client keeps its secret and the
\* first playlist of the link, and the link is not too old.
LinkHonoured ==
    server = "up" =>
        \A l \in links, i \in DOMAIN config.clients :
            /\ config.clients[i].name = l.madeFor
            /\ config.salt \o config.clients[i].secret = l.key
            /\ \E k \in ProvidersOf(i, l.sources[1].type) :
                  ConfOf(l.sources[1].type)[k].name = l.sources[1].name
            /\ LET ttl == IF l.type = "stream" THEN config.streamTTL ELSE config.fileTTL IN
               ttl = 0 \/ l.age <= ttl
            => proxyAuth(l) = i

\* tryAllStreams: nobody watches a playlist that the client does not have, even by an
\* old link or as a fallback.
OwnPlaylistsOnly ==
    \A r \in Requests : Copying(r) =>
        LET named == config.clients[viewers[r].client].playlists IN
        Current(viewers[r]).name \in
            IF named = <<>> THEN Named(config.playlists) ELSE ToSet(named)

Counted(r) == Copying(r) /\ ~Current(viewers[r]).hidden

\* IncClientStreamsActive, performCleanup: the gauge shows the viewers there are, also
\* when a label is used again before or after it was cleaned up.
GaugeCountsViewers ==
    \A l \in Labels :
        Value(l) = Cardinality({r \in Requests : Counted(r) /\ Label(viewers[r]) = l})

\* cleanupRoutine: a label that nobody watches does not stay.
IdleLabelsGone == \A l \in Labels : []<>(l \notin DOMAIN values \/ Value(l) > 0)
=============================================================================
