----------------------------- MODULE AccessProofs -----------------------------
(***************************************************************************)
(* What an accepted configuration guarantees the server, its clients and   *)
(* the holders of their links, and what the gauge shows of the viewers,    *)
(* for every set of files, offers and requests.                            *)
(***************************************************************************)
EXTENDS Access, FiniteSetTheorems, SequenceTheorems, DataInduction

-----------------------------------------------------------------------------
(* Merging proxies. *)

\* One level: what it sets holds, and what it does not set is left alone.
LEMMA LevelWins ==
  ASSUME NEW result, NEW p
  PROVE  LET merged == mergeLevel(result, p) IN
         /\ \A f \in Settings : merged.set[f] = Override(result.set[f], p.set[f])
         /\ \A h \in HandlerNames :
               /\ p.handlers[h].command # Absent =>
                     merged.handlers[h].command = p.handlers[h].command
               /\ p.handlers[h].command = Absent /\ result.handlers[h].command # Absent =>
                     merged.handlers[h].command = result.handlers[h].command
         /\ \A h \in HandlerNames, n \in VarNames :
               /\ p.handlers[h].vars[n] # Absent =>
                     merged.handlers[h].vars[n] = p.handlers[h].vars[n]
               /\ p.handlers[h].vars[n] = Absent /\ result.handlers[h].vars[n] # Absent =>
                     merged.handlers[h].vars[n] = result.handlers[h].vars[n]
  BY DEF mergeLevel, mergeErrors, mergeHandler, MergeNameValues, Override

\* mergeProxies: whatever the three levels set, the last of them that sets a field,
\* a command or a variable decides what it is.
THEOREM MergeOverrides ==
  ASSUME NEW global, NEW provider, NEW client
  PROVE  OverridesWin(global, provider, client)
  <1> DEFINE one == mergeLevel(NoProxy, global)
             two == mergeLevel(one, provider)
             three == mergeLevel(two, client)
  <1>1. \A f \in Settings : NoProxy.set[f] = Absent
    BY DEF NoProxy
  <1>2. mergeProxies(global, provider, client) = three
    BY DEF mergeProxies
  <1> HIDE DEF one, two, three
  <1>3. \A f \in Settings :
          three.set[f] = LastSet(global.set[f], provider.set[f], client.set[f])
    <2>1. \A f \in Settings : one.set[f] = Override(NoProxy.set[f], global.set[f])
      BY LevelWins DEF one
    <2>2. \A f \in Settings : two.set[f] = Override(one.set[f], provider.set[f])
      BY LevelWins DEF two
    <2>3. \A f \in Settings : three.set[f] = Override(two.set[f], client.set[f])
      BY LevelWins DEF three
    <2>4. QED
      BY <1>1, <2>1, <2>2, <2>3 DEF LastSet, Override
  <1>4. ASSUME NEW h \in HandlerNames
        PROVE  LET command == LastSet(global.handlers[h].command,
                                  provider.handlers[h].command, client.handlers[h].command)
               IN command # Absent => three.handlers[h].command = command
    <2>1. global.handlers[h].command # Absent =>
            one.handlers[h].command = global.handlers[h].command
      BY LevelWins DEF one
    <2>2. /\ provider.handlers[h].command # Absent =>
                two.handlers[h].command = provider.handlers[h].command
          /\ provider.handlers[h].command = Absent /\ one.handlers[h].command # Absent =>
                two.handlers[h].command = one.handlers[h].command
      BY LevelWins DEF two
    <2>3. /\ client.handlers[h].command # Absent =>
                three.handlers[h].command = client.handlers[h].command
          /\ client.handlers[h].command = Absent /\ two.handlers[h].command # Absent =>
                three.handlers[h].command = two.handlers[h].command
      BY LevelWins DEF three
    <2>4. QED
      BY <2>1, <2>2, <2>3 DEF LastSet, Override
  <1>5. ASSUME NEW h \in HandlerNames, NEW n \in VarNames
        PROVE  LET var == LastSet(global.handlers[h].vars[n],
                              provider.handlers[h].vars[n], client.handlers[h].vars[n])
               IN var # Absent => three.handlers[h].vars[n] = var
    <2>1. global.handlers[h].vars[n] # Absent =>
            one.handlers[h].vars[n] = global.handlers[h].vars[n]
      BY LevelWins DEF one
    <2>2. /\ provider.handlers[h].vars[n] # Absent =>
                two.handlers[h].vars[n] = provider.handlers[h].vars[n]
          /\ provider.handlers[h].vars[n] = Absent /\ one.handlers[h].vars[n] # Absent =>
                two.handlers[h].vars[n] = one.handlers[h].vars[n]
      BY LevelWins DEF two
    <2>3. /\ client.handlers[h].vars[n] # Absent =>
                three.handlers[h].vars[n] = client.handlers[h].vars[n]
          /\ client.handlers[h].vars[n] = Absent /\ two.handlers[h].vars[n] # Absent =>
                three.handlers[h].vars[n] = two.handlers[h].vars[n]
      BY LevelWins DEF three
    <2>4. QED
      BY <2>1, <2>2, <2>3 DEF LastSet, Override
  <1>6. QED
    BY <1>2, <1>3, <1>4, <1>5 DEF OverridesWin

\* A level's command is its own, its common one for errors, or one it was given.
LEMMA LevelCommand ==
  ASSUME NEW result, NEW p, NEW h \in HandlerNames
  PROVE  mergeLevel(result, p).handlers[h].command \in
             {p.handlers[h].command, p.handlers["error"].command,
              result.handlers[h].command, result.handlers["error"].command}
  BY DEF mergeLevel, mergeErrors, mergeHandler, Override

\* No command is made up.
LEMMA MergedCommand ==
  ASSUME NEW global, NEW provider, NEW client, NEW h \in HandlerNames,
         NEW Bad, Absent \notin Bad,
         mergeProxies(global, provider, client).handlers[h].command \in Bad
  PROVE  \E p \in {global, provider, client}, g \in HandlerNames :
            p.handlers[g].command \in Bad
  <1> DEFINE one == mergeLevel(NoProxy, global)
             two == mergeLevel(one, provider)
             three == mergeLevel(two, client)
  <1>1. "error" \in HandlerNames
    BY DEF HandlerNames
  <1>2. \A g \in HandlerNames : NoProxy.handlers[g].command = Absent
    BY DEF NoProxy, NoHandler
  <1>3. three.handlers[h].command \in Bad
    BY DEF mergeProxies
  <1> HIDE DEF one, two, three
  <1>4. \A g \in HandlerNames : one.handlers[g].command \in
            {global.handlers[g].command, global.handlers["error"].command, Absent}
    BY <1>1, <1>2, LevelCommand DEF one
  <1>5. \A g \in HandlerNames : two.handlers[g].command \in
            {provider.handlers[g].command, provider.handlers["error"].command,
             one.handlers[g].command, one.handlers["error"].command}
    BY LevelCommand DEF two
  <1>6. three.handlers[h].command \in
            {client.handlers[h].command, client.handlers["error"].command,
             two.handlers[h].command, two.handlers["error"].command}
    BY LevelCommand DEF three
  <1>7. CASE three.handlers[h].command \in
                {client.handlers[h].command, client.handlers["error"].command}
    BY <1>1, <1>3, <1>7
  <1>8. CASE \E g \in {h, "error"} : three.handlers[h].command = two.handlers[g].command
    <2>1. PICK g \in HandlerNames : two.handlers[g].command \in Bad
      BY <1>1, <1>3, <1>8
    <2>2. CASE two.handlers[g].command \in
                  {provider.handlers[g].command, provider.handlers["error"].command}
      BY <1>1, <2>1, <2>2
    <2>3. CASE \E k \in {g, "error"} : two.handlers[g].command = one.handlers[k].command
      <3>1. PICK k \in HandlerNames : one.handlers[k].command \in Bad
        BY <1>1, <2>1, <2>3
      <3>2. QED
        BY <1>1, <1>4, <3>1
    <2>4. QED
      BY <1>5, <2>1, <2>2, <2>3
  <1>9. QED
    BY <1>6, <1>7, <1>8
-----------------------------------------------------------------------------
(* Loading. *)

\* What Load has accepted; before the first file, it is the default.
ConfigInv ==
    /\ config \in Config
    /\ config = DefaultConfig \/ Validate(config)
    /\ unread \in Seq(Files)
    /\ server = "failed" => ~NewManager

\* Lists of a configuration have indices.
LEMMA ConfigLists ==
  ASSUME config \in Config
  PROVE  /\ Len(config.clients) \in Nat
         /\ DOMAIN config.clients = 1 .. Len(config.clients)
         /\ \A i \in DOMAIN config.clients : config.clients[i] \in ClientConf
         /\ \A type \in {"playlist", "epg"} :
               /\ DOMAIN ConfOf(type) \subseteq Nat \ {0}
               /\ \A k \in DOMAIN ConfOf(type) : ConfOf(type)[k] \in Provider
  <1>1. config.clients \in Seq(ClientConf)
    BY DEF Config
  <1>2. config.playlists \in Seq(Provider) /\ config.epgs \in Seq(Provider)
    BY DEF Config
  <1>3. \A s \in Seq(Provider) :
          DOMAIN s \subseteq Nat \ {0} /\ \A k \in DOMAIN s : s[k] \in Provider
    OBVIOUS
  <1>4. \A type \in {"playlist", "epg"} : ConfOf(type) \in Seq(Provider)
    BY <1>2 DEF ConfOf
  <1>5. QED
    BY <1>1, <1>3, <1>4

\* What is read from a file is a configuration again.
LEMMA DecodeFits ==
  ASSUME NEW c \in Config, NEW file \in Files
  PROVE  DecodeFile(c, file) \in Config
  <1> DEFINE read == DecodeFile(c, file)
  <1>1. /\ DefaultConfig \in Config
        /\ \A k \in DOMAIN file :
              k \in DOMAIN DefaultConfig /\ [DefaultConfig EXCEPT ![k] = file[k]] \in Config
    BY FilesAssumption
  <1>2. /\ "salt" \in DOMAIN file => file["salt"] \in Salts
        /\ "streamTTL" \in DOMAIN file => file["streamTTL"] \in Nat
        /\ "fileTTL" \in DOMAIN file => file["fileTTL"] \in Nat
        /\ "proxy" \in DOMAIN file => file["proxy"] \in Proxy
    BY <1>1 DEF Config, DefaultConfig
  <1>3. /\ "playlists" \in DOMAIN file => file["playlists"] \in Seq(Provider)
        /\ "epgs" \in DOMAIN file => file["epgs"] \in Seq(Provider)
        /\ "clients" \in DOMAIN file => file["clients"] \in Seq(ClientConf)
        /\ "ruleClients" \in DOMAIN file => file["ruleClients"] \in SUBSET Names
        /\ "rulePlaylists" \in DOMAIN file => file["rulePlaylists"] \in SUBSET Names
    BY <1>1 DEF Config, DefaultConfig
  <1>4. "proxy" \in DOMAIN file => UnmarshalYAML(c.proxy, file["proxy"]) \in Proxy
    <2>1. SUFFICES ASSUME NEW prev \in Proxy, NEW p \in Proxy
                   PROVE  UnmarshalYAML(prev, p) \in Proxy
      BY <1>2 DEF Config
    <2> DEFINE new == UnmarshalYAML(prev, p)
    <2>2. [f \in Settings |-> Override(prev.set[f], p.set[f])] \in Setting
      BY DEF Proxy, Setting, Settings, Override
    <2>3. ASSUME NEW h \in HandlerNames
          PROVE  mergeHandler(prev.handlers[h], p.handlers[h]) \in Handler
      <3>1. prev.handlers[h] \in Handler /\ p.handlers[h] \in Handler
        BY DEF Proxy
      <3>2. QED
        BY <3>1 DEF Handler, mergeHandler, MergeNameValues, Override
    <2>4. prev.concurrency \in Nat /\ p.concurrency \in Nat
      BY DEF Proxy
    <2>5. QED
      BY <2>2, <2>3, <2>4 DEF UnmarshalYAML, Proxy
  <1>5. DOMAIN c = {"salt", "streamTTL", "fileTTL", "proxy", "playlists", "epgs", "clients",
                    "ruleClients", "rulePlaylists"}
    BY DEF Config
  <1>6. QED
    BY <1>2, <1>3, <1>4, <1>5 DEF DecodeFile, Config

\* Load goes on with a file only if all those up to it are accepted.
LEMMA ConfigStep ==
  ASSUME ConfigInv, [Next]_vars
  PROVE  ConfigInv'
  <1> USE DEF ConfigInv
  <1>1. CASE UNCHANGED <<server, config, unread>>
    BY <1>1 DEF NewManager, ProvidersOf, MergedProxy, ConfOf
  <1>2. CASE LoadConfig
    BY <1>2, FilesAssumption DEF LoadConfig
  <1>3. CASE ReadFile
    <2>1. Head(unread) \in Files /\ Tail(unread) \in Seq(Files)
      BY <1>3 DEF ReadFile
    <2>2. /\ config' = DecodeFile(config, Head(unread)) /\ Validate(config')
          /\ unread' = Tail(unread) /\ server' = "loading"
      BY <1>3 DEF ReadFile
    <2>3. config' \in Config
      BY <2>1, <2>2, DecodeFits
    <2>4. QED
      BY <2>1, <2>2, <2>3
  <1>4. CASE LoadFails
    BY <1>4 DEF LoadFails
  <1>5. CASE Loaded
    BY <1>5 DEF Loaded
  <1>6. CASE Start
    <2>1. UNCHANGED <<config, unread>> /\ server' = IF NewManager THEN "up" ELSE "failed"
      BY <1>6 DEF Start
    <2>2. NewManager' = NewManager
      BY <2>1 DEF NewManager, ProvidersOf, MergedProxy, ConfOf
    <2>3. QED
      BY <2>1, <2>2
  <1>7. CASE Exit
    BY <1>7 DEF Exit
  <1>8. QED
    BY <1>1, <1>2, <1>3, <1>4, <1>5, <1>6, <1>7
    DEF Next, vars, accessVars, GetListing, Forget, Day, GaugeTick, Cleanup,
        Open, SourceFails, StartCopy, EndCopy, AllFailed

THEOREM ConfigInvariance == Spec => []ConfigInv
  <1>1. Init => ConfigInv
    BY FilesAssumption DEF Init, ConfigInv
  <1>2. ConfigInv /\ [Next]_vars => ConfigInv'
    BY ConfigStep
  <1>3. QED
    BY <1>1, <1>2, PTL DEF Spec
-----------------------------------------------------------------------------
(* What follows for a started server. *)

\* mergeProxies, as BuildPlaylistProvider and BuildEPGProvider use it: what is
\* configured closest to the client holds.
THEOREM OverridesHold == Spec => []ConfigOverrides
  <1>1. ConfigOverrides
    BY MergeOverrides DEF ConfigOverrides
  <1>2. QED
    BY <1>1, PTL

LEMMA DefaultHasNoClients ==
  ASSUME config = DefaultConfig
  PROVE  DOMAIN config.clients = {} /\ NewManager
  <1>1. config.clients = <<>>
    BY DEF DefaultConfig
  <1>2. DOMAIN config.clients = {}
    BY <1>1
  <1>3. QED
    BY <1>2 DEF NewManager

\* NewManager accepts what Validate accepts, but for its commands.
LEMMA StartsOrUnparsed ==
  ASSUME ConfigInv
  PROVE  ValidConfigStarts
  <1>1. SUFFICES ASSUME server = "failed"
                 PROVE  \E p \in ConfiguredProxies, h \in HandlerNames :
                           p.handlers[h].command \in BadCommands
    BY DEF ValidConfigStarts
  <1>2. ValidClients(config) /\ ~NewManager
    BY <1>1, DefaultHasNoClients DEF ConfigInv, Validate
  <1>3. \A i \in DOMAIN config.clients :
          /\ config.clients[i].secret # ""
          /\ ToSet(config.clients[i].playlists) \subseteq Named(config.playlists)
          /\ ToSet(config.clients[i].epgs) \subseteq Named(config.epgs)
    BY <1>2 DEF ValidClients, KnownPlaylists
  <1>4. PICK i \in DOMAIN config.clients : \E k \in ProvidersOf(i, "playlist") :
          ~Parses(MergedProxy(i, "playlist", k))
    BY <1>2, <1>3 DEF NewManager
  <1>5. PICK k \in ProvidersOf(i, "playlist") : ~Parses(MergedProxy(i, "playlist", k))
    BY <1>4
  <1>6. PICK h \in ErrorKinds \cup {"stream"} :
          MergedProxy(i, "playlist", k).handlers[h].command \in BadCommands
    BY <1>5 DEF Parses
  <1>7. h \in HandlerNames /\ Absent \notin BadCommands
    BY AbsentAssumption, AccessAssumption DEF HandlerNames
  <1>8. PICK p \in {config.proxy, config.playlists[k].proxy, config.clients[i].proxy},
             g \in HandlerNames : p.handlers[g].command \in BadCommands
    BY <1>6, <1>7, MergedCommand DEF MergedProxy, ConfOf
  <1>9. k \in DOMAIN config.playlists
    BY DEF ProvidersOf
  <1>10. p \in ConfiguredProxies
    BY <1>9 DEF ConfiguredProxies
  <1>11. QED
    BY <1>8, <1>10

\* Config.Validate and NewManager agree: a server that was given an accepted
\* configuration does not start only if some command of it is no template.
THEOREM AcceptedStarts == Spec => []ValidConfigStarts
  BY ConfigInvariance, StartsOrUnparsed, PTL

\* ValidateProxyGlobal and ValidateOverride together: no merged cache is without
\* a time to live.
LEMMA MergedHasTTL ==
  ASSUME ConfigInv
  PROVE  CachedHasTTL
  <1>1. SUFFICES ASSUME NEW p \in AllProviders, UsesCache(MergedProxy(p[1], p[2], p[3]))
                 PROVE  MergedProxy(p[1], p[2], p[3]).set["ttl"] \notin {Absent, 0}
    BY DEF CachedHasTTL
  <1> DEFINE i == p[1]
             k == p[3]
             provider == ConfOf(p[2])[k].proxy
             client == config.clients[i].proxy
  <1>2. /\ i \in DOMAIN config.clients /\ p[2] \in {"playlist", "epg"}
        /\ k \in DOMAIN ConfOf(p[2])
    BY DEF AllProviders, ProvidersOf, ConfOf
  <1>3. Validate(config)
    BY <1>2, DefaultHasNoClients DEF ConfigInv
  <1>4. ValidateOverride(provider)
    BY <1>2, <1>3 DEF Validate, ValidProviders, ConfOf
  <1>5. ValidateOverride(client)
    BY <1>2, <1>3 DEF Validate, ValidClients
  <1>6. config.proxy.set["ttl"] \notin {Absent, 0}
    BY <1>1, <1>3 DEF UsesCache, CacheEnabled, Validate, ValidateProxyGlobal
  <1>7. MergedProxy(i, p[2], k).set["ttl"] =
          LastSet(config.proxy.set["ttl"], provider.set["ttl"], client.set["ttl"])
    BY MergeOverrides DEF OverridesWin, MergedProxy, Settings
  <1>8. QED
    BY <1>4, <1>5, <1>6, <1>7 DEF ValidateOverride, LastSet, Override

\* ValidateProxyOverride: responses are cached only with a time to live, whatever
\* the levels override.
THEOREM CachesExpire == Spec => []CachedHasTTL
  BY ConfigInvariance, MergedHasTTL, PTL
-----------------------------------------------------------------------------
(* Links and viewers. *)

AllPlaylists(sources) == \A k \in DOMAIN sources : sources[k].type = "playlist"

\* Links have sources, and those of streams are playlists.
LinksInv ==
    /\ links \subseteq Link /\ IsFiniteSet(links)
    /\ \A l \in links : l.sources # <<>> /\ (l.type = "stream" => AllPlaylists(l.sources))

\* A viewer that is copied has the provider it was copied from: the configuration does
\* not change while the server is up.
LetIn(v) ==
    /\ v \in Viewer
    /\ AllPlaylists(v.sources)
    /\ v.client \in DOMAIN config.clients
    /\ v.source \in 1 .. Len(v.sources) + 1
    /\ v.copying => v.source <= Len(v.sources) /\ GetProvider(v.client, Current(v)) # 0

ViewersInv ==
    /\ viewers \in [Requests -> Viewer \cup {Absent}]
    /\ \A r \in Requests : viewers[r] # Absent => server = "up" /\ LetIn(viewers[r])

\* A provider is found if the client has one of that name.
LEMMA ProviderFound ==
  ASSUME config \in Config, NEW i, NEW source \in Source
  PROVE  GetProvider(i, source) # 0 <=>
             \E k \in ProvidersOf(i, source.type) :
                ConfOf(source.type)[k].name = source.name
  <1> DEFINE found == {k \in ProvidersOf(i, source.type) :
                          ConfOf(source.type)[k].name = source.name}
  <1>1. source.type \in {"playlist", "epg"}
    BY DEF Source
  <1>2. found \subseteq DOMAIN ConfOf(source.type)
    BY DEF ProvidersOf, ConfOf
  <1>3. found \subseteq Nat \ {0}
    BY <1>1, <1>2, ConfigLists
  <1>4. found # {} => Min(found) # 0
    BY <1>3, MinIsLeast
  <1>5. GetProvider(i, source) # 0 <=> found # {}
    BY <1>4 DEF GetProvider
  <1>6. QED
    BY <1>5

\* Of the clients that have a secret one is found.
LEMMA ClientFound ==
  ASSUME config \in Config, NEW secret, Client(secret) # 0
  PROVE  Client(secret) \in DOMAIN config.clients
  <1> DEFINE found == {i \in DOMAIN config.clients : config.clients[i].secret = secret}
  <1>1. found # {} /\ Client(secret) = Max(found)
    BY DEF Client
  <1>2. Len(config.clients) \in Nat /\ DOMAIN config.clients = 1 .. Len(config.clients)
    BY ConfigLists
  <1>3. found \in SUBSET (0 .. Len(config.clients))
    BY <1>2
  <1> HIDE DEF found
  <1>4. Max(found) \in found
    BY <1>1, <1>2, <1>3, MaxIsGreatest
  <1>5. QED
    BY <1>1, <1>4 DEF found

\* The client that a link is opened for is one there is.
LEMMA OpenedForSome ==
  ASSUME config \in Config, NEW l, proxyAuth(l) # 0
  PROVE  proxyAuth(l) \in DOMAIN config.clients
  <1> DEFINE deciding == {i \in DOMAIN config.clients : Decides(i, l)}
  <1>1. deciding # {} /\ proxyAuth(l) = Min(deciding)
    BY DEF proxyAuth
  <1>2. deciding \in SUBSET Nat
    BY ConfigLists
  <1> HIDE DEF deciding
  <1>3. Min(deciding) \in deciding
    BY <1>1, <1>2, MinIsLeast
  <1>4. QED
    BY <1>1, <1>3 DEF deciding

\* A new link's age and key are a link's.
LEMMA NewIsYoung == 0 \in 0 .. MaxAge
  <1>1. MaxAge \in Nat
    BY AccessAssumption
  <1>2. QED
    BY <1>1

LEMMA KeyOfBoth ==
  ASSUME NEW salt \in Salts, NEW secret \in Secrets
  PROVE  salt \o secret \in Keys
  BY DEF Keys

LEMMA LinksStep ==
  ASSUME ConfigInv, LinksInv, [Next]_vars
  PROVE  LinksInv'
  <1> USE DEF LinksInv
  <1>1. CASE UNCHANGED links
    BY <1>1 DEF AllPlaylists
  <1>2. CASE GetListing
    <2>1. PICK secret \in Secrets \ {""} :
            /\ Client(secret) # 0
            /\ \E o \in LinksFor(Client(secret)) :
                  links' = links \cup
                    {[key |-> Key(Client(secret)), type |-> o.type, channel |-> o.channel,
                      age |-> 0, sources |-> o.sources,
                      madeFor |-> config.clients[Client(secret)].name]}
      BY <1>2 DEF GetListing
    <2> DEFINE i == Client(secret)
    <2>2. PICK o \in LinksFor(i) :
            links' = links \cup
                {[key |-> Key(i), type |-> o.type, channel |-> o.channel, age |-> 0,
                  sources |-> o.sources, madeFor |-> config.clients[i].name]}
      BY <2>1
    <2> DEFINE new == [key |-> Key(i), type |-> o.type, channel |-> o.channel, age |-> 0,
                       sources |-> o.sources, madeFor |-> config.clients[i].name]
    <2>3. config \in Config
      BY DEF ConfigInv
    <2>4. i \in DOMAIN config.clients
      BY <2>1, <2>3, ClientFound
    <2>5. config.clients[i] \in ClientConf /\ config.salt \in Salts
      BY <2>3, <2>4, ConfigLists DEF Config
    <2>6. Key(i) \in Keys
      <3>1. config.clients[i].secret \in Secrets
        BY <2>5 DEF ClientConf
      <3>2. Key(i) = config.salt \o config.clients[i].secret
        BY DEF Key
      <3>3. QED
        BY <2>5, <3>1, <3>2, KeyOfBoth
    <2>7. o \in Offers
      BY DEF LinksFor
    <2>8. /\ new \in Link /\ new.sources # <<>>
          /\ new.type = "stream" => AllPlaylists(new.sources)
      <3>1. config.clients[i].name \in Names
        BY <2>5 DEF ClientConf
      <3>2. /\ o \in [type : {"stream", "file"}, channel : Names, sources : Seq(Source)]
            /\ o.sources # <<>>
            /\ o.type = "stream" => AllPlaylists(o.sources)
        BY <2>7, OffersAssumption DEF AllPlaylists
      <3>3. 0 \in 0 .. MaxAge
        BY NewIsYoung
      <3> HIDE DEF i
      <3>4. QED
        BY <2>6, <3>1, <3>2, <3>3 DEF Link
    <2>9. links' = links \cup {new}
      BY <2>2
    <2> HIDE DEF new
    <2>10. IsFiniteSet(links')
      BY <2>9, FS_AddElement
    <2>11. QED
      BY <2>8, <2>9, <2>10 DEF AllPlaylists
  <1>3. CASE Forget
    <2>1. PICK l \in links : links' = links \ {l}
      BY <1>3 DEF Forget
    <2>2. IsFiniteSet(links')
      BY <2>1, FS_Subset
    <2>3. QED
      BY <2>1, <2>2 DEF AllPlaylists
  <1>4. CASE Day
    <2> DEFINE Older(l) == [l EXCEPT !.age = IF @ < MaxAge THEN @ + 1 ELSE @]
    <2>1. links' = {Older(l) : l \in links}
      BY <1>4 DEF Day
    <2>2. IsFiniteSet(links')
      <3> DEFINE Aged == [l \in links |-> Older(l)]
      <3>1. Aged \in Surjection(links, links')
        BY <2>1 DEF Surjection
      <3>2. QED
        BY <3>1, FS_Surjection
    <2>3. ASSUME NEW l \in links
          PROVE  Older(l) \in Link /\ Older(l).sources = l.sources /\ Older(l).type = l.type
      <3>1. l \in Link /\ MaxAge \in Nat
        BY AccessAssumption
      <3>2. QED
        BY <3>1 DEF Link
    <2> HIDE DEF Older
    <2>4. QED
      BY <2>1, <2>2, <2>3 DEF AllPlaylists
  <1>5. QED
    BY <1>1, <1>2, <1>3, <1>4
    DEF Next, vars, accessVars, LoadConfig, ReadFile, LoadFails, Loaded, Start, Exit,
        GaugeTick, Cleanup, Open, SourceFails, StartCopy, EndCopy, AllFailed
\* A viewer stays let in while the configuration stays.
LEMMA LetInKept ==
  ASSUME NEW v, LetIn(v), UNCHANGED config
  PROVE  LetIn(v)'
  BY DEF LetIn, GetProvider, ProvidersOf, ConfOf, Current

\* While the server is up, one request changes.
LEMMA ViewerPut ==
  ASSUME ViewersInv, NEW r \in Requests, NEW v, viewers' = [viewers EXCEPT ![r] = v],
         UNCHANGED <<server, config>>,
         v = Absent \/ (server = "up" /\ LetIn(v))
  PROVE  ViewersInv'
  <1>1. v \in Viewer \cup {Absent}
    BY DEF LetIn
  <1>2. viewers' \in [Requests -> Viewer \cup {Absent}]
    BY <1>1 DEF ViewersInv
  <1>3. ASSUME NEW q \in Requests, viewers'[q] # Absent
        PROVE  server = "up" /\ LetIn(viewers'[q])
    <2>1. CASE q = r
      BY <2>1, <1>3 DEF ViewersInv
    <2>2. CASE q # r
      BY <2>2, <1>3 DEF ViewersInv
    <2>3. QED
      BY <2>1, <2>2
  <1>4. QED
    BY <1>2, <1>3, LetInKept DEF ViewersInv

LEMMA NextIsViewer ==
  ASSUME NEW v \in Viewer
  PROVE  [v EXCEPT !.source = @ + 1, !.copying = FALSE] \in Viewer
  <1>1. v.source \in Nat
    BY DEF Viewer
  <1>2. v.source + 1 \in Nat
    BY <1>1
  <1>3. QED
    BY <1>2 DEF Viewer

\* A step of a request leaves its viewer let in, or is its last.
LEMMA ViewersStep ==
  ASSUME ConfigInv, LinksInv, ViewersInv, [Next]_vars
  PROVE  ViewersInv'
  <1>1. CASE UNCHANGED <<server, config, viewers>>
    BY <1>1, LetInKept DEF ViewersInv
  <1>2. CASE server # "up" /\ UNCHANGED viewers
    BY <1>2 DEF ViewersInv
  <1>3. CASE Exit
    BY <1>3 DEF Exit, ViewersInv
  <1>4. ASSUME NEW r \in Requests, Open(r)
        PROVE  ViewersInv'
    <2>1. PICK l \in links :
            /\ proxyAuth(l) # 0 /\ l.type = "stream"
            /\ viewers' = [viewers EXCEPT ![r] =
                  [channel |-> l.channel, sources |-> l.sources, client |-> proxyAuth(l),
                   source |-> 1, copying |-> FALSE]]
      BY <1>4 DEF Open
    <2> DEFINE v == [channel |-> l.channel, sources |-> l.sources, client |-> proxyAuth(l),
                     source |-> 1, copying |-> FALSE]
    <2>2. l \in Link /\ l.sources # <<>> /\ AllPlaylists(l.sources)
      BY <2>1 DEF LinksInv
    <2>3. proxyAuth(l) \in DOMAIN config.clients /\ proxyAuth(l) \in Nat
      BY <2>1, OpenedForSome, ConfigLists DEF ConfigInv
    <2>4. l.channel \in Names /\ l.sources \in Seq(Source)
      BY <2>2 DEF Link
    <2>5. v \in Viewer
      BY <2>3, <2>4 DEF Viewer
    <2>6. 1 \in 1 .. Len(l.sources) + 1
      BY <2>4
    <2>7. LetIn(v)
      BY <2>2, <2>3, <2>5, <2>6 DEF LetIn
    <2> HIDE DEF v
    <2>8. server = "up" /\ UNCHANGED <<server, config>>
      BY <1>4 DEF Open
    <2>9. viewers' = [viewers EXCEPT ![r] = v]
      BY <2>1 DEF v
    <2>10. QED
      BY <2>7, <2>8, <2>9, ViewerPut
  <1>5. ASSUME NEW r \in Requests,
               SourceFails(r) \/ StartCopy(r) \/ EndCopy(r) \/ AllFailed(r)
        PROVE  ViewersInv'
    <2> DEFINE v == viewers[r]
    <2>1. v # Absent /\ UNCHANGED <<server, config>>
      BY <1>5 DEF SourceFails, StartCopy, EndCopy, AllFailed, Trying, Copying
    <2>2. server = "up" /\ LetIn(v)
      BY <2>1 DEF ViewersInv
    <2>3. /\ v \in Viewer /\ v.sources \in Seq(Source)
          /\ v.source \in 1 .. Len(v.sources) + 1
      BY <2>2 DEF LetIn, Viewer
    <2>4. CASE Leave(r)
      <3>1. viewers' = [viewers EXCEPT ![r] = Absent]
        BY <2>4 DEF Leave
      <3>2. QED
        BY <2>1, <3>1, ViewerPut
    <2>5. CASE NextSource(r) /\ HasSource(r)
      <3> DEFINE w == [v EXCEPT !.source = @ + 1, !.copying = FALSE]
      <3>1. viewers' = [viewers EXCEPT ![r] = w]
        BY <2>3, <2>5 DEF NextSource, ViewersInv, Viewer
      <3>2. w \in Viewer
        BY <2>3, NextIsViewer
      <3>3. /\ w.sources = v.sources /\ w.client = v.client /\ w.source = v.source + 1
            /\ w.copying = FALSE
        BY <2>3 DEF Viewer
      <3>4. w.source \in 1 .. Len(w.sources) + 1
        BY <2>3, <2>5, <3>3 DEF HasSource
      <3> HIDE DEF w, v
      <3>5. LetIn(w)
        BY <2>2, <3>2, <3>3, <3>4 DEF LetIn
      <3>6. QED
        BY <2>1, <2>2, <3>1, <3>5, ViewerPut
    <2>6. CASE viewers' = [viewers EXCEPT ![r].source = 1] /\ ~v.copying
      <3> DEFINE w == [v EXCEPT !.source = 1]
      <3>1. viewers' = [viewers EXCEPT ![r] = w]
        BY <2>6 DEF ViewersInv
      <3>2. w \in Viewer
        BY <2>3 DEF Viewer
      <3>3. /\ w.sources = v.sources /\ w.client = v.client /\ w.source = 1
            /\ w.copying = v.copying
        BY <2>3 DEF Viewer
      <3>4. w.source \in 1 .. Len(w.sources) + 1
        BY <2>3, <3>3
      <3> HIDE DEF w
      <3>5. LetIn(w)
        BY <2>2, <2>6, <3>2, <3>3, <3>4 DEF LetIn
      <3>6. QED
        BY <2>1, <2>2, <3>1, <3>5, ViewerPut
    <2>7. CASE StartCopy(r)
      <3> DEFINE w == [v EXCEPT !.copying = TRUE]
      <3>1. viewers' = [viewers EXCEPT ![r] = w]
        BY <2>7 DEF StartCopy, ViewersInv
      <3>2. w \in Viewer
        BY <2>3 DEF Viewer
      <3>3. /\ w.sources = v.sources /\ w.client = v.client /\ w.source = v.source
            /\ Current(w) = Current(v)
        BY <2>3 DEF Viewer, Current
      <3>4. v.source <= Len(v.sources) /\ GetProvider(v.client, Current(v)) # 0
        BY <2>7 DEF StartCopy, HasSource
      <3> HIDE DEF w
      <3>5. LetIn(w)
        BY <2>2, <3>2, <3>3, <3>4 DEF LetIn
      <3>6. QED
        BY <2>1, <2>2, <3>1, <3>5, ViewerPut
    <2>8. CASE EndCopy(r)
      <3>1. HasSource(r) /\ (Leave(r) \/ NextSource(r))
        BY <2>2, <2>8 DEF EndCopy, Copying, HasSource, LetIn
      <3>2. QED
        BY <2>4, <2>5, <3>1
    <2>9. QED
      BY <1>5, <2>4, <2>5, <2>6, <2>7, <2>8 DEF SourceFails, AllFailed, Trying
  <1>6. QED
    BY <1>1, <1>2, <1>3, <1>4, <1>5
    DEF Next, vars, accessVars, LoadConfig, ReadFile, LoadFails, Loaded, Start,
        GetListing, Forget, Day, GaugeTick, Cleanup

THEOREM AccessInvariance == Spec => [](ConfigInv /\ LinksInv /\ ViewersInv)
  <1>1. Init => LinksInv /\ ViewersInv
    BY FS_EmptySet DEF Init, LinksInv, ViewersInv
  <1>2. ConfigInv /\ LinksInv /\ ViewersInv /\ [Next]_vars => LinksInv' /\ ViewersInv'
    BY LinksStep, ViewersStep
  <1>3. QED
    BY <1>1, <1>2, ConfigInvariance, PTL DEF Spec
-----------------------------------------------------------------------------
(* Who gets in. *)

\* Of an accepted configuration's clients, no two have a key in common.
LEMMA KeysDiffer ==
  ASSUME ConfigInv, NEW i \in DOMAIN config.clients, NEW j \in DOMAIN config.clients,
         Key(i) = Key(j)
  PROVE  i = j
  <1>1. DifferentSecrets(config)
    BY DefaultHasNoClients DEF ConfigInv, Validate, ValidClients
  <1>2. config.salt \in Salts
    BY DEF ConfigInv, Config
  <1>3. config.clients[i].secret \in Secrets /\ config.clients[j].secret \in Secrets
    BY ConfigLists DEF ConfigInv, ClientConf
  <1>4. config.salt \o config.clients[i].secret = config.salt \o config.clients[j].secret
    BY DEF Key
  <1>5. config.clients[i].secret = config.clients[j].secret
    BY <1>2, <1>3, <1>4, KeysAssumption
  <1>6. QED
    BY <1>1, <1>5 DEF DifferentSecrets, Unique

LEMMA OpensForItsClient ==
  ASSUME ConfigInv, LinksInv
  PROVE  LinkHonoured
  <1>1. SUFFICES ASSUME NEW l \in links, NEW i \in DOMAIN config.clients,
                        config.salt \o config.clients[i].secret = l.key,
                        \E k \in ProvidersOf(i, l.sources[1].type) :
                           ConfOf(l.sources[1].type)[k].name = l.sources[1].name,
                        TTL(l) = 0 \/ l.age <= TTL(l)
                 PROVE  proxyAuth(l) = i
    BY DEF LinkHonoured, TTL
  <1> DEFINE deciding == {j \in DOMAIN config.clients : Decides(j, l)}
  <1>2. ~Expired(l)
    <2>1. config.streamTTL \in Nat /\ config.fileTTL \in Nat
      BY DEF ConfigInv, Config
    <2>2. TTL(l) \in Nat
      BY <2>1 DEF TTL
    <2>3. l.age \in 0 .. MaxAge /\ MaxAge \in Nat
      BY AccessAssumption DEF LinksInv, Link
    <2>4. QED
      BY <1>1, <2>2, <2>3 DEF Expired
  <1>3. l.sources[1] \in Source
    <2>1. l.sources \in Seq(Source) /\ l.sources # <<>>
      BY DEF LinksInv, Link
    <2>2. QED
      BY <2>1
  <1>4. HasProvider(i, l)
    BY <1>1, <1>3, ProviderFound DEF HasProvider, ConfigInv
  <1>5. i \in deciding
    BY <1>1, <1>2, <1>4 DEF Decides, Key
  <1>6. \A j \in deciding : j = i
    BY <1>1, KeysDiffer DEF Decides, Key
  <1>7. deciding \in SUBSET Nat
    BY ConfigLists DEF ConfigInv
  <1>8. proxyAuth(l) = Min(deciding)
    BY <1>2, <1>5 DEF proxyAuth
  <1> HIDE DEF deciding
  <1>9. Min(deciding) \in deciding
    BY <1>5, <1>7, MinIsLeast
  <1>10. QED
    BY <1>6, <1>8, <1>9

\* proxyAuthMiddleware: as long as a client keeps its secret and the first playlist of
\* its link, the link opens, and for that client, whatever the server was started from.
THEOREM LinksOpen == Spec => []LinkHonoured
  BY AccessInvariance, OpensForItsClient, PTL

LEMMA WatchesItsOwn ==
  ASSUME ConfigInv, ViewersInv
  PROVE  OwnPlaylistsOnly
  <1>1. SUFFICES ASSUME NEW r \in Requests, Copying(r)
                 PROVE  LET named == config.clients[viewers[r].client].playlists IN
                        Current(viewers[r]).name \in
                            IF named = <<>> THEN Named(config.playlists) ELSE ToSet(named)
    BY DEF OwnPlaylistsOnly
  <1> DEFINE v == viewers[r]
             i == v.client
  <1>2. LetIn(v) /\ v.copying
    BY <1>1 DEF ViewersInv, Copying
  <1>3. /\ v.source \in DOMAIN v.sources /\ v.sources \in Seq(Source)
        /\ GetProvider(i, Current(v)) # 0
    <2>1. v.sources \in Seq(Source) /\ v.source \in 1 .. Len(v.sources)
      BY <1>2 DEF LetIn, Viewer
    <2>2. QED
      BY <1>2, <2>1 DEF LetIn
  <1>4. Current(v) \in Source /\ Current(v).type = "playlist"
    BY <1>2, <1>3 DEF LetIn, AllPlaylists, Current
  <1>5. PICK k \in ProvidersOf(i, "playlist") : ConfOf("playlist")[k].name = Current(v).name
    BY <1>3, <1>4, ProviderFound DEF ConfigInv
  <1>6. /\ k \in DOMAIN config.playlists
        /\ config.playlists[k].name = Current(v).name
        /\ config.clients[i].playlists # <<>> =>
               config.playlists[k].name \in ToSet(config.clients[i].playlists)
    BY <1>5 DEF ProvidersOf, ConfOf
  <1>7. QED
    BY <1>6 DEF Named

\* tryAllStreams: nobody watches a playlist that the client does not have.
THEOREM OwnPlaylists == Spec => []OwnPlaylistsOnly
  BY AccessInvariance, WatchesItsOwn, PTL

-----------------------------------------------------------------------------
(* The gauge. *)

CountsFor(v, l) == v # Absent /\ v.copying /\ ~Current(v).hidden /\ Label(v) = l

Watching(l) == {r \in Requests : CountsFor(viewers[r], l)}

\* A label counts its viewers, and has a time since when it is at zero only if it is.
GaugeInv ==
    \A l \in Labels :
        /\ Value(l) = Cardinality(Watching(l))
        /\ l \in DOMAIN zeroAge => Value(l) = 0

LEMMA WatchingFinite ==
  ASSUME NEW l
  PROVE  IsFiniteSet(Watching(l)) /\ Cardinality(Watching(l)) \in Nat
  <1>1. Watching(l) \in SUBSET Requests
    BY DEF Watching
  <1>2. IsFiniteSet(Requests)
    BY AccessAssumption
  <1>3. QED
    BY <1>1, <1>2, FS_Subset, FS_CardinalityType

\* One request starts or stops to be counted.
LEMMA WatchingPut ==
  ASSUME ViewersInv, NEW r \in Requests, NEW v, viewers' = [viewers EXCEPT ![r] = v],
         UNCHANGED config, NEW l
  PROVE  Watching(l)' = IF CountsFor(v, l) THEN Watching(l) \cup {r} ELSE Watching(l) \ {r}
  <1>1. \A w : CountsFor(w, l)' = CountsFor(w, l)
    BY DEF CountsFor, Current, Label
  <1>2. \A q \in Requests : viewers'[q] = IF q = r THEN v ELSE viewers[q]
    BY DEF ViewersInv
  <1>3. QED
    BY <1>1, <1>2 DEF Watching

\* A request that is not copied before and after does not matter.
LEMMA NotCounted ==
  ASSUME ViewersInv, GaugeInv, NEW r \in Requests, NEW v,
         viewers' = [viewers EXCEPT ![r] = v],
         UNCHANGED <<config, values, zeroAge>>, ~Copying(r), v = Absent \/ v.copying = FALSE
  PROVE  GaugeInv'
  <1>1. ASSUME NEW l \in Labels
        PROVE  Watching(l)' = Watching(l)
    <2>1. ~CountsFor(v, l) /\ r \notin Watching(l)
      BY DEF CountsFor, Watching, Copying
    <2>2. Watching(l)' = Watching(l) \ {r}
      BY <2>1, WatchingPut
    <2>3. Watching(l) \ {r} = Watching(l)
      BY <2>1
    <2>4. QED
      BY <2>2, <2>3
  <1>2. \A l \in Labels : Value(l)' = Value(l)
    BY DEF Value
  <1>3. QED
    BY <1>1, <1>2 DEF GaugeInv
\* Inc and Dec change the value of their label, and of no other.
LEMMA IncCounts ==
  ASSUME NEW m, NEW l, Inc(m)
  PROVE  /\ Value(l)' = IF l = m THEN Value(l) + 1 ELSE Value(l)
         /\ l \in DOMAIN zeroAge' => l # m /\ l \in DOMAIN zeroAge
  BY DEF Inc, NotIdle, Put, Drop, Value

LEMMA DecCounts ==
  ASSUME NEW m, NEW l, Dec(m)
  PROVE  /\ Value(l)' = IF l # m THEN Value(l)
                        ELSE IF Value(l) <= 1 THEN 0 ELSE Value(l) - 1
         /\ l \in DOMAIN zeroAge' =>
               \/ l = m /\ Value(l) <= 1
               \/ l # m /\ l \in DOMAIN zeroAge
  <1>1. CASE Value(m) <= 1
    BY <1>1 DEF Dec, Idle, Put, Value
  <1>2. CASE ~(Value(m) <= 1)
    BY <1>2 DEF Dec, NotIdle, Put, Drop, Value
  <1>3. QED
    BY <1>1, <1>2

LEMMA StartCounts ==
  ASSUME ViewersInv, GaugeInv, NEW r \in Requests, StartCopy(r)
  PROVE  GaugeInv'
  <1> DEFINE v == viewers[r]
             w == [v EXCEPT !.copying = TRUE]
  <1>1. /\ v \in Viewer /\ v.copying = FALSE /\ v # Absent
        /\ viewers' = [viewers EXCEPT ![r] = w] /\ UNCHANGED config
    <2>1. v \in Viewer /\ ~v.copying /\ v # Absent
      BY DEF StartCopy, Trying, ViewersInv
    <2>2. QED
      BY <2>1 DEF StartCopy, Viewer, ViewersInv
  <1>2. /\ w # Absent /\ w.copying = TRUE
        /\ Current(w) = Current(v) /\ Label(w) = Label(v)
    <2>1. w \in Viewer
      BY <1>1 DEF Viewer
    <2>2. w # Absent
      BY <2>1, AccessAssumption
    <2>3. QED
      BY <1>1, <2>2 DEF Viewer, Current, Label
  <1>3. ASSUME NEW l \in Labels
        PROVE  /\ r \notin Watching(l)
               /\ Watching(l)' = IF ~Current(v).hidden /\ Label(v) = l
                                 THEN Watching(l) \cup {r} ELSE Watching(l)
    <2>1. r \notin Watching(l)
      BY <1>1 DEF Watching, CountsFor
    <2>2. Watching(l) \ {r} = Watching(l)
      BY <2>1
    <2>3. CountsFor(w, l) <=> ~Current(v).hidden /\ Label(v) = l
      BY <1>2 DEF CountsFor
    <2> HIDE DEF v, w
    <2>4. Watching(l)' = IF CountsFor(w, l) THEN Watching(l) \cup {r} ELSE Watching(l) \ {r}
      BY <1>1, WatchingPut
    <2>5. QED
      BY <2>1, <2>2, <2>3, <2>4
  <1>4. CASE Current(v).hidden
    <2>1. UNCHANGED gaugeVars
      BY <1>4 DEF StartCopy
    <2>2. \A l \in Labels : Watching(l)' = Watching(l)
      BY <1>3, <1>4
    <2>3. \A l \in Labels : Value(l)' = Value(l)
      BY <2>1 DEF gaugeVars, Value
    <2>4. QED
      BY <2>1, <2>2, <2>3 DEF GaugeInv, gaugeVars
  <1>5. CASE ~Current(v).hidden
    <2>1. Inc(Label(v))
      BY <1>5 DEF StartCopy
    <2>2. ASSUME NEW l \in Labels
          PROVE  /\ Value(l)' = Cardinality(Watching(l)')
                 /\ l \in DOMAIN zeroAge' => Value(l)' = 0
      <3>1. /\ Value(l)' = IF l = Label(v) THEN Value(l) + 1 ELSE Value(l)
            /\ l \in DOMAIN zeroAge' => l # Label(v) /\ l \in DOMAIN zeroAge
        BY <2>1, IncCounts
      <3>2. Value(l) = Cardinality(Watching(l)) /\ (l \in DOMAIN zeroAge => Value(l) = 0)
        BY DEF GaugeInv
      <3>3. Cardinality(Watching(l) \cup {r}) = Cardinality(Watching(l)) + 1
        BY <1>3, WatchingFinite, FS_AddElement
      <3>4. CASE l = Label(v)
        <4>1. Watching(l)' = Watching(l) \cup {r}
          BY <1>3, <1>5, <3>4
        <4>2. QED
          BY <3>1, <3>2, <3>3, <3>4, <4>1
      <3>5. CASE l # Label(v)
        <4>1. Watching(l)' = Watching(l)
          BY <1>3, <3>5
        <4>2. QED
          BY <3>1, <3>2, <3>5, <4>1
      <3>6. QED
        BY <3>4, <3>5
    <2>3. QED
      BY <2>2 DEF GaugeInv
  <1>6. QED
    BY <1>4, <1>5

LEMMA EndCounts ==
  ASSUME ViewersInv, GaugeInv, NEW r \in Requests, EndCopy(r)
  PROVE  GaugeInv'
  <1> DEFINE v == viewers[r]
  <1>1. /\ v \in Viewer /\ v.copying /\ v # Absent /\ UNCHANGED config
    BY DEF EndCopy, Copying, ViewersInv
  <1>2. PICK w : viewers' = [viewers EXCEPT ![r] = w] /\ (w = Absent \/ w.copying = FALSE)
    <2>1. CASE Leave(r)
      BY <2>1 DEF Leave
    <2>2. CASE NextSource(r)
      <3>1. viewers' = [viewers EXCEPT ![r] =
                           [v EXCEPT !.source = @ + 1, !.copying = FALSE]]
        BY <1>1, <2>2 DEF NextSource, ViewersInv, Viewer
      <3>2. [v EXCEPT !.source = @ + 1, !.copying = FALSE].copying = FALSE
        BY <1>1 DEF Viewer
      <3>3. QED
        BY <3>1, <3>2
    <2>3. QED
      BY <2>1, <2>2 DEF EndCopy
  <1> HIDE DEF v
  <1>3. ASSUME NEW l \in Labels
        PROVE  Watching(l)' = Watching(l) \ {r}
    <2>1. ~CountsFor(w, l)
      BY <1>2 DEF CountsFor
    <2>2. QED
      BY <1>1, <1>2, <2>1, WatchingPut
  <1>4. ASSUME NEW l \in Labels
        PROVE  r \in Watching(l) <=> ~Current(v).hidden /\ Label(v) = l
    BY <1>1 DEF Watching, CountsFor, v
  <1>5. CASE Current(v).hidden
    <2>1. UNCHANGED gaugeVars
      BY <1>5 DEF EndCopy, v
    <2>2. \A l \in Labels : Watching(l)' = Watching(l)
      BY <1>3, <1>4, <1>5
    <2>3. \A l \in Labels : Value(l)' = Value(l)
      BY <2>1 DEF gaugeVars, Value
    <2>4. QED
      BY <2>1, <2>2, <2>3 DEF GaugeInv, gaugeVars
  <1>6. CASE ~Current(v).hidden
    <2>1. Dec(Label(v))
      BY <1>6 DEF EndCopy, v
    <2>2. ASSUME NEW l \in Labels
          PROVE  /\ Value(l)' = Cardinality(Watching(l)')
                 /\ l \in DOMAIN zeroAge' => Value(l)' = 0
      <3>1. /\ Value(l)' = IF l # Label(v) THEN Value(l)
                           ELSE IF Value(l) <= 1 THEN 0 ELSE Value(l) - 1
            /\ l \in DOMAIN zeroAge' =>
                  \/ l = Label(v) /\ Value(l) <= 1
                  \/ l # Label(v) /\ l \in DOMAIN zeroAge
        BY <2>1, DecCounts
      <3>2. Value(l) = Cardinality(Watching(l)) /\ (l \in DOMAIN zeroAge => Value(l) = 0)
        BY DEF GaugeInv
      <3>3. CASE l = Label(v)
        <4>1. r \in Watching(l)
          BY <1>4, <1>6, <3>3
        <4>2. /\ Cardinality(Watching(l) \ {r}) = Cardinality(Watching(l)) - 1
              /\ Cardinality(Watching(l)) \in Nat /\ Cardinality(Watching(l) \ {r}) \in Nat
          <5>1. IsFiniteSet(Watching(l)) /\ Cardinality(Watching(l)) \in Nat
            BY WatchingFinite
          <5>2. IsFiniteSet(Watching(l) \ {r})
            BY <5>1, FS_Subset
          <5>3. Cardinality(Watching(l) \ {r}) = Cardinality(Watching(l)) - 1
            BY <4>1, <5>1, FS_RemoveElement
          <5>4. Cardinality(Watching(l) \ {r}) \in Nat
            BY <5>2, FS_CardinalityType
          <5>5. QED
            BY <5>1, <5>3, <5>4
        <4>3. Value(l)' = Cardinality(Watching(l) \ {r})
          BY <3>1, <3>2, <3>3, <4>2
        <4>4. l \in DOMAIN zeroAge' => Value(l)' = 0
          BY <3>1, <3>3
        <4>5. QED
          BY <1>3, <4>3, <4>4
      <3>4. CASE l # Label(v)
        <4>1. r \notin Watching(l)
          BY <1>4, <3>4
        <4>2. Watching(l)' = Watching(l)
          BY <1>3, <4>1
        <4>3. QED
          BY <3>1, <3>2, <3>4, <4>2
      <3>5. QED
        BY <3>3, <3>4
    <2>3. QED
      BY <2>2 DEF GaugeInv
  <1>7. QED
    BY <1>5, <1>6
LEMMA GaugeStep ==
  ASSUME ViewersInv, GaugeInv, [Next]_vars
  PROVE  GaugeInv'
  <1>1. CASE UNCHANGED <<config, viewers, gaugeVars>>
    <2>1. \A l \in Labels : Watching(l)' = Watching(l)
      BY <1>1 DEF Watching, CountsFor, Current, Label
    <2>2. QED
      BY <1>1, <2>1 DEF GaugeInv, Value, gaugeVars
  <1>2. CASE server # "up" /\ UNCHANGED <<viewers, gaugeVars>>
    <2>1. \A l \in Labels : Watching(l)' = {} /\ Watching(l) = {}
      BY <1>2 DEF ViewersInv, Watching, CountsFor
    <2>2. QED
      BY <1>2, <2>1 DEF GaugeInv, Value, gaugeVars
  <1>3. CASE Exit
    <2>1. \A l \in Labels : Watching(l)' = {}
      BY <1>3 DEF Exit, Watching, CountsFor
    <2>2. \A l \in Labels : Value(l)' = 0 /\ l \notin DOMAIN zeroAge'
      BY <1>3 DEF Exit, Value
    <2>3. QED
      BY <2>1, <2>2, FS_EmptySet DEF GaugeInv
  <1>4. CASE GaugeTick
    <2>1. DOMAIN zeroAge' = DOMAIN zeroAge /\ UNCHANGED values
      BY <1>4 DEF GaugeTick, GaugeAges
    <2>2. \A l \in Labels : Watching(l)' = Watching(l)
      BY <1>4 DEF GaugeTick, accessVars, Watching, CountsFor, Current, Label
    <2>3. QED
      BY <2>1, <2>2 DEF GaugeInv, Value
  <1>5. CASE Cleanup
    <2>1. PICK old : /\ old \subseteq DOMAIN zeroAge
                     /\ values' = Drop(values, old) /\ zeroAge' = Drop(zeroAge, old)
      BY <1>5 DEF Cleanup, performCleanup
    <2>2. \A l \in Labels : Watching(l)' = Watching(l)
      BY <1>5 DEF Cleanup, accessVars, Watching, CountsFor, Current, Label
    <2>3. \A l \in Labels :
            /\ Value(l)' = Value(l)
            /\ l \in DOMAIN zeroAge' => l \in DOMAIN zeroAge
      BY <2>1 DEF GaugeInv, Value, Drop
    <2>4. QED
      BY <2>2, <2>3 DEF GaugeInv
  <1>6. ASSUME NEW r \in Requests, Open(r)
        PROVE  GaugeInv'
    <2>1. PICK v : viewers' = [viewers EXCEPT ![r] = v] /\ v.copying = FALSE
      <3>1. PICK l \in links :
              viewers' = [viewers EXCEPT ![r] =
                  [channel |-> l.channel, sources |-> l.sources, client |-> proxyAuth(l),
                   source |-> 1, copying |-> FALSE]]
        BY <1>6 DEF Open
      <3>2. [channel |-> l.channel, sources |-> l.sources, client |-> proxyAuth(l),
             source |-> 1, copying |-> FALSE].copying = FALSE
        OBVIOUS
      <3>3. QED
        BY <3>1, <3>2
    <2>2. UNCHANGED <<config, values, zeroAge>> /\ ~Copying(r)
      BY <1>6 DEF Open, gaugeVars, Copying
    <2>3. QED
      BY <2>1, <2>2, NotCounted
  <1>7. ASSUME NEW r \in Requests, SourceFails(r) \/ AllFailed(r)
        PROVE  GaugeInv'
    <2>1. /\ viewers[r] \in Viewer /\ viewers[r].copying = FALSE /\ ~Copying(r)
          /\ UNCHANGED <<config, values, zeroAge>>
      <3>1. Trying(r) /\ UNCHANGED <<config, values, zeroAge>>
        BY <1>7 DEF SourceFails, AllFailed, gaugeVars
      <3>2. QED
        BY <3>1 DEF Trying, Copying, ViewersInv, Viewer
    <2>2. PICK v : viewers' = [viewers EXCEPT ![r] = v] /\ (v = Absent \/ v.copying = FALSE)
      <3>1. CASE Leave(r)
        BY <3>1 DEF Leave
      <3>2. CASE NextSource(r)
        <4>1. viewers' = [viewers EXCEPT ![r] =
                             [viewers[r] EXCEPT !.source = @ + 1, !.copying = FALSE]]
          BY <2>1, <3>2 DEF NextSource, ViewersInv, Viewer
        <4>2. [viewers[r] EXCEPT !.source = @ + 1, !.copying = FALSE].copying = FALSE
          BY <2>1 DEF Viewer
        <4>3. QED
          BY <4>1, <4>2
      <3>3. CASE viewers' = [viewers EXCEPT ![r].source = 1]
        <4>1. viewers' = [viewers EXCEPT ![r] = [viewers[r] EXCEPT !.source = 1]]
          BY <3>3 DEF ViewersInv
        <4>2. [viewers[r] EXCEPT !.source = 1].copying = FALSE
          BY <2>1 DEF Viewer
        <4>3. QED
          BY <4>1, <4>2
      <3>4. QED
        BY <1>7, <3>1, <3>2, <3>3 DEF SourceFails, AllFailed
    <2>3. QED
      BY <2>1, <2>2, NotCounted
  <1>8. ASSUME NEW r \in Requests, StartCopy(r) \/ EndCopy(r)
        PROVE  GaugeInv'
    BY <1>8, StartCounts, EndCounts
  <1>9. QED
    BY <1>1, <1>2, <1>3, <1>4, <1>5, <1>6, <1>7, <1>8
    DEF Next, vars, accessVars, LoadConfig, ReadFile, LoadFails, Loaded, Start,
        GetListing, Forget, Day

\* IncClientStreamsActive, performCleanup: at any time the gauge shows for each label
\* the viewers there are, however they come and go and labels are cleaned up.
THEOREM GaugeCounts == Spec => []GaugeCountsViewers
  <1>1. Init => GaugeInv
    <2>1. SUFFICES ASSUME Init, NEW l \in Labels
                   PROVE  Value(l) = Cardinality(Watching(l)) /\ l \notin DOMAIN zeroAge
      BY DEF GaugeInv
    <2>2. Watching(l) = {}
      BY <2>1 DEF Init, Watching, CountsFor
    <2>3. Value(l) = 0 /\ l \notin DOMAIN zeroAge
      BY <2>1 DEF Init, GaugeInit, Value
    <2>4. QED
      BY <2>2, <2>3, FS_EmptySet
  <1>2. ViewersInv /\ GaugeInv /\ [Next]_vars => GaugeInv'
    BY GaugeStep
  <1>3. GaugeInv => GaugeCountsViewers
    BY DEF GaugeInv, GaugeCountsViewers, Watching, CountsFor, Counted, Copying
  <1>4. QED
    BY <1>1, <1>2, <1>3, AccessInvariance, PTL DEF Spec
=============================================================================
