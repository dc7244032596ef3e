----------------------------- MODULE Configuration -----------------------------
(***************************************************************************)
(* The configuration: its defaults, the files it is read from, one after   *)
(* the other, and its validation (config/loader.go, config.go).            *)
(***************************************************************************)
EXTENDS ProxyConfig

CONSTANTS
    Secrets, Salts, Names   \* the empty string may be one of each

Provider == [name : Names, proxy : Proxy]
ClientConf == [name : Names, secret : Secrets, playlists : Seq(Names), epgs : Seq(Names),
               proxy : Proxy]

\* References: the names of clients and playlists in the conditions of the rules.
Config == [salt : Salts, streamTTL : Nat, fileTTL : Nat, proxy : Proxy,
           playlists : Seq(Provider), epgs : Seq(Provider), clients : Seq(ClientConf),
           ruleClients : SUBSET Names, rulePlaylists : SUBSET Names]

-----------------------------------------------------------------------------
Message(text) == [NoHandler EXCEPT !.vars["message"] = text]

\* Durations are in days.
DefaultProxy ==
    [NoProxy EXCEPT
        !.set["cacheEnabled"] = TRUE, !.set["compression"] = FALSE,
        !.set["ttl"] = 1, !.set["retention"] = 30,
        !.set["initSegments"] = 1, !.set["readyTimeout"] = 1,
        !.handlers["stream"].command = "ffmpeg",
        !.handlers["segmenter"].command = "ffmpeg",
        !.handlers["error"].command = "ffmpeg",
        !.handlers["rateLimitExceeded"] = Message("Rate limit exceeded"),
        !.handlers["linkExpired"] = Message("Link has expired"),
        !.handlers["upstreamError"] = Message("Unable to play stream")]

DefaultConfig ==
    [salt |-> "", streamTTL |-> 30, fileTTL |-> 0, proxy |-> DefaultProxy,
     playlists |-> <<>>, epgs |-> <<>>, clients |-> <<>>,
     ruleClients |-> {}, rulePlaylists |-> {}]

\* Proxy.UnmarshalYAML: commands are replaced, variables merged.
UnmarshalYAML(prev, p) ==
    [concurrency |-> IF p.concurrency > 0 THEN p.concurrency ELSE prev.concurrency,
     set |-> [f \in Settings |-> Override(prev.set[f], p.set[f])],
     handlers |-> [h \in HandlerNames |-> mergeHandler(prev.handlers[h], p.handlers[h])]]

\* A file has some of the elements; each replaces the one before it.
DecodeFile(c, file) ==
    [k \in DOMAIN c |-> IF k \notin DOMAIN file THEN c[k]
                        ELSE IF k = "proxy" THEN UnmarshalYAML(c.proxy, file.proxy)
                        ELSE file[k]]

-----------------------------------------------------------------------------
Named(providers) == {providers[i].name : i \in DOMAIN providers}
Unique(s) == \A i, j \in DOMAIN s : s[i] = s[j] => i = j

ValidateProxyGlobal(p) ==
    p.set["cacheEnabled"] = TRUE =>
        p.set["ttl"] \notin {Absent, 0} /\ p.set["retention"] \notin {Absent, 0}

\* Mutant: a TTL of 0 passes.
ValidateOverrideZero(p) == p.set["ttl"] = Absent \/ p.set["cacheEnabled"] # FALSE

\* No cache.ttl where the cache is disabled, and none of 0.
ValidateOverride(p) ==
    p.set["ttl"] = Absent \/ (p.set["cacheEnabled"] # FALSE /\ p.set["ttl"] # 0)

ValidProviders(providers) ==
    /\ \A i \in DOMAIN providers : providers[i].name # "" /\ ValidateOverride(providers[i].proxy)
    /\ Unique([i \in DOMAIN providers |-> providers[i].name])

\* Mutant: only the first playlist of a client is looked up.
KnownPlaylistsFirst(client, c) ==
    client.playlists # <<>> => client.playlists[1] \in Named(c.playlists)

KnownPlaylists(client, c) == ToSet(client.playlists) \subseteq Named(c.playlists)

\* Mutant: secrets may be equal.
DifferentSecretsUnchecked(c) == TRUE

DifferentSecrets(c) == Unique([i \in DOMAIN c.clients |-> c.clients[i].secret])

ValidClients(c) ==
    /\ \A i \in DOMAIN c.clients :
          LET client == c.clients[i] IN
          /\ client.name # "" /\ client.secret # ""
          /\ KnownPlaylists(client, c)
          /\ ToSet(client.epgs) \subseteq Named(c.epgs)
          /\ ValidateOverride(client.proxy)
    /\ Unique([i \in DOMAIN c.clients |-> c.clients[i].name])
    /\ DifferentSecrets(c)

Validate(c) ==
    /\ c.salt # ""
    /\ ValidateProxyGlobal(c.proxy)
    /\ ValidProviders(c.playlists) /\ ValidProviders(c.epgs)
    /\ ValidClients(c)
    /\ c.ruleClients \subseteq Named(c.clients)
    /\ c.rulePlaylists \subseteq Named(c.playlists)
=============================================================================
