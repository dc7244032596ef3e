------------------------------ MODULE ProxyConfig ------------------------------
(***************************************************************************)
(* The proxy block of the configuration, which exists globally, for a      *)
(* playlist or an EPG and for a client, and how the three are merged       *)
(* (app/utils.go).                                                         *)
(***************************************************************************)
EXTENDS Integers, Sequences, FiniteSetsExt, SequencesExt

CONSTANTS
    Absent,     \* not set
    Commands,
    VarNames,   \* template and environment variables
    Texts       \* their values

ASSUME AbsentAssumption ==
    Absent \notin Commands /\ Absent \notin Texts /\ Absent \notin BOOLEAN /\ Absent \notin Nat

Maybe(S) == S \cup {Absent}

\* Fields that are overridden as a whole; headers are one of the Texts.
Settings == {"enabled", "cacheEnabled", "compression", "ttl", "retention",
             "initSegments", "readyTimeout", "headers"}

ErrorKinds == {"rateLimitExceeded", "linkExpired", "upstreamError"}
HandlerNames == ErrorKinds \cup {"stream", "segmenter", "error"}
Handler == [command : Maybe(Commands), vars : [VarNames -> Maybe(Texts)]]

Setting == [enabled : Maybe(BOOLEAN), cacheEnabled : Maybe(BOOLEAN), compression : Maybe(BOOLEAN),
            ttl : Maybe(Nat), retention : Maybe(Nat), initSegments : Maybe(Nat),
            readyTimeout : Maybe(Nat), headers : Maybe(Texts)]
Proxy == [concurrency : Nat, set : Setting, handlers : [HandlerNames -> Handler]]

NoHandler == [command |-> Absent, vars |-> [n \in VarNames |-> Absent]]
NoProxy == [concurrency |-> 0, set |-> [f \in Settings |-> Absent],
            handlers |-> [h \in HandlerNames |-> NoHandler]]

-----------------------------------------------------------------------------
Override(base, value) == IF value = Absent THEN base ELSE value

\* Mutant: the variables of the level below come last.
MergeNameValuesReversed(base, override) ==
    [n \in VarNames |-> Override(override[n], base[n])]

MergeNameValues(base, override) == [n \in VarNames |-> Override(base[n], override[n])]

\* Also mergeHandlerVars, when one file follows another.
mergeHandler(base, h) ==
    [command |-> Override(base.command, h.command), vars |-> MergeNameValues(base.vars, h.vars)]

\* An error's own handler comes after the common one of this level and those below,
\* which it also inherited at the levels below.
mergeErrors(result, p, kind) ==
    mergeHandler(mergeHandler(mergeHandler(result.handlers["error"], p.handlers["error"]),
                              result.handlers[kind]),
                 p.handlers[kind])

mergeLevel(result, p) ==
    [concurrency |-> IF p.concurrency > 0 THEN p.concurrency ELSE result.concurrency,
     set |-> [f \in Settings |-> Override(result.set[f], p.set[f])],
     handlers |-> [h \in HandlerNames |->
                      IF h \in ErrorKinds THEN mergeErrors(result, p, h)
                      ELSE mergeHandler(result.handlers[h], p.handlers[h])]]

\* Of the server, of a provider and of a client, in this order.
mergeProxies(server, provider, client) ==
    mergeLevel(mergeLevel(mergeLevel(NoProxy, server), provider), client)

\* httpClientOptions
CacheEnabled(p) == p.set["cacheEnabled"] = TRUE
IsProxied(p) == p.set["enabled"] = TRUE

-----------------------------------------------------------------------------
\* The last level that sets a value, or none.
LastSet(server, provider, client) == Override(Override(server, provider), client)

\* docs/config/proxy.md: what a level sets overrides the levels before it, field by
\* field and variable by variable; for the kinds of errors, what it sets for that kind.
OverridesWin(server, provider, client) ==
    LET p == mergeProxies(server, provider, client)
        command(h) == LastSet(server.handlers[h].command, provider.handlers[h].command,
                              client.handlers[h].command)
        var(h, n) == LastSet(server.handlers[h].vars[n], provider.handlers[h].vars[n],
                             client.handlers[h].vars[n]) IN
    /\ \A f \in Settings : p.set[f] = LastSet(server.set[f], provider.set[f], client.set[f])
    /\ \A h \in HandlerNames : command(h) # Absent => p.handlers[h].command = command(h)
    /\ \A h \in HandlerNames, n \in VarNames :
          var(h, n) # Absent => p.handlers[h].vars[n] = var(h, n)
=============================================================================
