------------------------------- MODULE MCAccess -------------------------------
(* A small instance of Access for TLC. *)
EXTENDS Access

MCNames == {"", "c1", "c2", "p", "q", "x", "e", "ch"}
MCLabels == {"c1", "c2"} \X {"p", "q"} \X {"ch"}

src(type, name, hidden) == [type |-> type, name |-> name, hidden |-> hidden]
offer(type, sources) == [type |-> type, channel |-> "ch", sources |-> sources]
inP == src("playlist", "p", FALSE)
inQ == src("playlist", "q", FALSE)
hiddenQ == src("playlist", "q", TRUE)
MCOffers == {offer("stream", <<inP, inQ>>), offer("stream", <<hiddenQ, inP>>),
             offer("file", <<inQ>>), offer("file", <<src("epg", "e", FALSE)>>)}

-----------------------------------------------------------------------------
var(text) == [NoHandler EXCEPT !.vars["message"] = text]
command(c) == [NoHandler EXCEPT !.command = c]
On == [NoProxy EXCEPT !.set["enabled"] = TRUE, !.handlers["error"] = command("vlc"),
                      !.handlers["stream"] = var("one")]
Off == [NoProxy EXCEPT !.set["enabled"] = FALSE]
Tuned == [NoProxy EXCEPT !.set["enabled"] = TRUE, !.set["ttl"] = 2, !.concurrency = 1,
                         !.handlers["linkExpired"] = var("two"),
                         !.handlers["stream"] = var("two")]
Zero == [NoProxy EXCEPT !.set["ttl"] = 0]
NoCache == [NoProxy EXCEPT !.set["cacheEnabled"] = FALSE, !.set["ttl"] = 0]
Unparsed == [NoProxy EXCEPT !.handlers["error"] = command("{{")]
CacheOn == [NoProxy EXCEPT !.set["cacheEnabled"] = TRUE]

provider(name, proxy) == [name |-> name, proxy |-> proxy]
client(name, secret, playlists, proxy) ==
    [name |-> name, secret |-> secret, playlists |-> playlists, epgs |-> <<>>, proxy |-> proxy]

P == provider("p", Tuned)
Q == provider("q", NoProxy)
Both == [salt |-> "s", streamTTL |-> 1, proxy |-> On, playlists |-> <<P, Q>>,
         epgs |-> <<provider("e", NoProxy)>>,
         clients |-> <<client("c1", "1", <<"p">>, NoProxy), client("c2", "2", <<>>, Tuned)>>,
         ruleClients |-> {"c1"}, rulePlaylists |-> {"q"}]
With(file, more) == [k \in DOMAIN file \cup DOMAIN more |->
                        IF k \in DOMAIN more THEN more[k] ELSE file[k]]
clients(cs) == With(Both, [clients |-> cs, ruleClients |-> {}])

\* The second file of a directory replaces the clients; other configurations change
\* the salt, lifetimes, playlists and secrets; and some are not accepted.
MCConfigFiles ==
    {<<Both>>,
     <<Both, [clients |-> <<client("c1", "1", <<"q">>, Off), client("c2", "1", <<>>, CacheOn)>>]>>,
     <<With(Both, [salt |-> "t", fileTTL |-> 1, streamTTL |-> 0, proxy |-> Off])>>,
     <<Both, [proxy |-> NoCache, fileTTL |-> 1,
              clients |-> <<client("c2", "2", <<"q">>, CacheOn), client("c1", "1", <<"p", "q">>, NoProxy)>>]>>,
     <<clients(<<client("c1", "1", <<"q">>, NoProxy), client("c2", "2", <<"p", "x">>, NoProxy)>>)>>,
     <<clients(<<client("c1", "1", <<"q">>, Zero)>>)>>,
     <<clients(<<client("c1", "1", <<>>, Unparsed)>>)>>,
     <<With(Both, [rulePlaylists |-> {"x"}])>>,
     <<[clients |-> Both.clients], Both>>}
=============================================================================
