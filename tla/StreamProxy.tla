----------------------------- MODULE StreamProxy -----------------------------
(***************************************************************************)
(* The stream handler of the HTTP server (src/internal/server): a request  *)
(* takes a permit of the global semaphore and one of its client's, then    *)
(* tries the sources of its channel in order, twice at most, and answers   *)
(* with a stream, with an error stream, or with an HTTP error.             *)
(*                                                                         *)
(* The stream pool is present as its specification SharedStreams sees it:  *)
(* feed[k] is the subscription whose permit the active segmenter of stream *)
(* k holds.                                                                *)
(***************************************************************************)
EXTENDS Integers, Sequences, FiniteSets

CONSTANTS
    Requests,
    Clients,
    ClientOf,      \* the client a request's token was issued to
    SourcesOf,     \* a request's StreamData.Streams: [key, sub] records in order
    Keys,          \* stream keys
    Subs,          \* subscriptions
    NoSub,         \* a source whose provider is no longer configured; no feed
    Concurrency,   \* a subscription's limit; 0: none
    GlobalLimit,   \* the manager's semaphore; 0: nil
    ClientLimit    \* a client's semaphore; 0: nil

ASSUME RequestsAssumption ==
    /\ IsFiniteSet(Requests) /\ NoSub \notin Subs
    /\ ClientOf \in [Requests -> Clients]
    /\ SourcesOf \in [Requests -> Seq([key : Keys, sub : Subs \cup {NoSub}])]

\* proxyAuthMiddleware lets a request through only if the playlist of its first
\* source is configured (so handleStreamProxy's 503 answer is never reached).
ASSUME FirstSourceAssumption ==
    \A r \in Requests : SourcesOf[r] # <<>> /\ SourcesOf[r][1].sub # NoSub

ASSUME LimitsAssumption ==
    /\ Concurrency \in [Subs -> Nat]
    /\ GlobalLimit \in Nat
    /\ ClientLimit \in [Clients -> Nat]

VARIABLES
    pc,       \* where a request's handler is
    acq,      \* the two goroutines of acquireSemaphores
    gone,     \* the client has disconnected: the request's context is cancelled
    attempt,  \* handleStreamProxy's loop counter
    idx,      \* tryAllStreams' loop counter
    outcome,  \* what became of each source in the current attempt
    answer,   \* what the client was sent
    gheld,    \* permits taken from the manager's semaphore
    cheld,    \* permits taken from a client's semaphore
    feed      \* the stream pool

semVars == <<gheld, cheld>>
tryVars == <<attempt, idx, outcome>>
vars == <<pc, acq, gone, tryVars, answer, semVars, feed>>

-----------------------------------------------------------------------------
maxRetryAttempts == 2
Sems == {"global", "client"}
Source(r) == SourcesOf[r][idx[r]]

TypeOK ==
    /\ pc \in [Requests -> {"idle", "acquiring", "trying", "waiting",
                            "copying", "answering", "done"}]
    /\ acq \in [Requests -> [Sems -> {"unused", "waiting", "held", "failed", "released"}]]
    /\ gone \in [Requests -> BOOLEAN]
    /\ attempt \in [Requests -> 0 .. maxRetryAttempts - 1]
    /\ idx \in [Requests -> Nat]
    /\ \A r \in Requests :
          outcome[r] \in [1 .. Len(SourcesOf[r]) ->
                          {"untried", "skipped", "limit", "failed", "empty", "streamed"}]
    /\ answer \in [Requests -> {"none", "stream", "limit", "upstream", "502"}]
    /\ gheld \in Nat
    /\ cheld \in [Clients -> Nat]
    /\ feed \in [Keys -> Subs \cup {NoSub}]

Untried(r) == [i \in 1 .. Len(SourcesOf[r]) |-> "untried"]

Init ==
    /\ pc = [r \in Requests |-> "idle"]
    /\ acq = [r \in Requests |-> [w \in Sems |-> "unused"]]
    /\ gone = [r \in Requests |-> FALSE]
    /\ attempt = [r \in Requests |-> 0]
    /\ idx = [r \in Requests |-> 1]
    /\ outcome = [r \in Requests |-> Untried(r)]
    /\ answer = [r \in Requests |-> "none"]
    /\ gheld = 0
    /\ cheld = [c \in Clients |-> 0]
    /\ feed = [k \in Keys |-> NoSub]

-----------------------------------------------------------------------------
(* acquireSemaphores: one goroutine per semaphore, in an errgroup. *)

limit(r, w) == IF w = "global" THEN GlobalLimit ELSE ClientLimit[ClientOf[r]]
held(r, w)  == IF w = "global" THEN gheld ELSE cheld[ClientOf[r]]

\* The permits of one kind move by d.
changeHeld(r, w, d) ==
    /\ gheld' = IF w = "global" THEN gheld + d ELSE gheld
    /\ cheld' = IF w = "client" THEN [cheld EXCEPT ![ClientOf[r]] = @ + d] ELSE cheld

\* The errgroup's context: cancelled with the request's, or by the first failure.
groupCancelled(r) == gone[r] \/ \E w \in Sems : acq[r][w] = "failed"

Arrive(r) ==
    /\ pc[r] = "idle"
    /\ pc' = [pc EXCEPT ![r] = "acquiring"]
    /\ acq' = [acq EXCEPT ![r] =
                  [w \in Sems |-> IF limit(r, w) = 0 THEN "unused" ELSE "waiting"]]
    /\ UNCHANGED <<gone, tryVars, answer, semVars, feed>>

AcquireSemaphore(r, w) ==
    /\ pc[r] = "acquiring"
    /\ acq[r][w] = "waiting"
    /\ ~groupCancelled(r)
    /\ held(r, w) < limit(r, w)
    /\ changeHeld(r, w, 1)
    /\ acq' = [acq EXCEPT ![r][w] = "held"]
    /\ UNCHANGED <<pc, gone, tryVars, answer, feed>>

\* semaphoreTimeout passes with no permit free, or the context is cancelled.
AcquireFails(r, w) ==
    /\ pc[r] = "acquiring"
    /\ acq[r][w] = "waiting"
    /\ groupCancelled(r) \/ held(r, w) >= limit(r, w)
    /\ acq' = [acq EXCEPT ![r][w] = "failed"]
    /\ UNCHANGED <<pc, gone, tryVars, answer, semVars, feed>>

\* Mutant: g.Wait's error is ignored.
AdmitAnyway(r) ==
    /\ pc[r] = "acquiring"
    /\ \A w \in Sems : acq[r][w] # "waiting"
    /\ pc' = [pc EXCEPT ![r] = "trying"]
    /\ UNCHANGED <<acq, gone, tryVars, answer, semVars, feed>>

\* g.Wait() == nil.
Admit(r) ==
    /\ pc[r] = "acquiring"
    /\ \A w \in Sems : acq[r][w] \in {"unused", "held"}
    /\ pc' = [pc EXCEPT ![r] = "trying"]
    /\ UNCHANGED <<acq, gone, tryVars, answer, semVars, feed>>

\* A goroutine failed: the limit stream of the first source's playlist.  The
\* handler returns before releaseSemaphores is deferred, so whatever the other
\* goroutine holds it keeps.
Refuse(r) ==
    /\ pc[r] = "acquiring"
    /\ \A w \in Sems : acq[r][w] # "waiting"
    /\ \E w \in Sems : acq[r][w] = "failed"
    /\ pc' = [pc EXCEPT ![r] = "answering"]
    /\ answer' = [answer EXCEPT ![r] = "limit"]
    /\ UNCHANGED <<acq, gone, tryVars, semVars, feed>>

-----------------------------------------------------------------------------
(* tryAllStreams and tryStream. *)

NextSource(r, result) ==
    /\ outcome' = [outcome EXCEPT ![r][idx[r]] = result]
    /\ idx' = [idx EXCEPT ![r] = @ + 1]
    /\ UNCHANGED attempt

\* Active segmenters of a subscription; one more fits.
FeedsOf(b) == {k \in Keys : feed[k] = b}
PermitFree(b) == Concurrency[b] > 0 => Cardinality(FeedsOf(b)) < Concurrency[b]

\* The provider is gone, or is no playlist.
SkipSource(r) ==
    /\ pc[r] = "trying"
    /\ idx[r] <= Len(SourcesOf[r])
    /\ Source(r).sub = NoSub
    /\ NextSource(r, "skipped")
    /\ UNCHANGED <<pc, acq, gone, answer, semVars, feed>>

\* Mutant: the permit is asked for before the stream is looked up.
LimitedThoughPlaying(r) ==
    /\ pc[r] = "trying"
    /\ idx[r] <= Len(SourcesOf[r])
    /\ Source(r).sub # NoSub
    /\ ~PermitFree(Source(r).sub)
    /\ NextSource(r, "limit")
    /\ UNCHANGED <<pc, acq, gone, answer, semVars, feed>>

\* GetReader: ErrSubscriptionSemaphore.
SourceLimited(r) ==
    /\ pc[r] = "trying"
    /\ idx[r] <= Len(SourcesOf[r])
    /\ Source(r).sub # NoSub
    /\ feed[Source(r).key] = NoSub
    /\ ~PermitFree(Source(r).sub)
    /\ NextSource(r, "limit")
    /\ UNCHANGED <<pc, acq, gone, answer, semVars, feed>>

\* GetReader starts a segmenter or joins one, and waits for it.
GetReader(r) ==
    /\ pc[r] = "trying"
    /\ idx[r] <= Len(SourcesOf[r])
    /\ Source(r).sub # NoSub
    /\ \/ feed[Source(r).key] # NoSub /\ UNCHANGED feed
       \/ /\ feed[Source(r).key] = NoSub
          /\ PermitFree(Source(r).sub)
          /\ feed' = [feed EXCEPT ![Source(r).key] = Source(r).sub]
    /\ pc' = [pc EXCEPT ![r] = "waiting"]
    /\ UNCHANGED <<acq, gone, tryVars, answer, semVars>>

\* The segmenter fails, is not ready in time, or the client is gone.
SourceFails(r) ==
    /\ pc[r] = "waiting"
    /\ pc' = [pc EXCEPT ![r] = "trying"]
    /\ NextSource(r, "failed")
    /\ UNCHANGED <<acq, gone, answer, semVars, feed>>

\* GetReader returns a reader; streamToResponse begins to copy.
SourceOpens(r) ==
    /\ pc[r] = "waiting"
    /\ pc' = [pc EXCEPT ![r] = "copying"]
    /\ UNCHANGED <<acq, gone, tryVars, answer, semVars, feed>>

\* io.Copy ends without an error and without a byte.
CopyEmpty(r) ==
    /\ pc[r] = "copying"
    /\ pc' = [pc EXCEPT ![r] = "trying"]
    /\ NextSource(r, "empty")
    /\ UNCHANGED <<acq, gone, answer, semVars, feed>>

\* The segmenter of a stream ends, in SharedStreams at any time.
EndFeed(k) ==
    /\ feed[k] # NoSub
    /\ feed' = [feed EXCEPT ![k] = NoSub]
    /\ UNCHANGED <<pc, acq, gone, tryVars, answer, semVars>>

-----------------------------------------------------------------------------
(* handleStreamProxy after its semaphores. *)

GivenBack(r) ==
    acq' = [acq EXCEPT ![r] = [w \in Sems |-> IF @[w] = "held" THEN "released" ELSE @[w]]]

\* Mutant: the client's permit is forgotten.
releaseGlobalOnly(r) ==
    /\ gheld' = IF limit(r, "global") > 0 THEN gheld - 1 ELSE gheld
    /\ acq' = [acq EXCEPT ![r]["global"] = IF @ = "held" THEN "released" ELSE @]
    /\ UNCHANGED cheld

\* Mutant: the test for nil is inverted.
releaseNothing(r) == GivenBack(r) /\ UNCHANGED semVars

\* Each semaphore that is not nil.
releaseSemaphores(r) ==
    /\ gheld' = IF limit(r, "global") > 0 THEN gheld - 1 ELSE gheld
    /\ cheld' = IF limit(r, "client") > 0
                THEN [cheld EXCEPT ![ClientOf[r]] = @ - 1] ELSE cheld
    /\ GivenBack(r)

Refused(r) == \E w \in Sems : acq[r][w] = "failed"
AllTried(r) == pc[r] = "trying" /\ idx[r] > Len(SourcesOf[r])
Tried(r, result) == \E i \in DOMAIN outcome[r] : outcome[r][i] = result

\* Bytes were written, or the copy failed: no other source is tried.
Streamed(r) ==
    /\ pc[r] = "copying"
    /\ outcome' = [outcome EXCEPT ![r][idx[r]] = "streamed"]
    /\ answer' = [answer EXCEPT ![r] = "stream"]
    /\ pc' = [pc EXCEPT ![r] = "done"]
    /\ releaseSemaphores(r)
    /\ UNCHANGED <<gone, attempt, idx, feed>>

\* Mutant: the loop's counter is not advanced.
RetryForEver(r) ==
    /\ AllTried(r)
    /\ attempt[r] + 1 < maxRetryAttempts
    /\ idx' = [idx EXCEPT ![r] = 1]
    /\ outcome' = [outcome EXCEPT ![r] = Untried(r)]
    /\ UNCHANGED <<pc, acq, gone, attempt, answer, semVars, feed>>

\* The next attempt (after retryTimeout, if some source was limited).
Retry(r) ==
    /\ AllTried(r)
    /\ attempt[r] + 1 < maxRetryAttempts
    /\ attempt' = [attempt EXCEPT ![r] = @ + 1]
    /\ idx' = [idx EXCEPT ![r] = 1]
    /\ outcome' = [outcome EXCEPT ![r] = Untried(r)]
    /\ UNCHANGED <<pc, acq, gone, answer, semVars, feed>>

\* What the last attempt's flags say; the first source's playlist exists.
errorAnswer(r) ==
    CASE Tried(r, "limit") -> "limit"
      [] ~Tried(r, "limit") /\ Tried(r, "empty") -> "upstream"
      [] OTHER -> "502"

\* All attempts failed: the error stream (or 502) begins, the permits held.
GiveUp(r) ==
    /\ AllTried(r)
    /\ attempt[r] + 1 = maxRetryAttempts
    /\ answer' = [answer EXCEPT ![r] = errorAnswer(r)]
    /\ pc' = [pc EXCEPT ![r] = "answering"]
    /\ UNCHANGED <<acq, gone, tryVars, semVars, feed>>

\* Mutant: the release is deferred before the semaphores are acquired.
ReturnReleases(r) ==
    /\ pc[r] = "answering"
    /\ pc' = [pc EXCEPT ![r] = "done"]
    /\ releaseSemaphores(r)
    /\ UNCHANGED <<gone, tryVars, answer, feed>>

\* The error stream is over: the deferred release, if it was deferred.
Return(r) ==
    /\ pc[r] = "answering"
    /\ pc' = [pc EXCEPT ![r] = "done"]
    /\ IF Refused(r) THEN UNCHANGED <<acq, semVars>> ELSE releaseSemaphores(r)
    /\ UNCHANGED <<gone, tryVars, answer, feed>>

\* The client disconnects.
ClientGone(r) ==
    /\ pc[r] \notin {"idle", "done"}
    /\ ~gone[r]
    /\ gone' = [gone EXCEPT ![r] = TRUE]
    /\ UNCHANGED <<pc, acq, tryVars, answer, semVars, feed>>

-----------------------------------------------------------------------------
Acquire(r, w) == AcquireSemaphore(r, w) \/ AcquireFails(r, w)

Handler(r) ==
    \/ Admit(r) \/ Refuse(r)
    \/ SkipSource(r) \/ SourceLimited(r) \/ GetReader(r)
    \/ gone[r] /\ SourceFails(r)
    \/ Retry(r) \/ GiveUp(r)

Terminating ==
    /\ \A r \in Requests : pc[r] = "done"
    /\ \A k \in Keys : feed[k] = NoSub
    /\ UNCHANGED vars

Next ==
    \/ \E r \in Requests : \/ Arrive(r) \/ Handler(r) \/ ClientGone(r)
                           \/ SourceFails(r) \/ SourceOpens(r)
                           \/ CopyEmpty(r) \/ Streamed(r) \/ Return(r)
                           \/ \E w \in Sems : Acquire(r, w)
    \/ \E k \in Keys : EndFeed(k)
    \/ Terminating

Spec == Init /\ [][Next]_vars

\* The handler and its two goroutines run.  GetReader returns once the client is
\* gone (clientCtx.Done); otherwise nothing makes it return, nor a viewer leave.
Fairness ==
    \A r \in Requests : /\ WF_vars(Handler(r))
                        /\ \A w \in Sems : WF_vars(Acquire(r, w))

FairSpec == Spec /\ Fairness

-----------------------------------------------------------------------------
Holders(w) == {r \in Requests : acq[r][w] = "held"}
OfClient(c) == {r \in Requests : ClientOf[r] = c}
\* Requests past the semaphores, streaming or being told that they cannot.
Served == {r \in Requests : \/ pc[r] \in {"trying", "waiting", "copying"}
                            \/ pc[r] = "answering" /\ ~Refused(r)}

\* acquireSemaphores/releaseSemaphores: each semaphore counts the requests that
\* took a permit and have not released it, on every path of the handler.
PermitAccounting ==
    /\ gheld = Cardinality(Holders("global"))
    /\ \A c \in Clients : cheld[c] = Cardinality(Holders("client") \cap OfClient(c))

\* The limits of docs/config/proxy.md: no more requests are served at a time
\* than the server, and each client, allow.
ServedWithinLimits ==
    /\ GlobalLimit > 0 => Cardinality(Served) <= GlobalLimit
    /\ \A c \in Clients : ClientLimit[c] > 0 =>
          Cardinality(Served \cap OfClient(c)) <= ClientLimit[c]

\* The deferred releaseSemaphores: a request that was served, to whatever end,
\* has given back both its permits.
ServedReleasesPermits ==
    \A r \in Requests : pc[r] = "done" /\ ~Refused(r) =>
        \A w \in Sems : acq[r][w] # "held"

\* The streams of a subscription that were asked for so far, as first choice or not.
KeysOf(b) ==
    {k \in Keys : \E r \in Requests : \E i \in DOMAIN SourcesOf[r] :
        /\ pc[r] # "idle"
        /\ SourcesOf[r][i] = [key |-> k, sub |-> b]}
Contended(b) == b \in Subs /\ Concurrency[b] > 0 /\ Cardinality(KeysOf(b)) > Concurrency[b]

\* GetReader joins before it acquires: all viewers of one channel, later attempts and
\* fallbacks to it share one permit.  Past its own semaphores a client is told of a
\* limit only if more streams of one of its subscriptions were asked for than the
\* subscription has permits, by whatever retries, fallbacks and segmenters that
\* outlive their viewers.
ViewersSharePermit ==
    \A r \in Requests : answer[r] = "limit" /\ ~Refused(r) =>
        \E i \in DOMAIN SourcesOf[r] : Contended(SourcesOf[r][i].sub)

\* maxRetryAttempts, semaphoreTimeout: a request is streaming or answered in the
\* end, unless the pool never answers a client that never leaves (StreamPool's
\* WaitEnds).
RequestsAnswered ==
    \A r \in Requests :
        \/ pc[r] = "acquiring" ~> pc[r] \in {"copying", "answering", "done"}
        \/ <>[](pc[r] = "waiting" /\ ~gone[r])

-----------------------------------------------------------------------------
(* What the documentation says and the code does not do. *)

\* docs/config/proxy.md, concurrency: "Maximum concurrent streams".  A permit is
\* held by a request that still streams: but a request refused by one semaphore
\* keeps the permit of the other for ever.
PermitsOnlyForStreams ==
    \A r \in Requests : pc[r] = "done" => \A w \in Sems : acq[r][w] # "held"
=============================================================================
