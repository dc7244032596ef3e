------------------------------ MODULE StreamPool ------------------------------
(***************************************************************************)
(* The stream pool (src/internal/streampool): viewers of one channel share *)
(* a segmenter, an external process that writes segments to a directory.   *)
(* Each element of Calls is one call of StreamPool.GetReader; it creates   *)
(* at most one segmenter, which the model names after the call.            *)
(*                                                                         *)
(* Goroutines per call c: the caller itself (pc), and, if c creates a      *)
(* segmenter, runSegmenter (run), its watcher (cancelled), and             *)
(* waitForSegments.  segmenterPool.remove is run by a caller that gets no  *)
(* permit and by runSegmenter; stopAll by Server.  Each step below is what *)
(* happens between two points where another goroutine can run.             *)
(***************************************************************************)
EXTENDS Integers, FiniteSets

CONSTANTS
    Calls,         \* GetReader calls
    Keys,          \* stream keys (hash of the stream URL)
    Subs,          \* subscriptions: a client's use of a playlist.  The manager
                   \* makes one semaphore for each (addPlaylistProvider)
    KeyOf,         \* Request.StreamKey of a call
    SubOf,         \* the subscription whose Request.Semaphore a call carries
    Concurrency,   \* size of a subscription's semaphore; 0: no semaphore (nil)
    InitSegments,  \* segments that must exist before clients may read
    NoSeg,         \* no segmenter
    Server         \* the goroutine that runs StreamPool.Stop

ASSUME CallsAssumption ==
    IsFiniteSet(Calls) /\ NoSeg \notin Calls /\ Server \notin Calls

ASSUME RequestAssumption ==
    KeyOf \in [Calls -> Keys] /\ SubOf \in [Calls -> Subs]

\* Segmenter.Validate rejects init_segments < 1.
ASSUME ConfigAssumption ==
    /\ Concurrency \in [Subs -> Nat]
    /\ InitSegments \in Nat \ {0}

VARIABLES
    pc,         \* where a GetReader call is
    segOf,      \* the segmenter a call got from getOrCreate
    count,      \* segmenter.clientCount
    empty,      \* segmenter.emptyChan is closed
    stopped,    \* segmenter.ctx is cancelled
    ready,      \* segmenter.ready and startErr: "pending", "ok" or "err"
    run,        \* where runSegmenter is
    cancelled,  \* its segCtx is cancelled
    rm,         \* where segmenterPool.remove (or stopAll) is
    victim,     \* the segmenter it took out of the map
    doomed,     \* stopAll: segmenters still to be stopped
    pool,       \* segmenterPool.segmenters
    held,       \* permits taken from a subscription semaphore
    dir         \* .ts files in a stream's directory, or NoDir

callVars   == <<pc, segOf>>
segVars    == <<count, empty, stopped, ready>>
runVars    == <<run, cancelled>>
removeVars == <<rm, victim, doomed>>
sharedVars == <<pool, held, dir>>
vars == <<callVars, segVars, runVars, removeVars, sharedVars>>

-----------------------------------------------------------------------------
NoDir   == -1
Agents  == Calls \cup {Server}
\* From its permit to its release, a segmenter is active.
Active  == {"starting", "running", "exited", "releasing"}
Limited(b) == Concurrency[b] > 0

TypeOK ==
    /\ pc \in [Calls -> {"idle", "acquiring", "removing", "joining",
                         "waiting", "reading", "returned"}]
    /\ segOf \in [Calls -> Calls \cup {NoSeg}]
    /\ count \in [Calls -> Int]
    /\ empty \in [Calls -> BOOLEAN]
    /\ stopped \in [Calls -> BOOLEAN]
    /\ ready \in [Calls -> {"pending", "ok", "err"}]
    /\ run \in [Calls -> {"none", "removing"} \cup Active]
    /\ cancelled \in [Calls -> BOOLEAN]
    /\ rm \in [Agents -> {"idle", "delete", "next", "stop", "clean", "done"}]
    /\ victim \in [Agents -> Calls \cup {NoSeg}]
    /\ doomed \in SUBSET Calls
    /\ pool \in [Keys -> Calls \cup {NoSeg}]
    /\ held \in [Subs -> Nat]   \* Weighted.Release panics below zero
    /\ dir \in [Keys -> NoDir .. InitSegments]

Init ==
    /\ pc = [c \in Calls |-> "idle"]
    /\ segOf = [c \in Calls |-> NoSeg]
    /\ count = [s \in Calls |-> 0]
    /\ empty = [s \in Calls |-> FALSE]
    /\ stopped = [s \in Calls |-> FALSE]
    /\ ready = [s \in Calls |-> "pending"]
    /\ run = [s \in Calls |-> "none"]
    /\ cancelled = [s \in Calls |-> FALSE]
    /\ rm = [a \in Agents |-> "idle"]
    /\ victim = [a \in Agents |-> NoSeg]
    /\ doomed = {}
    /\ pool = [k \in Keys |-> NoSeg]
    /\ held = [b \in Subs |-> 0]
    /\ dir = [k \in Keys |-> NoDir]

-----------------------------------------------------------------------------
(* The segmenter's own methods; each updates count, empty, stopped, ready. *)

\* readyOnce: the first outcome stays.
setReady(s, outcome) ==
    ready' = [ready EXCEPT ![s] = IF @ = "pending" THEN outcome ELSE @]

addClient(s) ==
    /\ count' = [count EXCEPT ![s] = @ + 1]
    /\ UNCHANGED <<empty, stopped, ready>>

\* Mutant: the last viewer is seen to leave one viewer early.
removeClientEarly(s) ==
    /\ count' = [count EXCEPT ![s] = @ - 1]
    /\ empty' = [empty EXCEPT ![s] = @ \/ count[s] - 1 <= 1]
    /\ UNCHANGED <<stopped, ready>>

\* Mutant: < 0 for <= 0.
removeClientLate(s) ==
    /\ count' = [count EXCEPT ![s] = @ - 1]
    /\ empty' = [empty EXCEPT ![s] = @ \/ count[s] - 1 < 0]
    /\ UNCHANGED <<stopped, ready>>

removeClient(s) ==
    /\ count' = [count EXCEPT ![s] = @ - 1]
    /\ empty' = [empty EXCEPT ![s] = @ \/ count[s] - 1 <= 0]
    /\ UNCHANGED <<stopped, ready>>

stop(s) ==
    /\ stopped' = [stopped EXCEPT ![s] = TRUE]
    /\ empty' = [empty EXCEPT ![s] = TRUE]
    /\ UNCHANGED <<count, ready>>

\* Mutant: the directory is left behind.
cleanupNothing(s) == UNCHANGED dir

\* cleanup: os.RemoveAll of the stream's directory, whoever uses it now.
cleanup(s) == dir' = [dir EXCEPT ![KeyOf[s]] = NoDir]

\* os.MkdirAll, and os.ReadDir counting the .ts files.
mkdirAll(k) == dir' = [dir EXCEPT ![k] = IF @ = NoDir THEN 0 ELSE @]
countSegments(k) == IF dir[k] = NoDir THEN 0 ELSE dir[k]

-----------------------------------------------------------------------------
(* GetReader, the caller's goroutine. *)

\* getOrCreate, no segmenter for the key: the new one enters the map, with
\* the caller counted as its client, before any permit is asked for.
CreateSegmenter(c) ==
    /\ pc[c] = "idle"
    /\ pool[KeyOf[c]] = NoSeg
    /\ pc' = [pc EXCEPT ![c] = "acquiring"]
    /\ segOf' = [segOf EXCEPT ![c] = c]
    /\ pool' = [pool EXCEPT ![KeyOf[c]] = c]
    /\ count' = [count EXCEPT ![c] = 1]
    /\ mkdirAll(KeyOf[c])
    /\ UNCHANGED <<empty, stopped, ready, runVars, removeVars, held>>

\* newSegmenter fails: before the directory exists, or after (bad template).
CreateFails(c) ==
    /\ pc[c] = "idle"
    /\ pool[KeyOf[c]] = NoSeg
    /\ pc' = [pc EXCEPT ![c] = "returned"]
    /\ \/ mkdirAll(KeyOf[c])
       \/ UNCHANGED dir
    /\ UNCHANGED <<segOf, segVars, runVars, removeVars, pool, held>>

\* getOrCreate, a segmenter is registered: the map's lock is released ...
FindSegmenter(c) ==
    /\ pc[c] = "idle"
    /\ pool[KeyOf[c]] # NoSeg
    /\ pc' = [pc EXCEPT ![c] = "joining"]
    /\ segOf' = [segOf EXCEPT ![c] = pool[KeyOf[c]]]
    /\ UNCHANGED <<segVars, runVars, removeVars, sharedVars>>

\* ... and only then is the caller counted.
Join(c) ==
    /\ pc[c] = "joining"
    /\ pc' = [pc EXCEPT ![c] = "waiting"]
    /\ addClient(segOf[c])
    /\ UNCHANGED <<segOf, runVars, removeVars, sharedVars>>

\* Mutant: one permit more than the semaphore has.
AcquireOneTooMany(c) ==
    /\ pc[c] = "acquiring"
    /\ Limited(SubOf[c]) => held[SubOf[c]] <= Concurrency[SubOf[c]]
    /\ pc' = [pc EXCEPT ![c] = "waiting"]
    /\ run' = [run EXCEPT ![c] = "starting"]
    /\ held' = [held EXCEPT ![SubOf[c]] = IF Limited(SubOf[c]) THEN @ + 1 ELSE @]
    /\ UNCHANGED <<segOf, segVars, cancelled, removeVars, pool, dir>>

\* A nil semaphore is always acquired; a granted permit starts runSegmenter.
AcquireSemaphore(c) ==
    /\ pc[c] = "acquiring"
    /\ Limited(SubOf[c]) => held[SubOf[c]] < Concurrency[SubOf[c]]
    /\ pc' = [pc EXCEPT ![c] = "waiting"]
    /\ run' = [run EXCEPT ![c] = "starting"]
    /\ held' = [held EXCEPT ![SubOf[c]] = IF Limited(SubOf[c]) THEN @ + 1 ELSE @]
    /\ UNCHANGED <<segOf, segVars, cancelled, removeVars, pool, dir>>

\* Mutant: a caller that got no permit releases one all the same.
TimeoutReleases(c) ==
    /\ pc[c] = "acquiring"
    /\ Limited(SubOf[c])
    /\ held[SubOf[c]] >= Concurrency[SubOf[c]]
    /\ pc' = [pc EXCEPT ![c] = "removing"]
    /\ rm' = [rm EXCEPT ![c] = "delete"]
    /\ held' = [held EXCEPT ![SubOf[c]] = @ - 1]
    /\ UNCHANGED <<segOf, segVars, runVars, victim, doomed, pool, dir>>

\* Mutant: it returns without pool.remove.
TimeoutKeepsEntry(c) ==
    /\ pc[c] = "acquiring"
    /\ Limited(SubOf[c])
    /\ held[SubOf[c]] >= Concurrency[SubOf[c]]
    /\ pc' = [pc EXCEPT ![c] = "returned"]
    /\ UNCHANGED <<segOf, segVars, runVars, removeVars, sharedVars>>

\* semaphoreTimeout passes with no permit free: the caller runs pool.remove.
AcquireTimeout(c) ==
    /\ pc[c] = "acquiring"
    /\ Limited(SubOf[c])
    /\ held[SubOf[c]] >= Concurrency[SubOf[c]]
    /\ pc' = [pc EXCEPT ![c] = "removing"]
    /\ rm' = [rm EXCEPT ![c] = "delete"]
    /\ UNCHANGED <<segOf, segVars, runVars, victim, doomed, sharedVars>>

\* remove has returned: ErrSubscriptionSemaphore.
ReturnSemaphoreError(c) ==
    /\ pc[c] = "removing"
    /\ rm[c] = "done"
    /\ pc' = [pc EXCEPT ![c] = "returned"]
    /\ UNCHANGED <<segOf, segVars, runVars, removeVars, sharedVars>>

\* <-seg.ready without startErr: the client stream starts.
StartReading(c) ==
    /\ pc[c] = "waiting"
    /\ ready[segOf[c]] = "ok"
    /\ pc' = [pc EXCEPT ![c] = "reading"]
    /\ UNCHANGED <<segOf, segVars, runVars, removeVars, sharedVars>>

\* Mutant: without removeClient.
FailedStaysCounted(c) ==
    /\ pc[c] = "waiting"
    /\ ready[segOf[c]] = "err"
    /\ pc' = [pc EXCEPT ![c] = "returned"]
    /\ UNCHANGED <<segOf, segVars, runVars, removeVars, sharedVars>>

\* <-seg.ready with startErr: ErrSegmenterFailed.
ReturnSegmenterFailed(c) ==
    /\ pc[c] = "waiting"
    /\ ready[segOf[c]] = "err"
    /\ pc' = [pc EXCEPT ![c] = "returned"]
    /\ removeClient(segOf[c])
    /\ UNCHANGED <<segOf, runVars, removeVars, sharedVars>>

\* The client goes away (clientCtx.Done) while GetReader waits.
ClientGone(c) ==
    /\ pc[c] = "waiting"
    /\ pc' = [pc EXCEPT ![c] = "returned"]
    /\ removeClient(segOf[c])
    /\ UNCHANGED <<segOf, runVars, removeVars, sharedVars>>

\* clientReader.Close, which runs once: the viewer left or its stream ended.
Close(c) ==
    /\ pc[c] = "reading"
    /\ pc' = [pc EXCEPT ![c] = "returned"]
    /\ removeClient(segOf[c])
    /\ UNCHANGED <<segOf, runVars, removeVars, sharedVars>>

-----------------------------------------------------------------------------
(* runSegmenter, its process, its watcher and waitForSegments. *)

\* segmenter.start: waitForSegments is spawned and the command runs.
StartProcess(s) ==
    /\ run[s] = "starting"
    /\ run' = [run EXCEPT ![s] = "running"]
    /\ UNCHANGED <<callVars, segVars, cancelled, removeVars, sharedVars>>

\* The process writes a segment, if its directory still exists.
WriteSegment(s) ==
    /\ run[s] = "running"
    /\ dir[KeyOf[s]] \in 0 .. InitSegments - 1
    /\ dir' = [dir EXCEPT ![KeyOf[s]] = @ + 1]
    /\ UNCHANGED <<callVars, segVars, runVars, removeVars, pool, held>>

\* streamer.Run returns, in error (killed, not started, exit status) or not.
\* An error counts as a failed start only while segCtx is not cancelled.
ProcessExit(s) ==
    /\ run[s] = "running"
    /\ run' = [run EXCEPT ![s] = "exited"]
    /\ \E failed \in BOOLEAN :
          setReady(s, IF failed /\ ~cancelled[s] THEN "err" ELSE "ok")
    /\ UNCHANGED <<callVars, count, empty, stopped, cancelled, removeVars, sharedVars>>

\* The watcher: no clients left, so segCtx is cancelled (the process dies).
CancelProcess(s) ==
    /\ run[s] \in {"starting", "running"}
    /\ empty[s]
    /\ ~cancelled[s]
    /\ cancelled' = [cancelled EXCEPT ![s] = TRUE]
    /\ UNCHANGED <<callVars, segVars, run, removeVars, sharedVars>>

\* <-seg.waitEmpty() after start returned; the deferred segCancel.
AwaitEmpty(s) ==
    /\ run[s] = "exited"
    /\ empty[s]
    /\ run' = [run EXCEPT ![s] = "releasing"]
    /\ cancelled' = [cancelled EXCEPT ![s] = TRUE]
    /\ UNCHANGED <<callVars, segVars, removeVars, sharedVars>>

\* Mutant: the permit is not given back.
ReleaseForgotten(s) ==
    /\ run[s] = "releasing"
    /\ run' = [run EXCEPT ![s] = "removing"]
    /\ rm' = [rm EXCEPT ![s] = "delete"]
    /\ UNCHANGED <<callVars, segVars, cancelled, victim, doomed, sharedVars>>

\* The deferred Semaphore.Release, which runs before the deferred remove.
ReleaseSemaphore(s) ==
    /\ run[s] = "releasing"
    /\ run' = [run EXCEPT ![s] = "removing"]
    /\ rm' = [rm EXCEPT ![s] = "delete"]
    /\ held' = [held EXCEPT ![SubOf[s]] = IF Limited(SubOf[s]) THEN @ - 1 ELSE @]
    /\ UNCHANGED <<callVars, segVars, cancelled, victim, doomed, pool, dir>>

\* Mutant: no deadline.
WaitForEver(s) ==
    /\ run[s] \notin {"none", "starting"}
    /\ ready[s] = "pending"
    /\ \/ stopped[s] /\ setReady(s, "err")
       \/ countSegments(KeyOf[s]) >= InitSegments /\ setReady(s, "ok")
    /\ UNCHANGED <<callVars, count, empty, stopped, runVars, removeVars, sharedVars>>

\* waitForSegments, spawned by start: the three arms of its select.  All it
\* does is setReady, so it is followed only until ready is decided.
WaitSegments(s) ==
    /\ run[s] \notin {"none", "starting"}
    /\ ready[s] = "pending"
    /\ \/ stopped[s] /\ setReady(s, "err")                             \* s.ctx.Done()
       \/ setReady(s, "err")                                           \* deadline
       \/ countSegments(KeyOf[s]) >= InitSegments /\ setReady(s, "ok") \* ticker
    /\ UNCHANGED <<callVars, count, empty, stopped, runVars, removeVars, sharedVars>>

-----------------------------------------------------------------------------
(* segmenterPool.remove and stopAll. *)

\* remove, under the lock: whatever the map holds for the key is taken out.
DeleteEntry(a) ==
    /\ rm[a] = "delete"
    /\ victim' = [victim EXCEPT ![a] = pool[KeyOf[a]]]
    /\ rm' = [rm EXCEPT ![a] = IF pool[KeyOf[a]] = NoSeg THEN "done" ELSE "stop"]
    /\ pool' = [pool EXCEPT ![KeyOf[a]] = NoSeg]
    /\ UNCHANGED <<callVars, segVars, runVars, doomed, held, dir>>

\* After the lock is released: stop ...
StopVictim(a) ==
    /\ rm[a] = "stop"
    /\ stop(victim[a])
    /\ rm' = [rm EXCEPT ![a] = "clean"]
    /\ UNCHANGED <<callVars, runVars, victim, doomed, sharedVars>>

\* ... and cleanup.  Server goes on with the next segmenter.
CleanVictim(a) ==
    /\ rm[a] = "clean"
    /\ cleanup(victim[a])
    /\ rm' = [rm EXCEPT ![a] = IF a = Server THEN "next" ELSE "done"]
    /\ victim' = [victim EXCEPT ![a] = NoSeg]
    /\ UNCHANGED <<callVars, segVars, runVars, doomed, pool, held>>

\* StreamPool.Stop, once, at shutdown: stopAll swaps the map for an empty one.
StopAll ==
    /\ rm[Server] = "idle"
    /\ rm' = [rm EXCEPT ![Server] = "next"]
    /\ doomed' = {pool[k] : k \in Keys} \ {NoSeg}
    /\ pool' = [k \in Keys |-> NoSeg]
    /\ UNCHANGED <<callVars, segVars, runVars, victim, held, dir>>

NextDoomed ==
    /\ rm[Server] = "next"
    /\ \E s \in doomed :
          /\ victim' = [victim EXCEPT ![Server] = s]
          /\ doomed' = doomed \ {s}
    /\ rm' = [rm EXCEPT ![Server] = "stop"]
    /\ UNCHANGED <<callVars, segVars, runVars, sharedVars>>

\* os.RemoveAll(baseDir) after the loop.
RemoveBaseDir ==
    /\ rm[Server] = "next"
    /\ doomed = {}
    /\ rm' = [rm EXCEPT ![Server] = "done"]
    /\ dir' = [k \in Keys |-> NoDir]
    /\ UNCHANGED <<callVars, segVars, runVars, victim, doomed, pool, held>>

-----------------------------------------------------------------------------
\* What a goroutine does on its own; arrivals, departures, the process's own
\* exit and the shutdown are the environment's.
Caller(c) ==
    \/ Join(c) \/ AcquireSemaphore(c) \/ AcquireTimeout(c)
    \/ ReturnSemaphoreError(c) \/ StartReading(c) \/ ReturnSegmenterFailed(c)
Runner(s) ==
    \/ StartProcess(s) \/ AwaitEmpty(s) \/ ReleaseSemaphore(s)
    \/ cancelled[s] /\ ProcessExit(s)
Remover(a) == DeleteEntry(a) \/ StopVictim(a) \/ CleanVictim(a)

Environment(c) ==
    \/ CreateSegmenter(c) \/ CreateFails(c) \/ FindSegmenter(c)
    \/ ClientGone(c) \/ Close(c)
    \/ WriteSegment(c) \/ ProcessExit(c)

\* Every call has returned and every goroutine has ended.
Terminating ==
    /\ \A c \in Calls : /\ pc[c] = "returned"
                        /\ run[c] \in {"none", "removing"}
                        /\ run[c] = "removing" => ready[c] # "pending"
    /\ \A a \in Agents : rm[a] \in {"idle", "done"}
    /\ UNCHANGED vars

Next ==
    \/ \E c \in Calls : \/ Caller(c) \/ Environment(c)
                        \/ Runner(c) \/ CancelProcess(c) \/ WaitSegments(c)
    \/ \E a \in Agents : Remover(a)
    \/ StopAll \/ NextDoomed \/ RemoveBaseDir
    \/ Terminating

Spec == Init /\ [][Next]_vars

\* Goroutines are scheduled; the watcher and waitForSegments are their own;
\* a cancelled process is killed.  Nothing makes a viewer leave.
Fairness ==
    /\ \A c \in Calls : /\ WF_vars(Caller(c))
                        /\ WF_vars(Runner(c))
                        /\ WF_vars(CancelProcess(c))
                        /\ WF_vars(WaitSegments(c))
    /\ \A a \in Agents : WF_vars(Remover(a))

FairSpec == Spec /\ Fairness

-----------------------------------------------------------------------------
Shutdown == rm[Server] # "idle"

Holders(b) == {s \in Calls : SubOf[s] = b /\ run[s] \in Active}

\* The calls a segmenter counts.  A creator refused a permit is never
\* uncounted: GetReader returns without removeClient.
Clients(s) ==
    {c \in Calls : /\ segOf[c] = s
                   /\ \/ pc[c] \in {"acquiring", "removing", "waiting", "reading"}
                      \/ c = s /\ run[c] = "none"}

\* utils.AcquireSemaphore / Release(1): a subscription's semaphore counts exactly
\* the segmenters running on it, whatever path each took, and is never over
\* its size nor released twice.
PermitAccounting ==
    \A b \in Subs : Limited(b) =>
        /\ held[b] = Cardinality(Holders(b))
        /\ held[b] <= Concurrency[b]

\* addClient/removeClient: clientCount is the number of calls that have joined
\* and not left, on every path through GetReader and Close.
ClientAccounting ==
    \A s \in Calls : count[s] = Cardinality(Clients(s))

\* remove is by key, and runs late: no entry of the map is ever left without
\* a goroutine that will still remove it, or the stream could never restart.
RegisteredHasRemover ==
    \A k \in Keys : pool[k] # NoSeg =>
        LET s == pool[k] IN
        \/ pc[s] = "acquiring" \/ run[s] \in Active \/ rm[s] = "delete"

\* getOrCreate: until shutdown, viewers of one stream share one upstream
\* fetch: there are never two active segmenters for a key.
OneSegmenterPerKey ==
    ~Shutdown => \A s, t \in Calls :
        run[s] \in Active /\ run[t] \in Active /\ KeyOf[s] = KeyOf[t] => s = t

\* A segment directory is never leaked by the life cycle of a segmenter: it
\* belongs to a registered one or a cleanup is still due (newSegmenter's own
\* failure after MkdirAll is the one leak until Stop).
DirHasOwner ==
    \A k \in Keys : dir[k] # NoDir =>
        \/ pool[k] # NoSeg
        \/ \E a \in Agents : rm[a] \in {"stop", "clean"} /\ KeyOf[victim[a]] = k
        \/ \E s \in doomed : KeyOf[s] = k
        \/ \E c \in Calls : KeyOf[c] = k /\ pc[c] = "returned" /\ segOf[c] = NoSeg

\* A segmenter is stopped under a joined viewer only by a shutdown, or because
\* its creator got no permit: viewers coming and going never do that.
NoViewerCutOff ==
    [][\A s \in Calls : ~empty[s] /\ empty'[s] /\ ~Shutdown /\ pc[s] # "removing"
          => \A c \in Calls : segOf'[c] = s => pc'[c] \notin {"waiting", "reading"}]_vars

\* runSegmenter's deferred calls: once a segmenter's last viewer has left, or
\* the server has stopped it, its permit is given back and its entry and
\* directory go, whatever its process was doing.
EndedStreamIsFreed ==
    \A s \in Calls :
        run[s] # "none" /\ (count[s] <= 0 \/ stopped[s]) ~> rm[s] = "done"

\* setReady: a call whose segmenter has its permit does not wait for ever: the
\* process exits, enough segments appear, or ready_timeout passes.
AdmittedCallReturns ==
    \A c \in Calls :
        pc[c] = "waiting" /\ run[segOf[c]] # "none" ~> pc[c] # "waiting"

\* The pool implements what SharedStreams promises.
Abstract == INSTANCE SharedStreams WITH
    Segmenters <- Calls,
    active <- {s \in Calls : run[s] \in Active},
    ended  <- {s \in Calls : run[s] = "removing"},
    open   <- ~Shutdown

SharesStreams == Abstract!Spec

-----------------------------------------------------------------------------
(* What the documentation says and the code does not do. *)

\* docs/config/proxy/segmenter.md, ready_timeout: "Maximum time to wait for the
\* initial segments".  A call that joined a segmenter whose creator then gets
\* no permit waits for a ready that nobody will ever signal.
WaitEnds ==
    \A c \in Calls : pc[c] = "waiting" ~> pc[c] # "waiting"

\* docs/config/proxy/segmenter.md: the segmenter "writes segments to a temporary
\* directory".  remove cleans up after the lock is released, by which time the
\* directory may be that of the next segmenter of the stream.
RegisteredDirExists ==
    ~Shutdown => \A k \in Keys : pool[k] # NoSeg => dir[k] # NoDir
=============================================================================
