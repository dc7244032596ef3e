--------------------------- MODULE StreamPoolProofs ---------------------------
(***************************************************************************)
(* The stream pool is correct for every number of calls, streams and       *)
(* permits.  One inductive invariant, PoolInv, carries the accounting      *)
(* of permits, the uniqueness of a stream's segmenter, and with them the   *)
(* refinement of SharedStreams.                                            *)
(***************************************************************************)
EXTENDS StreamPool, FiniteSetTheorems, TLAPS

\* Server runs stopAll, never remove.
ServerPhase == rm[Server] # "delete"

\* Before a call has its permit it runs nothing; while its segmenter is active
\* it has not begun to remove it.
CallPhases ==
    \A c \in Calls :
        /\ pc[c] \in {"idle", "acquiring", "joining"} =>
               run[c] = "none" /\ rm[c] = "idle"
        /\ run[c] \in Active => rm[c] = "idle"

\* A creator owns the map's entry from getOrCreate to its own remove.
Owns(s) == pc[s] = "acquiring" \/ run[s] \in Active \/ rm[s] = "delete"

\* Entries are filed under their own key and have a remover; until shutdown,
\* an owner's entry is in the map.
Registration ==
    /\ \A k \in Keys : pool[k] # NoSeg => KeyOf[pool[k]] = k /\ Owns(pool[k])
    /\ ~Shutdown => \A s \in Calls : Owns(s) => pool[KeyOf[s]] = s

PoolInv ==
    TypeOK /\ ServerPhase /\ CallPhases /\ Registration /\ PermitAccounting

\* What the proofs use of the configuration.
LEMMA ConfigType == Concurrency \in [Subs -> Nat] /\ InitSegments \in Nat \ {0}
  BY ConfigAssumption

USE CallsAssumption, RequestAssumption, ConfigType

-----------------------------------------------------------------------------
\* Server, which only runs stopAll, is an agent of its own.
LEMMA ServerIsNoCall == Server \in Agents /\ Calls \subseteq Agents /\ Server \notin Calls
  BY DEF Agents

\* Holders are finitely many, so they can be counted.
LEMMA HoldersFinite ==
  ASSUME NEW b
  PROVE  IsFiniteSet(Holders(b)) /\ Cardinality(Holders(b)) \in Nat
  <1>1. Holders(b) \in SUBSET Calls
    BY DEF Holders
  <1>2. QED
    BY <1>1, FS_Subset, FS_CardinalityType

\* addClient and removeClient keep the types, whichever segmenter they are for.
LEMMA ClientCountType ==
  ASSUME TypeOK, NEW s, addClient(s) \/ removeClient(s)
  PROVE  /\ count' \in [Calls -> Int]
         /\ empty' \in [Calls -> BOOLEAN]
         /\ stopped' = stopped /\ ready' = ready
  <1>1. count \in [Calls -> Int] /\ empty \in [Calls -> BOOLEAN]
    BY DEF TypeOK
  <1>2. \A d \in Int : [count EXCEPT ![s] = count[s] + d] \in [Calls -> Int]
    <2>1. CASE s \in Calls
      BY <1>1, <2>1
    <2>2. CASE s \notin Calls
      <3>1. \A e : [count EXCEPT ![s] = e] = count
        BY <1>1, <2>2, Zenon
      <3>2. QED
        BY <1>1, <3>1
    <2>3. QED
      BY <2>1, <2>2
  <1>3. \A e \in BOOLEAN : [empty EXCEPT ![s] = e] \in [Calls -> BOOLEAN]
    BY <1>1
  <1>4. \A e : (empty[s] \/ e) \in BOOLEAN
    OBVIOUS
  <1>5. CASE addClient(s)
    BY <1>1, <1>2, <1>5 DEF addClient
  <1>6. CASE removeClient(s)
    <2>1. count' \in [Calls -> Int]
      <3>1. count' = [count EXCEPT ![s] = count[s] - 1]
        BY <1>6 DEF removeClient
      <3>2. CASE s \in Calls
        BY <1>1, <3>1, <3>2
      <3>3. CASE s \notin Calls
        BY <1>1, <3>1, <3>3
      <3>4. QED
        BY <3>2, <3>3
    <2>2. empty' \in [Calls -> BOOLEAN]
      BY <1>3, <1>4, <1>6 DEF removeClient
    <2>3. QED
      BY <2>1, <2>2, <1>6 DEF removeClient
  <1>7. QED
    BY <1>5, <1>6

-----------------------------------------------------------------------------
\* Every step keeps the types; that held stays a natural number is because a
\* permit is only released by a segmenter that is counted.
LEMMA TypeStep ==
  ASSUME PoolInv, [Next]_vars
  PROVE  TypeOK'
  <1> USE DEF PoolInv, TypeOK, callVars, segVars, runVars, removeVars, sharedVars,
              setReady, stop, cleanup, mkdirAll, NoDir
  <1>1. ASSUME NEW c \in Calls, Caller(c)
        PROVE  TypeOK'
    <2>1. CASE Join(c)
      BY <2>1, ClientCountType DEF Join
    <2>2. CASE AcquireSemaphore(c)
      BY <2>2 DEF AcquireSemaphore, Active
    <2>3. CASE AcquireTimeout(c)
      BY <2>3 DEF AcquireTimeout
    <2>4. CASE ReturnSemaphoreError(c)
      BY <2>4 DEF ReturnSemaphoreError
    <2>5. CASE StartReading(c)
      BY <2>5 DEF StartReading
    <2>6. CASE ReturnSegmenterFailed(c)
      BY <2>6, ClientCountType DEF ReturnSegmenterFailed
    <2>7. QED
      BY <1>1, <2>1, <2>2, <2>3, <2>4, <2>5, <2>6 DEF Caller
  <1>2. ASSUME NEW c \in Calls, Environment(c)
        PROVE  TypeOK'
    <2>1. CASE CreateSegmenter(c)
      BY <2>1 DEF CreateSegmenter
    <2>2. CASE CreateFails(c)
      BY <2>2 DEF CreateFails
    <2>3. CASE FindSegmenter(c)
      BY <2>3 DEF FindSegmenter
    <2>4. CASE ClientGone(c)
      BY <2>4, ClientCountType DEF ClientGone
    <2>5. CASE Close(c)
      BY <2>5, ClientCountType DEF Close
    <2>6. CASE WriteSegment(c)
      BY <2>6 DEF WriteSegment
    <2>7. CASE ProcessExit(c)
      BY <2>7 DEF ProcessExit, Active
    <2>8. QED
      BY <1>2, <2>1, <2>2, <2>3, <2>4, <2>5, <2>6, <2>7 DEF Environment
  <1>3. ASSUME NEW s \in Calls, Runner(s)
        PROVE  TypeOK'
    <2>1. CASE StartProcess(s)
      BY <2>1 DEF StartProcess, Active
    <2>2. CASE AwaitEmpty(s)
      BY <2>2 DEF AwaitEmpty, Active
    <2>3. CASE ReleaseSemaphore(s)
      <3> DEFINE b == SubOf[s]
      <3>1. Limited(b) => held[b] - 1 \in Nat
        <4>1. Limited(b) => held[b] = Cardinality(Holders(b))
          BY DEF PermitAccounting
        <4>2. s \in Holders(b)
          BY <2>3 DEF ReleaseSemaphore, Holders, Active
        <4>3. Cardinality(Holders(b)) # 0
          BY <4>2, HoldersFinite, FS_EmptySet
        <4>4. QED
          BY <4>1, <4>3, HoldersFinite
      <3>2. QED
        BY <2>3, <3>1 DEF ReleaseSemaphore, Agents
    <2>4. CASE ProcessExit(s)
      BY <2>4 DEF ProcessExit, Active
    <2>5. QED
      BY <1>3, <2>1, <2>2, <2>3, <2>4 DEF Runner
  <1>4. ASSUME NEW s \in Calls, CancelProcess(s)
        PROVE  TypeOK'
    BY <1>4 DEF CancelProcess
  <1>5. ASSUME NEW s \in Calls, WaitSegments(s)
        PROVE  TypeOK'
    BY <1>5 DEF WaitSegments
  <1>6. ASSUME NEW a \in Agents, Remover(a)
        PROVE  TypeOK'
    <2>1. CASE DeleteEntry(a)
      <3>1. a \in Calls
        BY <2>1 DEF DeleteEntry, ServerPhase, Agents
      <3>2. QED
        BY <2>1, <3>1 DEF DeleteEntry
    <2>2. CASE StopVictim(a)
      BY <2>2 DEF StopVictim
    <2>3. CASE CleanVictim(a)
      <3>1. NoDir \in NoDir .. InitSegments
        OBVIOUS
      <3>2. \A k : [dir EXCEPT ![k] = NoDir] \in [Keys -> NoDir .. InitSegments]
        BY <3>1
      <3>3. dir' \in [Keys -> NoDir .. InitSegments]
        BY <2>3, <3>2 DEF CleanVictim
      <3>4. QED
        BY <2>3, <3>3 DEF CleanVictim
    <2>4. QED
      BY <1>6, <2>1, <2>2, <2>3 DEF Remover
  <1>7. CASE StopAll
    BY <1>7 DEF StopAll, Agents
  <1>8. CASE NextDoomed
    BY <1>8 DEF NextDoomed, Agents
  <1>9. CASE RemoveBaseDir
    BY <1>9 DEF RemoveBaseDir, Agents
  <1>10. CASE UNCHANGED vars
    BY <1>10 DEF vars
  <1>11. QED
    BY <1>1, <1>2, <1>3, <1>4, <1>5, <1>6, <1>7, <1>8, <1>9, <1>10
    DEF Next, Terminating

-----------------------------------------------------------------------------
\* A call goes through its phases in order, and Server never runs remove.
LEMMA PhasesStep ==
  ASSUME PoolInv, [Next]_vars
  PROVE  ServerPhase' /\ CallPhases'
  <1> USE ServerIsNoCall
      DEF PoolInv, TypeOK, ServerPhase, CallPhases, callVars, segVars, runVars,
          removeVars, sharedVars, Active
  <1>1. ASSUME NEW c \in Calls, Caller(c)
        PROVE  ServerPhase' /\ CallPhases'
    BY <1>1 DEF Caller, Join, AcquireSemaphore, AcquireTimeout,
                ReturnSemaphoreError, StartReading, ReturnSegmenterFailed
  <1>2. ASSUME NEW c \in Calls, Environment(c)
        PROVE  ServerPhase' /\ CallPhases'
    BY <1>2 DEF Environment, CreateSegmenter, CreateFails, FindSegmenter,
                ClientGone, Close, WriteSegment, ProcessExit
  <1>3. ASSUME NEW s \in Calls, Runner(s)
        PROVE  ServerPhase' /\ CallPhases'
    BY <1>3 DEF Runner, StartProcess, AwaitEmpty, ReleaseSemaphore, ProcessExit
  <1>4. ASSUME NEW s \in Calls, CancelProcess(s) \/ WaitSegments(s)
        PROVE  ServerPhase' /\ CallPhases'
    BY <1>4 DEF CancelProcess, WaitSegments
  <1>5. ASSUME NEW a \in Agents, Remover(a)
        PROVE  ServerPhase' /\ CallPhases'
    BY <1>5 DEF Remover, DeleteEntry, StopVictim, CleanVictim
  <1>6. CASE StopAll \/ NextDoomed \/ RemoveBaseDir
    BY <1>6 DEF StopAll, NextDoomed, RemoveBaseDir
  <1>7. CASE UNCHANGED vars
    BY <1>7 DEF vars
  <1>8. QED
    BY <1>1, <1>2, <1>3, <1>4, <1>5, <1>6, <1>7 DEF Next, Terminating

-----------------------------------------------------------------------------
\* Only getOrCreate and remove change who owns an entry, and remove takes out
\* the entry of its own segmenter until shutdown.
LEMMA RegistrationStep ==
  ASSUME PoolInv, [Next]_vars
  PROVE  Registration'
  <1> USE ServerIsNoCall
      DEF PoolInv, TypeOK, ServerPhase, CallPhases, Registration, Owns, Shutdown,
          callVars, segVars, runVars, removeVars, sharedVars, Active
  <1>1. ASSUME NEW c \in Calls, Caller(c)
        PROVE  Registration'
    <2>1. CASE Join(c)
      BY <2>1 DEF Join
    <2>2. CASE AcquireSemaphore(c)
      BY <2>2 DEF AcquireSemaphore
    <2>3. CASE AcquireTimeout(c)
      BY <2>3 DEF AcquireTimeout
    <2>4. CASE ReturnSemaphoreError(c)
      BY <2>4 DEF ReturnSemaphoreError
    <2>5. CASE StartReading(c) \/ ReturnSegmenterFailed(c)
      BY <2>5 DEF StartReading, ReturnSegmenterFailed
    <2>6. QED
      BY <1>1, <2>1, <2>2, <2>3, <2>4, <2>5 DEF Caller
  <1>2. ASSUME NEW c \in Calls, Environment(c)
        PROVE  Registration'
    <2>1. CASE CreateSegmenter(c)
      BY <2>1 DEF CreateSegmenter
    <2>2. CASE CreateFails(c)
      BY <2>2 DEF CreateFails
    <2>3. CASE FindSegmenter(c)
      BY <2>3 DEF FindSegmenter
    <2>4. CASE ClientGone(c)
      BY <2>4 DEF ClientGone
    <2>5. CASE Close(c)
      BY <2>5 DEF Close
    <2>6. CASE WriteSegment(c) \/ ProcessExit(c)
      BY <2>6 DEF WriteSegment, ProcessExit
    <2>7. QED
      BY <1>2, <2>1, <2>2, <2>3, <2>4, <2>5, <2>6 DEF Environment
  <1>3. ASSUME NEW s \in Calls, Runner(s)
        PROVE  Registration'
    <2>1. CASE StartProcess(s)
      BY <2>1 DEF StartProcess
    <2>2. CASE AwaitEmpty(s)
      BY <2>2 DEF AwaitEmpty
    <2>3. CASE ReleaseSemaphore(s)
      BY <2>3 DEF ReleaseSemaphore
    <2>4. CASE ProcessExit(s)
      BY <2>4 DEF ProcessExit
    <2>5. QED
      BY <1>3, <2>1, <2>2, <2>3, <2>4 DEF Runner
  <1>4. ASSUME NEW s \in Calls, CancelProcess(s) \/ WaitSegments(s)
        PROVE  Registration'
    BY <1>4 DEF CancelProcess, WaitSegments
  <1>5. ASSUME NEW a \in Agents, Remover(a)
        PROVE  Registration'
    <2>1. CASE DeleteEntry(a)
      <3>1. a \in Calls
        BY <2>1 DEF DeleteEntry, Agents
      <3>2. pool' = [pool EXCEPT ![KeyOf[a]] = NoSeg] /\ KeyOf[a] \in Keys
        BY <2>1, <3>1 DEF DeleteEntry
      <3>3. pc' = pc /\ run' = run /\ \A s \in Agents : s # a => rm'[s] = rm[s]
        BY <2>1 DEF DeleteEntry
      <3>4. rm'[a] \in {"done", "stop"}
        BY <2>1, <3>1 DEF DeleteEntry
      <3>5. ~Owns(a)'
        BY <2>1, <3>3, <3>4, <3>1 DEF DeleteEntry
      <3>6. \A s \in Calls : Owns(s)' <=> Owns(s) /\ s # a
        BY <3>3, <3>4, <3>5
      <3>7. ASSUME NEW k \in Keys, pool'[k] # NoSeg
            PROVE  KeyOf[pool'[k]] = k /\ Owns(pool[k])' /\ pool'[k] = pool[k]
        <4>1. k # KeyOf[a] /\ pool'[k] = pool[k]
          BY <3>2, <3>7
        <4>2. KeyOf[pool[k]] = k /\ Owns(pool[k]) /\ pool[k] \in Calls
          BY <3>7, <4>1
        <4>3. QED
          BY <4>1, <4>2, <3>3
      <3>8. ASSUME ~Shutdown', NEW s \in Calls, Owns(s)'
            PROVE  pool'[KeyOf[s]] = s
        <4>1. ~Shutdown
          BY <3>1, <3>3, <3>8
        <4>2. Owns(s) /\ s # a
          BY <3>6, <3>8
        <4>3. pool[KeyOf[s]] = s /\ pool[KeyOf[a]] = a
          BY <2>1, <3>1, <4>1, <4>2 DEF DeleteEntry
        <4>4. QED
          BY <3>2, <4>2, <4>3
      <3>9. QED
        BY <3>7, <3>8
    <2>2. CASE StopVictim(a) \/ CleanVictim(a)
      BY <2>2 DEF StopVictim, CleanVictim
    <2>3. QED
      BY <1>5, <2>1, <2>2 DEF Remover
  <1>6. CASE StopAll \/ NextDoomed \/ RemoveBaseDir
    BY <1>6 DEF StopAll, NextDoomed, RemoveBaseDir
  <1>7. CASE UNCHANGED vars
    BY <1>7 DEF vars
  <1>8. QED
    BY <1>1, <1>2, <1>3, <1>4, <1>5, <1>6, <1>7 DEF Next, Terminating

-----------------------------------------------------------------------------
\* A step that makes nobody active or inactive, and leaves held alone, keeps
\* the accounting.
LEMMA PermitsUnchanged ==
  ASSUME PermitAccounting, held' = held,
         \A s \in Calls : run'[s] \in Active <=> run[s] \in Active
  PROVE  PermitAccounting'
  <1>1. \A b : Holders(b)' = Holders(b)
    BY DEF Holders
  <1>2. QED
    BY <1>1 DEF PermitAccounting, Limited

\* A permit is taken with the start of a segmenter and released with its end.
LEMMA PermitsStep ==
  ASSUME PoolInv, [Next]_vars
  PROVE  PermitAccounting'
  <1> USE DEF PoolInv, TypeOK, CallPhases, callVars, segVars, runVars, removeVars,
              sharedVars
  <1>1. ASSUME NEW c \in Calls, AcquireSemaphore(c)
        PROVE  PermitAccounting'
    <2>1. run[c] = "none" /\ run' = [run EXCEPT ![c] = "starting"]
      BY <1>1 DEF AcquireSemaphore
    <2>2. ASSUME NEW b \in Subs, Limited(b)
          PROVE  held'[b] = Cardinality(Holders(b)') /\ held'[b] <= Concurrency[b]
      <3>1. held[b] = Cardinality(Holders(b)) /\ held[b] <= Concurrency[b]
        BY <2>2 DEF PermitAccounting
      <3>2. CASE b = SubOf[c]
        <4>1. Holders(b)' = Holders(b) \cup {c} /\ c \notin Holders(b)
          BY <2>1, <3>2 DEF Holders, Active
        <4>2. Cardinality(Holders(b)') = Cardinality(Holders(b)) + 1
          BY <4>1, HoldersFinite, FS_AddElement
        <4>3. held'[b] = held[b] + 1 /\ held[b] < Concurrency[b]
          BY <1>1, <2>2, <3>2 DEF AcquireSemaphore
        <4>4. held[b] \in Nat /\ Concurrency[b] \in Nat
          OBVIOUS
        <4>5. QED
          BY <3>1, <4>2, <4>3, <4>4
      <3>3. CASE b # SubOf[c]
        <4>1. Holders(b)' = Holders(b)
          BY <2>1, <3>3 DEF Holders
        <4>2. held'[b] = held[b]
          BY <1>1, <3>3 DEF AcquireSemaphore
        <4>3. QED
          BY <3>1, <4>1, <4>2
      <3>4. QED
        BY <3>2, <3>3
    <2>3. QED
      BY <2>2 DEF PermitAccounting, Limited
  <1>2. ASSUME NEW s \in Calls, ReleaseSemaphore(s)
        PROVE  PermitAccounting'
    <2>1. run[s] = "releasing" /\ run' = [run EXCEPT ![s] = "removing"]
      BY <1>2 DEF ReleaseSemaphore
    <2>2. ASSUME NEW b \in Subs, Limited(b)
          PROVE  held'[b] = Cardinality(Holders(b)') /\ held'[b] <= Concurrency[b]
      <3>1. held[b] = Cardinality(Holders(b)) /\ held[b] <= Concurrency[b]
        BY <2>2 DEF PermitAccounting
      <3>2. CASE b = SubOf[s]
        <4>1. Holders(b)' = Holders(b) \ {s} /\ s \in Holders(b)
          BY <2>1, <3>2 DEF Holders, Active
        <4>2. Cardinality(Holders(b)') = Cardinality(Holders(b)) - 1
          BY <4>1, HoldersFinite, FS_RemoveElement
        <4>3. held'[b] = held[b] - 1
          BY <1>2, <2>2, <3>2 DEF ReleaseSemaphore
        <4>4. held[b] \in Nat /\ Concurrency[b] \in Nat
          OBVIOUS
        <4>5. QED
          BY <3>1, <4>2, <4>3, <4>4
      <3>3. CASE b # SubOf[s]
        <4>1. Holders(b)' = Holders(b)
          BY <2>1, <3>3 DEF Holders
        <4>2. held'[b] = held[b]
          BY <1>2, <3>3 DEF ReleaseSemaphore
        <4>3. QED
          BY <3>1, <4>1, <4>2
      <3>4. QED
        BY <3>2, <3>3
    <2>3. QED
      BY <2>2 DEF PermitAccounting, Limited
  <1>3. ASSUME NEW c \in Calls,
               \/ Join(c) \/ AcquireTimeout(c) \/ ReturnSemaphoreError(c)
               \/ StartReading(c) \/ ReturnSegmenterFailed(c)
        PROVE  PermitAccounting'
    BY <1>3, PermitsUnchanged DEF Join, AcquireTimeout, ReturnSemaphoreError,
       StartReading, ReturnSegmenterFailed
  <1>4. ASSUME NEW c \in Calls,
               \/ CreateSegmenter(c) \/ CreateFails(c) \/ FindSegmenter(c)
               \/ ClientGone(c) \/ Close(c) \/ WriteSegment(c)
        PROVE  PermitAccounting'
    BY <1>4, PermitsUnchanged DEF CreateSegmenter, CreateFails, FindSegmenter,
       ClientGone, Close, WriteSegment
  <1>5. ASSUME NEW s \in Calls,
               StartProcess(s) \/ AwaitEmpty(s) \/ ProcessExit(s)
        PROVE  PermitAccounting'
    BY <1>5, PermitsUnchanged DEF StartProcess, AwaitEmpty, ProcessExit, Active
  <1>6. ASSUME NEW s \in Calls, CancelProcess(s) \/ WaitSegments(s)
        PROVE  PermitAccounting'
    BY <1>6, PermitsUnchanged DEF CancelProcess, WaitSegments
  <1>7. ASSUME NEW a \in Agents, Remover(a)
        PROVE  PermitAccounting'
    BY <1>7, PermitsUnchanged DEF Remover, DeleteEntry, StopVictim, CleanVictim
  <1>8. CASE StopAll \/ NextDoomed \/ RemoveBaseDir
    BY <1>8, PermitsUnchanged DEF StopAll, NextDoomed, RemoveBaseDir
  <1>9. CASE UNCHANGED vars
    BY <1>9, PermitsUnchanged DEF vars
  <1>10. QED
    BY <1>1, <1>2, <1>3, <1>4, <1>5, <1>6, <1>7, <1>8, <1>9
    DEF Next, Caller, Environment, Runner, Terminating

-----------------------------------------------------------------------------
\* Before the first call the invariant holds.
LEMMA PoolInvInit ==
  ASSUME Init
  PROVE  PoolInv
  <1>1. TypeOK
    BY DEF Init, TypeOK, Active, Agents, NoDir
  <1>2. ServerPhase /\ CallPhases
    BY ServerIsNoCall DEF Init, ServerPhase, CallPhases, Active
  <1>3. Registration
    BY ServerIsNoCall DEF Init, Registration, Owns, Active
  <1>4. PermitAccounting
    <2>1. \A b : Holders(b) = {}
      BY DEF Init, Holders, Active
    <2>2. \A b \in Subs : held[b] = 0 /\ 0 <= Concurrency[b]
      BY DEF Init
    <2>3. \A b : Cardinality(Holders(b)) = 0
      BY <2>1, FS_EmptySet
    <2>4. QED
      BY <2>2, <2>3 DEF PermitAccounting
  <1>5. QED
    BY <1>1, <1>2, <1>3, <1>4 DEF PoolInv

\* The inductive invariant holds in every reachable state.
THEOREM PoolInvariance == Spec => []PoolInv
  <1>1. Init => PoolInv
    BY PoolInvInit
  <1>2. PoolInv /\ [Next]_vars => PoolInv'
    BY TypeStep, PhasesStep, RegistrationStep, PermitsStep DEF PoolInv
  <1>3. QED
    BY <1>1, <1>2, PTL DEF Spec

\* Every variable keeps its type; a semaphore's count is never negative.
THEOREM TypeCorrect == Spec => []TypeOK
  <1>1. PoolInv => TypeOK
    BY DEF PoolInv
  <1>2. QED
    BY <1>1, PoolInvariance, PTL

\* A subscription's semaphore counts exactly its active segmenters, at most its
\* concurrency.
THEOREM PermitsCorrect == Spec => []PermitAccounting
  <1>1. PoolInv => PermitAccounting
    BY DEF PoolInv
  <1>2. QED
    BY <1>1, PoolInvariance, PTL

\* Whatever is in the map will be removed from it by the call that put it there.
THEOREM EntriesHaveRemover == Spec => []RegisteredHasRemover
  <1>1. PoolInv => RegisteredHasRemover
    BY DEF PoolInv, Registration, Owns, RegisteredHasRemover
  <1>2. QED
    BY <1>1, PoolInvariance, PTL

\* Until shutdown a stream has at most one active segmenter.
THEOREM OneSegmenter == Spec => []OneSegmenterPerKey
  <1>1. PoolInv => OneSegmenterPerKey
    BY DEF PoolInv, Registration, Owns, OneSegmenterPerKey
  <1>2. QED
    BY <1>1, PoolInvariance, PTL

-----------------------------------------------------------------------------
\* SharedStreams counts with its own copy of FiniteSets.
LEMMA SameCardinality == \A S : Abstract!Cardinality(S) = Cardinality(S)
  BY DEF Abstract!Cardinality, Cardinality

\* The pool does what SharedStreams promises: a permit taken is a segmenter
\* started, within the limit and alone on its stream; a permit released is one
\* ended; every other step is a stutter.
LEMMA StepSimulation ==
  ASSUME PoolInv, PoolInv', [Next]_vars
  PROVE  [Abstract!Next]_(Abstract!vars)
  <1> DEFINE active == {s \in Calls : run[s] \in Active}
             ended  == {s \in Calls : run[s] = "removing"}
  <1> USE DEF PoolInv, TypeOK, CallPhases, ServerPhase, callVars, segVars, runVars,
              removeVars, sharedVars
  <1>1. ASSUME NEW c \in Calls, AcquireSemaphore(c)
        PROVE  Abstract!Start(c)
    <2>1. run[c] = "none" /\ run' = [run EXCEPT ![c] = "starting"]
      BY <1>1 DEF AcquireSemaphore
    <2>2. active' = active \cup {c} /\ ended' = ended /\ Shutdown' = Shutdown
      BY <1>1, <2>1 DEF Active, Shutdown, AcquireSemaphore
    <2>3. c \notin active \cup ended
      BY <2>1 DEF Active
    <2>4. Concurrency[SubOf[c]] > 0 =>
             Abstract!Cardinality(Abstract!ActiveOn(SubOf[c])) < Concurrency[SubOf[c]]
      <3>1. Abstract!ActiveOn(SubOf[c]) = Holders(SubOf[c])
        BY DEF Abstract!ActiveOn, Holders
      <3>2. QED
        BY <1>1, <3>1, SameCardinality DEF AcquireSemaphore, PermitAccounting, Limited
    <2>5. ~Shutdown => \A t \in active : KeyOf[t] # KeyOf[c]
      BY <1>1, <2>1 DEF AcquireSemaphore, Registration, Owns, Active
    <2>6. QED
      BY <2>2, <2>3, <2>4, <2>5 DEF Abstract!Start
  <1>2. ASSUME NEW s \in Calls, ReleaseSemaphore(s)
        PROVE  Abstract!End(s)
    <2>1. run[s] = "releasing" /\ run' = [run EXCEPT ![s] = "removing"]
      BY <1>2 DEF ReleaseSemaphore
    <2>2. Shutdown' = Shutdown
      BY <1>2, ServerIsNoCall DEF ReleaseSemaphore, Shutdown
    <2>3. active' = active \ {s} /\ ended' = ended \cup {s} /\ s \in active
      BY <2>1 DEF Active
    <2>4. QED
      BY <2>2, <2>3 DEF Abstract!End
  <1>3. ASSUME active' = active, ended' = ended, Shutdown' = Shutdown
        PROVE  UNCHANGED Abstract!vars
    BY <1>3 DEF Abstract!vars
  <1>4. CASE StopAll
    <2>1. active' = active /\ ended' = ended /\ ~Shutdown /\ Shutdown'
      BY <1>4, ServerIsNoCall DEF StopAll, Shutdown
    <2>2. QED
      BY <2>1 DEF Abstract!Next, Abstract!ShutDown
  <1>5. ASSUME NEW c \in Calls,
               \/ Join(c) \/ AcquireTimeout(c) \/ ReturnSemaphoreError(c)
               \/ StartReading(c) \/ ReturnSegmenterFailed(c)
        PROVE  UNCHANGED Abstract!vars
    BY <1>3, <1>5, ServerIsNoCall DEF Join, AcquireTimeout, ReturnSemaphoreError,
       StartReading, ReturnSegmenterFailed, Shutdown
  <1>6. ASSUME NEW c \in Calls,
               \/ CreateSegmenter(c) \/ CreateFails(c) \/ FindSegmenter(c)
               \/ ClientGone(c) \/ Close(c) \/ WriteSegment(c)
        PROVE  UNCHANGED Abstract!vars
    BY <1>3, <1>6 DEF CreateSegmenter, CreateFails, FindSegmenter, ClientGone,
       Close, WriteSegment, Shutdown
  <1>7. ASSUME NEW s \in Calls,
               StartProcess(s) \/ AwaitEmpty(s) \/ ProcessExit(s)
        PROVE  UNCHANGED Abstract!vars
    BY <1>3, <1>7 DEF StartProcess, AwaitEmpty, ProcessExit, Active, Shutdown
  <1>8. ASSUME NEW s \in Calls, CancelProcess(s) \/ WaitSegments(s)
        PROVE  UNCHANGED Abstract!vars
    BY <1>3, <1>8 DEF CancelProcess, WaitSegments, Shutdown
  <1>9. ASSUME NEW a \in Agents, Remover(a)
        PROVE  UNCHANGED Abstract!vars
    BY <1>3, <1>9, ServerIsNoCall DEF Remover, DeleteEntry, StopVictim, CleanVictim,
       Shutdown
  <1>10. CASE NextDoomed \/ RemoveBaseDir
    BY <1>3, <1>10, ServerIsNoCall DEF NextDoomed, RemoveBaseDir, Shutdown
  <1>11. CASE UNCHANGED vars
    BY <1>3, <1>11 DEF vars, Shutdown
  <1>12. QED
    BY <1>1, <1>2, <1>4, <1>5, <1>6, <1>7, <1>8, <1>9, <1>10, <1>11
    DEF Next, Caller, Environment, Runner, Terminating, Abstract!Next

\* The stream pool refines SharedStreams, for any number of everything.
THEOREM Refinement == Spec => SharesStreams
  <1>1. Init => Abstract!Init
    BY ServerIsNoCall DEF Init, Abstract!Init, Active, Shutdown
  <1>2. PoolInv /\ PoolInv' /\ [Next]_vars => [Abstract!Next]_(Abstract!vars)
    BY StepSimulation
  <1>3. QED
    BY <1>1, <1>2, PoolInvariance, PTL DEF Spec, SharesStreams, Abstract!Spec

-----------------------------------------------------------------------------
(***************************************************************************)
(* The viewers of a pool's segmenters, and the directories.  On top of     *)
(* PoolInv: clientCount counts the viewers, none is cut off, and no        *)
(* directory is forgotten.                                                 *)
(***************************************************************************)

\* A call has no segmenter before getOrCreate, its own if it made it, and
\* another's if it found it; who watches its own has got a permit for it.
ViewerPhases ==
    \A c \in Calls :
        /\ pc[c] = "idle" => segOf[c] = NoSeg
        /\ pc[c] \in {"acquiring", "removing"} => segOf[c] = c
        /\ pc[c] = "removing" => run[c] = "none"
        /\ pc[c] = "joining" => segOf[c] \in Calls \ {c}
        /\ pc[c] \in {"waiting", "reading"} =>
               segOf[c] \in Calls /\ (segOf[c] = c => run[c] # "none")

\* A segmenter that someone has, or that the map holds, has been made by the
\* call it is named after.
SegmentersMade ==
    /\ \A c \in Calls : segOf[c] # NoSeg => segOf[segOf[c]] = segOf[c]
    /\ \A k \in Keys : pool[k] # NoSeg => segOf[pool[k]] = pool[k]

\* Who runs remove is a creator refused a permit or a runSegmenter that has
\* ended, its segmenter empty; until shutdown each takes out its own entry.
RemoverPhases ==
    /\ \A s \in Calls :
        /\ rm[s] \in {"delete", "stop", "clean"} =>
               pc[s] = "removing" \/ run[s] = "removing"
        /\ run[s] \in {"releasing", "removing"} => empty[s]
        /\ ~Shutdown /\ rm[s] = "stop" => victim[s] = s
    /\ ~Shutdown => doomed = {}

ViewerInv ==
    ViewerPhases /\ SegmentersMade /\ RemoverPhases /\ ClientAccounting /\ DirHasOwner

-----------------------------------------------------------------------------
\* A segmenter's clients are finitely many.
LEMMA ClientsFinite ==
  ASSUME NEW s
  PROVE  IsFiniteSet(Clients(s)) /\ Cardinality(Clients(s)) \in Nat
  <1>1. Clients(s) \in SUBSET Calls
    BY DEF Clients
  <1>2. QED
    BY <1>1, FS_Subset, FS_CardinalityType

\* addClient and removeClient change one count by one.
LEMMA CountChange ==
  ASSUME TypeOK, NEW s \in Calls, NEW t \in Calls
  PROVE  /\ addClient(s) => count'[t] = IF t = s THEN count[s] + 1 ELSE count[t]
         /\ removeClient(s) => count'[t] = IF t = s THEN count[s] - 1 ELSE count[t]
  BY DEF TypeOK, addClient, removeClient

-----------------------------------------------------------------------------
\* Every step keeps the phases of the viewers: a call gets its segmenter once.
LEMMA ViewerPhasesStep ==
  ASSUME PoolInv, ViewerPhases, [Next]_vars
  PROVE  ViewerPhases'
  <1> USE ServerIsNoCall
      DEF PoolInv, TypeOK, CallPhases, Registration, Owns, ViewerPhases, callVars,
          segVars, runVars, removeVars, sharedVars, Active
  <1>1. ASSUME NEW c \in Calls, Caller(c)
        PROVE  ViewerPhases'
    <2>1. CASE Join(c)
      BY <2>1 DEF Join
    <2>2. CASE AcquireSemaphore(c)
      BY <2>2 DEF AcquireSemaphore
    <2>3. CASE AcquireTimeout(c)
      BY <2>3 DEF AcquireTimeout
    <2>4. CASE ReturnSemaphoreError(c)
      BY <2>4 DEF ReturnSemaphoreError
    <2>5. CASE StartReading(c)
      BY <2>5 DEF StartReading
    <2>6. CASE ReturnSegmenterFailed(c)
      BY <2>6 DEF ReturnSegmenterFailed
    <2>7. QED
      BY <1>1, <2>1, <2>2, <2>3, <2>4, <2>5, <2>6 DEF Caller
  <1>2. ASSUME NEW c \in Calls, Environment(c)
        PROVE  ViewerPhases'
    <2>1. CASE CreateSegmenter(c)
      BY <2>1 DEF CreateSegmenter
    <2>2. CASE CreateFails(c)
      BY <2>2 DEF CreateFails
    <2>3. CASE FindSegmenter(c)
      <3>1. pool[KeyOf[c]] \in Calls \ {c}
        BY <2>3 DEF FindSegmenter
      <3>2. QED
        BY <2>3, <3>1 DEF FindSegmenter
    <2>4. CASE ClientGone(c)
      BY <2>4 DEF ClientGone
    <2>5. CASE Close(c)
      BY <2>5 DEF Close
    <2>6. CASE WriteSegment(c) \/ ProcessExit(c)
      BY <2>6 DEF WriteSegment, ProcessExit
    <2>7. QED
      BY <1>2, <2>1, <2>2, <2>3, <2>4, <2>5, <2>6 DEF Environment
  <1>3. ASSUME NEW s \in Calls, Runner(s)
        PROVE  ViewerPhases'
    BY <1>3 DEF Runner, StartProcess, AwaitEmpty, ReleaseSemaphore, ProcessExit
  <1>4. ASSUME NEW s \in Calls, CancelProcess(s) \/ WaitSegments(s)
        PROVE  ViewerPhases'
    BY <1>4 DEF CancelProcess, WaitSegments
  <1>5. ASSUME NEW a \in Agents, Remover(a)
        PROVE  ViewerPhases'
    BY <1>5 DEF Remover, DeleteEntry, StopVictim, CleanVictim
  <1>6. CASE StopAll \/ NextDoomed \/ RemoveBaseDir
    BY <1>6 DEF StopAll, NextDoomed, RemoveBaseDir
  <1>7. CASE UNCHANGED vars
    BY <1>7 DEF vars
  <1>8. QED
    BY <1>1, <1>2, <1>3, <1>4, <1>5, <1>6, <1>7 DEF Next, Terminating

-----------------------------------------------------------------------------
\* Segmenters are only passed on: getOrCreate makes one or takes one of the map.
LEMMA SegmentersMadeStep ==
  ASSUME PoolInv, ViewerPhases, SegmentersMade, [Next]_vars
  PROVE  SegmentersMade'
  <1> USE DEF PoolInv, TypeOK, CallPhases, Registration, Owns, SegmentersMade, callVars,
              segVars, runVars, removeVars, sharedVars, Active
  <1>1. ASSUME segOf' = segOf, \A k \in Keys : pool'[k] \in {pool[k], NoSeg}
        PROVE  SegmentersMade'
    BY <1>1
  <1>2. ASSUME NEW c \in Calls, CreateSegmenter(c)
        PROVE  SegmentersMade'
    <2>1. segOf[c] = NoSeg /\ segOf' = [segOf EXCEPT ![c] = c]
      BY <1>2 DEF CreateSegmenter, ViewerPhases
    <2>2. \A d \in Calls : segOf[d] # c
      BY <2>1
    <2>3. \A k \in Keys : pool'[k] # NoSeg => segOf'[pool'[k]] = pool'[k]
      <3>1. pool' = [pool EXCEPT ![KeyOf[c]] = c]
        BY <1>2 DEF CreateSegmenter
      <3>2. QED
        BY <2>1, <3>1
    <2>4. \A d \in Calls : segOf'[d] # NoSeg => segOf'[segOf'[d]] = segOf'[d]
      BY <2>1, <2>2
    <2>5. QED
      BY <2>3, <2>4
  <1>3. ASSUME NEW c \in Calls, FindSegmenter(c)
        PROVE  SegmentersMade'
    <2>1. /\ segOf[c] = NoSeg /\ segOf' = [segOf EXCEPT ![c] = pool[KeyOf[c]]]
          /\ pool' = pool /\ pool[KeyOf[c]] \in Calls
      BY <1>3 DEF FindSegmenter, ViewerPhases
    <2>2. pool[KeyOf[c]] # c /\ segOf[pool[KeyOf[c]]] = pool[KeyOf[c]]
      BY <1>3, <2>1 DEF FindSegmenter
    <2>3. \A d \in Calls : segOf[d] # c
      BY <2>1
    <2>4. QED
      BY <2>1, <2>2, <2>3
  <1>4. ASSUME NEW a \in Agents, Remover(a)
        PROVE  SegmentersMade'
    <2>1. CASE DeleteEntry(a)
      BY <1>1, <2>1 DEF DeleteEntry
    <2>2. CASE StopVictim(a) \/ CleanVictim(a)
      BY <1>1, <2>2 DEF StopVictim, CleanVictim
    <2>3. QED
      BY <1>4, <2>1, <2>2 DEF Remover
  <1>5. ASSUME NEW c \in Calls, Caller(c)
        PROVE  SegmentersMade'
    BY <1>1, <1>5 DEF Caller, Join, AcquireSemaphore, AcquireTimeout,
       ReturnSemaphoreError, StartReading, ReturnSegmenterFailed
  <1>6. ASSUME NEW c \in Calls,
               CreateFails(c) \/ ClientGone(c) \/ Close(c) \/ WriteSegment(c)
        PROVE  SegmentersMade'
    BY <1>1, <1>6 DEF CreateFails, ClientGone, Close, WriteSegment
  <1>7. ASSUME NEW s \in Calls,
               StartProcess(s) \/ AwaitEmpty(s) \/ ReleaseSemaphore(s) \/ ProcessExit(s)
        PROVE  SegmentersMade'
    BY <1>1, <1>7 DEF StartProcess, AwaitEmpty, ReleaseSemaphore, ProcessExit
  <1>8. ASSUME NEW s \in Calls, CancelProcess(s) \/ WaitSegments(s)
        PROVE  SegmentersMade'
    BY <1>1, <1>8 DEF CancelProcess, WaitSegments
  <1>9. CASE StopAll \/ NextDoomed \/ RemoveBaseDir
    BY <1>1, <1>9 DEF StopAll, NextDoomed, RemoveBaseDir
  <1>10. CASE UNCHANGED vars
    BY <1>1, <1>10 DEF vars
  <1>11. QED
    BY <1>2, <1>3, <1>4, <1>5, <1>6, <1>7, <1>8, <1>9, <1>10
    DEF Next, Environment, Runner, Terminating

-----------------------------------------------------------------------------
\* Until shutdown remove takes out the segmenter of the call that runs it, and
\* runSegmenter ends when its segmenter is empty, which it stays.
LEMMA RemoverPhasesStep ==
  ASSUME PoolInv, RemoverPhases, [Next]_vars
  PROVE  RemoverPhases'
  <1> USE ServerIsNoCall
      DEF PoolInv, TypeOK, ServerPhase, CallPhases, RemoverPhases, Shutdown, callVars,
          segVars, runVars, removeVars, sharedVars, Active
  <1>1. ASSUME NEW c \in Calls, Caller(c)
        PROVE  RemoverPhases'
    <2>1. CASE Join(c)
      BY <2>1 DEF Join, addClient
    <2>2. CASE AcquireSemaphore(c)
      BY <2>2 DEF AcquireSemaphore
    <2>3. CASE AcquireTimeout(c)
      BY <2>3 DEF AcquireTimeout
    <2>4. CASE ReturnSemaphoreError(c)
      BY <2>4 DEF ReturnSemaphoreError
    <2>5. CASE StartReading(c)
      BY <2>5 DEF StartReading
    <2>6. CASE ReturnSegmenterFailed(c)
      BY <2>6 DEF ReturnSegmenterFailed, removeClient
    <2>7. QED
      BY <1>1, <2>1, <2>2, <2>3, <2>4, <2>5, <2>6 DEF Caller
  <1>2. ASSUME NEW c \in Calls, Environment(c)
        PROVE  RemoverPhases'
    <2>1. CASE CreateSegmenter(c) \/ CreateFails(c) \/ FindSegmenter(c)
      BY <2>1 DEF CreateSegmenter, CreateFails, FindSegmenter
    <2>2. CASE ClientGone(c)
      BY <2>2 DEF ClientGone, removeClient
    <2>3. CASE Close(c)
      BY <2>3 DEF Close, removeClient
    <2>4. CASE WriteSegment(c) \/ ProcessExit(c)
      BY <2>4 DEF WriteSegment, ProcessExit
    <2>5. QED
      BY <1>2, <2>1, <2>2, <2>3, <2>4 DEF Environment
  <1>3. ASSUME NEW s \in Calls, Runner(s)
        PROVE  RemoverPhases'
    BY <1>3 DEF Runner, StartProcess, AwaitEmpty, ReleaseSemaphore, ProcessExit
  <1>4. ASSUME NEW s \in Calls, CancelProcess(s) \/ WaitSegments(s)
        PROVE  RemoverPhases'
    BY <1>4 DEF CancelProcess, WaitSegments
  <1>5. ASSUME NEW a \in Agents, Remover(a)
        PROVE  RemoverPhases'
    <2>1. CASE DeleteEntry(a)
      <3>1. a \in Calls
        BY <2>1 DEF DeleteEntry, Agents
      <3>2. ~Shutdown => pool[KeyOf[a]] = a
        BY <2>1, <3>1 DEF DeleteEntry, Registration, Owns
      <3>3. QED
        BY <2>1, <3>1, <3>2 DEF DeleteEntry
    <2>2. CASE StopVictim(a)
      BY <2>2 DEF StopVictim, stop
    <2>3. CASE CleanVictim(a)
      BY <2>3 DEF CleanVictim
    <2>4. QED
      BY <1>5, <2>1, <2>2, <2>3 DEF Remover
  <1>6. CASE StopAll \/ NextDoomed \/ RemoveBaseDir
    BY <1>6 DEF StopAll, NextDoomed, RemoveBaseDir
  <1>7. CASE UNCHANGED vars
    BY <1>7 DEF vars
  <1>8. QED
    BY <1>1, <1>2, <1>3, <1>4, <1>5, <1>6, <1>7 DEF Next, Terminating

-----------------------------------------------------------------------------
\* A step that counts nobody and lets nobody in or out keeps the accounting.
LEMMA CountUnchanged ==
  ASSUME ClientAccounting, count' = count,
         \A s \in Calls : Clients(s)' = Clients(s)
  PROVE  ClientAccounting'
  BY DEF ClientAccounting

\* One more client is counted where it joined.
LEMMA CountOneMore ==
  ASSUME TypeOK, ClientAccounting, NEW t \in Calls, addClient(t),
         NEW c, c \notin Clients(t), Clients(t)' = Clients(t) \cup {c},
         \A s \in Calls \ {t} : Clients(s)' = Clients(s)
  PROVE  ClientAccounting'
  <1>1. Cardinality(Clients(t)') = Cardinality(Clients(t)) + 1
    BY ClientsFinite, FS_AddElement
  <1>2. \A s \in Calls : count'[s] = IF s = t THEN count[s] + 1 ELSE count[s]
    BY CountChange
  <1>3. \A s \in Calls : count[s] = Cardinality(Clients(s))
    BY DEF ClientAccounting
  <1>4. \A s \in Calls : count'[s] = Cardinality(Clients(s)')
    BY <1>1, <1>2, <1>3
  <1>5. QED
    BY <1>4 DEF ClientAccounting

\* One fewer is counted where it left.
LEMMA CountOneLess ==
  ASSUME TypeOK, ClientAccounting, NEW t \in Calls, removeClient(t),
         NEW c \in Clients(t), Clients(t)' = Clients(t) \ {c},
         \A s \in Calls \ {t} : Clients(s)' = Clients(s)
  PROVE  ClientAccounting'
  <1>1. Cardinality(Clients(t)') = Cardinality(Clients(t)) - 1
    BY ClientsFinite, FS_RemoveElement
  <1>2. \A s \in Calls : count'[s] = IF s = t THEN count[s] - 1 ELSE count[s]
    BY CountChange
  <1>3. \A s \in Calls : count[s] = Cardinality(Clients(s))
    BY DEF ClientAccounting
  <1>4. \A s \in Calls : count'[s] = Cardinality(Clients(s)')
    BY <1>1, <1>2, <1>3
  <1>5. QED
    BY <1>4 DEF ClientAccounting

\* A viewer that is counted leaves, and nothing else changes.
LEMMA ViewerLeaves ==
  ASSUME PoolInv, ViewerPhases, ClientAccounting, NEW c \in Calls,
         pc[c] \in {"waiting", "reading"}, pc' = [pc EXCEPT ![c] = "returned"],
         segOf' = segOf, run' = run, removeClient(segOf[c])
  PROVE  ClientAccounting'
  <1>1. segOf[c] \in Calls /\ c \in Clients(segOf[c])
    BY DEF ViewerPhases, Clients
  <1>2. segOf[c] = c => run[c] # "none"
    BY DEF ViewerPhases
  <1>3. \A s \in Calls : Clients(s)' = IF s = segOf[c] THEN Clients(s) \ {c} ELSE Clients(s)
    BY <1>2 DEF PoolInv, TypeOK, Clients
  <1>4. QED
    BY <1>1, <1>3, CountOneLess DEF PoolInv

\* Every way out of GetReader and Close uncounts exactly the viewer that leaves.
LEMMA ClientsStep ==
  ASSUME PoolInv, ViewerPhases, SegmentersMade, ClientAccounting, [Next]_vars
  PROVE  ClientAccounting'
  <1> USE DEF PoolInv, TypeOK, CallPhases, ViewerPhases, callVars, segVars, runVars,
              removeVars, sharedVars
  <1>1. ASSUME NEW c \in Calls, CreateSegmenter(c)
        PROVE  ClientAccounting'
    <2>1. /\ segOf[c] = NoSeg /\ segOf' = [segOf EXCEPT ![c] = c]
          /\ pc' = [pc EXCEPT ![c] = "acquiring"] /\ run' = run
          /\ count' = [count EXCEPT ![c] = 1]
      BY <1>1 DEF CreateSegmenter
    <2>2. \A d \in Calls : segOf[d] # c
      BY <2>1 DEF SegmentersMade
    <2>3. Clients(c)' = {c}
      BY <2>1, <2>2 DEF Clients
    <2>4. \A s \in Calls \ {c} : Clients(s)' = Clients(s)
      BY <2>1 DEF Clients
    <2>5. Cardinality(Clients(c)') = 1
      BY <2>3, FS_Singleton
    <2>6. count'[c] = 1 /\ \A s \in Calls \ {c} : count'[s] = count[s]
      BY <2>1
    <2>7. \A s \in Calls : count'[s] = Cardinality(Clients(s)')
      BY <2>4, <2>5, <2>6 DEF ClientAccounting
    <2>8. QED
      BY <2>7 DEF ClientAccounting
  <1>2. ASSUME NEW c \in Calls, Join(c)
        PROVE  ClientAccounting'
    <2>1. /\ pc[c] = "joining" /\ pc' = [pc EXCEPT ![c] = "waiting"]
          /\ segOf' = segOf /\ run' = run /\ addClient(segOf[c])
      BY <1>2 DEF Join
    <2>2. segOf[c] \in Calls \ {c}
      BY <2>1
    <2>3. c \notin Clients(segOf[c])
      BY <2>1, <2>2 DEF Clients
    <2>4. \A s \in Calls :
             Clients(s)' = IF s = segOf[c] THEN Clients(s) \cup {c} ELSE Clients(s)
      BY <2>1, <2>2 DEF Clients
    <2>5. QED
      BY <2>1, <2>2, <2>3, <2>4, CountOneMore
  <1>3. ASSUME NEW c \in Calls, ReturnSegmenterFailed(c) \/ ClientGone(c) \/ Close(c)
        PROVE  ClientAccounting'
    BY <1>3, ViewerLeaves DEF ReturnSegmenterFailed, ClientGone, Close
  <1>4. ASSUME NEW c \in Calls, AcquireSemaphore(c) \/ AcquireTimeout(c)
        PROVE  ClientAccounting'
    <2>1. \A s \in Calls : Clients(s)' = Clients(s)
      BY <1>4 DEF Clients, AcquireSemaphore, AcquireTimeout
    <2>2. QED
      BY <1>4, <2>1, CountUnchanged DEF AcquireSemaphore, AcquireTimeout
  <1>5. ASSUME NEW c \in Calls, ReturnSemaphoreError(c) \/ StartReading(c)
        PROVE  ClientAccounting'
    <2>1. \A s \in Calls : Clients(s)' = Clients(s)
      BY <1>5 DEF Clients, ReturnSemaphoreError, StartReading
    <2>2. QED
      BY <1>5, <2>1, CountUnchanged DEF ReturnSemaphoreError, StartReading
  <1>6. ASSUME NEW c \in Calls, CreateFails(c) \/ FindSegmenter(c) \/ WriteSegment(c)
        PROVE  ClientAccounting'
    <2>1. \A s \in Calls : Clients(s)' = Clients(s)
      <3>1. CASE CreateFails(c)
        BY <3>1 DEF Clients, CreateFails
      <3>2. CASE FindSegmenter(c)
        <4>1. pool[KeyOf[c]] # c /\ segOf[c] = NoSeg
          BY <3>2 DEF FindSegmenter, Registration, Owns, Active
        <4>2. /\ pc[c] = "idle" /\ pc' = [pc EXCEPT ![c] = "joining"] /\ run' = run
              /\ segOf' = [segOf EXCEPT ![c] = pool[KeyOf[c]]]
          BY <3>2 DEF FindSegmenter
        <4>3. QED
          BY <4>1, <4>2 DEF Clients
      <3>3. CASE WriteSegment(c)
        BY <3>3 DEF Clients, WriteSegment
      <3>4. QED
        BY <1>6, <3>1, <3>2, <3>3
    <2>2. QED
      BY <1>6, <2>1, CountUnchanged DEF CreateFails, FindSegmenter, WriteSegment
  <1>7. ASSUME NEW s \in Calls,
               \/ StartProcess(s) \/ AwaitEmpty(s) \/ ReleaseSemaphore(s) \/ ProcessExit(s)
        PROVE  ClientAccounting'
    <2>1. /\ pc' = pc /\ segOf' = segOf /\ count' = count
          /\ \A c \in Calls : run'[c] = "none" <=> run[c] = "none"
      BY <1>7 DEF StartProcess, AwaitEmpty, ReleaseSemaphore, ProcessExit
    <2>2. \A t \in Calls : Clients(t)' = Clients(t)
      BY <2>1 DEF Clients
    <2>3. QED
      BY <2>1, <2>2, CountUnchanged
  <1>8. ASSUME pc' = pc, segOf' = segOf, count' = count, run' = run
        PROVE  ClientAccounting'
    BY <1>8, CountUnchanged DEF Clients
  <1>9. ASSUME NEW s \in Calls, CancelProcess(s) \/ WaitSegments(s)
        PROVE  ClientAccounting'
    BY <1>8, <1>9 DEF CancelProcess, WaitSegments
  <1>10. ASSUME NEW a \in Agents, Remover(a)
        PROVE  ClientAccounting'
    BY <1>8, <1>10 DEF Remover, DeleteEntry, StopVictim, stop, CleanVictim
  <1>11. CASE StopAll \/ NextDoomed \/ RemoveBaseDir
    BY <1>8, <1>11 DEF StopAll, NextDoomed, RemoveBaseDir
  <1>12. CASE UNCHANGED vars
    BY <1>8, <1>12 DEF vars
  <1>13. QED
    BY <1>1, <1>2, <1>3, <1>4, <1>5, <1>6, <1>7, <1>9, <1>10, <1>11, <1>12
    DEF Next, Caller, Environment, Runner, Terminating

-----------------------------------------------------------------------------
\* What may stand for a directory, one predicate for each disjunct of DirHasOwner.
BeingCleaned(k) ==
    \E a \in Agents : rm[a] \in {"stop", "clean"} /\ KeyOf[victim[a]] = k
Doomed(k) == \E s \in doomed : KeyOf[s] = k
LeftByFailure(k) ==
    \E c \in Calls : KeyOf[c] = k /\ pc[c] = "returned" /\ segOf[c] = NoSeg
Owned(k) == pool[k] # NoSeg \/ BeingCleaned(k) \/ Doomed(k) \/ LeftByFailure(k)

LEMMA OwnedMeans == DirHasOwner <=> \A k \in Keys : dir[k] # NoDir => Owned(k)
  BY DEF DirHasOwner, Owned, BeingCleaned, Doomed, LeftByFailure

\* What newSegmenter's failure left stays left.
LEMMA LeftStays ==
  ASSUME PoolInv, ViewerPhases, [Next]_vars, NEW k, LeftByFailure(k)
  PROVE  LeftByFailure(k)'
  <1>1. PICK c \in Calls : KeyOf[c] = k /\ pc[c] = "returned" /\ segOf[c] = NoSeg
    BY DEF LeftByFailure
  <1>2. pc'[c] = "returned" /\ segOf'[c] = NoSeg
    <2> USE DEF PoolInv, TypeOK, callVars, segVars, runVars, removeVars, sharedVars
    <2>1. ASSUME NEW d \in Calls, Caller(d)
          PROVE  pc'[c] = "returned" /\ segOf'[c] = NoSeg
      BY <1>1, <2>1 DEF Caller, Join, AcquireSemaphore, AcquireTimeout,
         ReturnSemaphoreError, StartReading, ReturnSegmenterFailed
    <2>2. ASSUME NEW d \in Calls, Environment(d)
          PROVE  pc'[c] = "returned" /\ segOf'[c] = NoSeg
      BY <1>1, <2>2 DEF Environment, CreateSegmenter, CreateFails, FindSegmenter,
         ClientGone, Close, WriteSegment, ProcessExit
    <2>3. ASSUME NEW s \in Calls, Runner(s) \/ CancelProcess(s) \/ WaitSegments(s)
          PROVE  pc'[c] = "returned" /\ segOf'[c] = NoSeg
      BY <1>1, <2>3 DEF Runner, StartProcess, AwaitEmpty, ReleaseSemaphore, ProcessExit,
         CancelProcess, WaitSegments
    <2>4. ASSUME NEW a \in Agents, Remover(a)
          PROVE  pc'[c] = "returned" /\ segOf'[c] = NoSeg
      BY <1>1, <2>4 DEF Remover, DeleteEntry, StopVictim, CleanVictim
    <2>5. CASE StopAll \/ NextDoomed \/ RemoveBaseDir
      BY <1>1, <2>5 DEF StopAll, NextDoomed, RemoveBaseDir
    <2>6. CASE UNCHANGED vars
      BY <1>1, <2>6 DEF vars
    <2>7. QED
      BY <2>1, <2>2, <2>3, <2>4, <2>5, <2>6 DEF Next, Terminating
  <1>3. QED
    BY <1>1, <1>2 DEF LeftByFailure

\* A directory passes from the map to remove or stopAll, and from there it goes.
LEMMA DirStep ==
  ASSUME PoolInv, ViewerPhases, RemoverPhases, DirHasOwner, [Next]_vars
  PROVE  DirHasOwner'
  <1> USE ServerIsNoCall
      DEF PoolInv, TypeOK, callVars, segVars, runVars, removeVars, sharedVars
  <1>1. \A k \in Keys : dir[k] # NoDir => Owned(k)
    BY OwnedMeans
  <1>2. SUFFICES ASSUME NEW k \in Keys, dir'[k] # NoDir
                 PROVE  Owned(k)'
    BY OwnedMeans DEF DirHasOwner, Owned, BeingCleaned, Doomed, LeftByFailure
  <1>3. LeftByFailure(k) => Owned(k)'
    BY LeftStays DEF Owned
  <1>4. ASSUME dir' = dir, pool' = pool, doomed' = doomed, victim' = victim,
               \A a \in Agents : rm[a] \in {"stop", "clean"} => rm'[a] \in {"stop", "clean"}
        PROVE  Owned(k)'
    BY <1>1, <1>2, <1>3, <1>4 DEF Owned, BeingCleaned, Doomed
  <1>5. ASSUME NEW c \in Calls, CreateSegmenter(c)
        PROVE  Owned(k)'
    <2>1. pool' = [pool EXCEPT ![KeyOf[c]] = c] /\ KeyOf[c] \in Keys
      BY <1>5 DEF CreateSegmenter
    <2>2. CASE k = KeyOf[c]
      BY <2>1, <2>2 DEF Owned
    <2>3. CASE k # KeyOf[c]
      <3>1. dir'[k] = dir[k] /\ pool'[k] = pool[k]
        BY <1>5, <2>1, <2>3 DEF CreateSegmenter, mkdirAll
      <3>2. doomed' = doomed /\ victim' = victim /\ rm' = rm
        BY <1>5 DEF CreateSegmenter
      <3>3. QED
        BY <1>1, <1>2, <1>3, <3>1, <3>2 DEF Owned, BeingCleaned, Doomed
    <2>4. QED
      BY <2>2, <2>3
  <1>6. ASSUME NEW c \in Calls, CreateFails(c)
        PROVE  Owned(k)'
    <2>1. pc'[c] = "returned" /\ segOf'[c] = NoSeg
      BY <1>6 DEF CreateFails, ViewerPhases
    <2>2. CASE k = KeyOf[c]
      BY <2>1, <2>2 DEF Owned, LeftByFailure
    <2>3. CASE k # KeyOf[c]
      <3>1. dir'[k] = dir[k]
        BY <1>6, <2>3 DEF CreateFails, mkdirAll
      <3>2. pool' = pool /\ doomed' = doomed /\ victim' = victim /\ rm' = rm
        BY <1>6 DEF CreateFails
      <3>3. QED
        BY <1>1, <1>2, <1>3, <3>1, <3>2 DEF Owned, BeingCleaned, Doomed
    <2>4. QED
      BY <2>2, <2>3
  <1>7. ASSUME NEW s \in Calls, WriteSegment(s)
        PROVE  Owned(k)'
    <2>1. dir[k] # NoDir
      BY <1>2, <1>7 DEF WriteSegment, NoDir
    <2>2. pool' = pool /\ doomed' = doomed /\ victim' = victim /\ rm' = rm
      BY <1>7 DEF WriteSegment
    <2>3. QED
      BY <1>1, <1>3, <2>1, <2>2 DEF Owned, BeingCleaned, Doomed
  <1>8. ASSUME NEW a \in Agents, DeleteEntry(a)
        PROVE  Owned(k)'
    <2>1. a \in Calls
      BY <1>8 DEF DeleteEntry, ServerPhase, Agents
    <2>2. CASE k = KeyOf[a] /\ pool[k] # NoSeg
      <3>1. victim'[a] = pool[k] /\ rm'[a] = "stop"
        BY <1>8, <2>2 DEF DeleteEntry
      <3>2. KeyOf[pool[k]] = k
        BY <2>2 DEF Registration
      <3>3. BeingCleaned(k)'
        BY <3>1, <3>2 DEF BeingCleaned
      <3>4. QED
        BY <3>3 DEF Owned
    <2>3. CASE ~(k = KeyOf[a] /\ pool[k] # NoSeg)
      <3>1. pool'[k] = pool[k]
        BY <1>8, <2>1, <2>3 DEF DeleteEntry
      <3>2. \A b \in Agents : rm[b] \in {"stop", "clean"} =>
               rm'[b] = rm[b] /\ victim'[b] = victim[b]
        BY <1>8 DEF DeleteEntry
      <3>3. doomed' = doomed /\ dir' = dir
        BY <1>8 DEF DeleteEntry
      <3>4. QED
        BY <1>1, <1>2, <1>3, <3>1, <3>2, <3>3 DEF Owned, BeingCleaned, Doomed
    <2>4. QED
      BY <2>2, <2>3
  <1>9. ASSUME NEW a \in Agents, CleanVictim(a)
        PROVE  Owned(k)'
    <2>1. k # KeyOf[victim[a]]
      BY <1>2, <1>9 DEF CleanVictim, cleanup
    <2>2. dir'[k] = dir[k]
      BY <1>9, <2>1 DEF CleanVictim, cleanup
    <2>3. pool' = pool /\ doomed' = doomed
      BY <1>9 DEF CleanVictim
    <2>4. \A b \in Agents \ {a} : rm'[b] = rm[b] /\ victim'[b] = victim[b]
      BY <1>9 DEF CleanVictim
    <2>5. BeingCleaned(k) => BeingCleaned(k)'
      BY <2>1, <2>4 DEF BeingCleaned
    <2>6. QED
      BY <1>1, <1>2, <1>3, <2>2, <2>3, <2>5 DEF Owned, Doomed
  <1>10. CASE StopAll
    <2>1. dir' = dir /\ victim' = victim /\ doomed' = {pool[j] : j \in Keys} \ {NoSeg}
      BY <1>10 DEF StopAll
    <2>2. rm' = [rm EXCEPT ![Server] = "next"] /\ rm[Server] = "idle"
      BY <1>10 DEF StopAll
    <2>3. BeingCleaned(k) => BeingCleaned(k)'
      BY <2>1, <2>2 DEF BeingCleaned
    <2>4. ~Doomed(k)
      BY <2>2 DEF RemoverPhases, Shutdown, Doomed
    <2>5. pool[k] # NoSeg => Doomed(k)'
      BY <2>1 DEF Doomed, Registration
    <2>6. QED
      BY <1>1, <1>2, <1>3, <2>1, <2>3, <2>4, <2>5 DEF Owned
  <1>11. CASE NextDoomed
    <2>1. PICK s \in doomed : /\ victim' = [victim EXCEPT ![Server] = s]
                              /\ doomed' = doomed \ {s}
      BY <1>11 DEF NextDoomed
    <2>2. /\ rm[Server] = "next" /\ rm' = [rm EXCEPT ![Server] = "stop"]
          /\ dir' = dir /\ pool' = pool
      BY <1>11 DEF NextDoomed
    <2>3. BeingCleaned(k) => BeingCleaned(k)'
      BY <2>1, <2>2 DEF BeingCleaned
    <2>4. KeyOf[s] = k => BeingCleaned(k)'
      BY <2>1, <2>2 DEF BeingCleaned
    <2>5. Doomed(k) => Doomed(k)' \/ BeingCleaned(k)'
      BY <2>1, <2>4 DEF Doomed
    <2>6. QED
      BY <1>1, <1>2, <1>3, <2>2, <2>3, <2>5 DEF Owned
  <1>12. CASE RemoveBaseDir
    BY <1>2, <1>12 DEF RemoveBaseDir
  <1>13. ASSUME NEW c \in Calls, Caller(c)
         PROVE  Owned(k)'
    <2>1. CASE AcquireTimeout(c)
      <3>1. rm[c] = "idle"
        BY <2>1 DEF AcquireTimeout, CallPhases
      <3>2. QED
        BY <1>4, <2>1, <3>1 DEF AcquireTimeout
    <2>2. CASE ~AcquireTimeout(c)
      BY <1>4, <1>13, <2>2 DEF Caller, Join, AcquireSemaphore, ReturnSemaphoreError,
         StartReading, ReturnSegmenterFailed
    <2>3. QED
      BY <2>1, <2>2
  <1>14. ASSUME NEW c \in Calls, FindSegmenter(c) \/ ClientGone(c) \/ Close(c)
         PROVE  Owned(k)'
    BY <1>4, <1>14 DEF FindSegmenter, ClientGone, Close
  <1>15. ASSUME NEW s \in Calls, StartProcess(s) \/ AwaitEmpty(s) \/ ProcessExit(s)
         PROVE  Owned(k)'
    BY <1>4, <1>15 DEF StartProcess, AwaitEmpty, ProcessExit
  <1>16. ASSUME NEW s \in Calls, ReleaseSemaphore(s)
         PROVE  Owned(k)'
    <2>1. rm[s] = "idle"
      BY <1>16 DEF ReleaseSemaphore, CallPhases, Active
    <2>2. QED
      BY <1>4, <1>16, <2>1 DEF ReleaseSemaphore
  <1>17. ASSUME NEW s \in Calls, CancelProcess(s) \/ WaitSegments(s)
         PROVE  Owned(k)'
    BY <1>4, <1>17 DEF CancelProcess, WaitSegments
  <1>18. ASSUME NEW a \in Agents, StopVictim(a)
         PROVE  Owned(k)'
    BY <1>4, <1>18 DEF StopVictim
  <1>19. CASE UNCHANGED vars
    BY <1>4, <1>19 DEF vars
  <1>20. QED
    BY <1>5, <1>6, <1>7, <1>8, <1>9, <1>10, <1>11, <1>12, <1>13, <1>14, <1>15, <1>16,
       <1>17, <1>18, <1>19
    DEF Next, Environment, Runner, Remover, Terminating

-----------------------------------------------------------------------------
\* Nobody has a segmenter before the first call.
LEMMA ViewerInvInit ==
  ASSUME Init
  PROVE  ViewerInv
  <1>1. ViewerPhases /\ SegmentersMade
    BY DEF Init, ViewerPhases, SegmentersMade
  <1>2. RemoverPhases
    BY ServerIsNoCall DEF Init, RemoverPhases, Shutdown
  <1>3. ClientAccounting
    <2>1. \A s \in Calls : Clients(s) = {} /\ count[s] = 0
      BY DEF Init, Clients
    <2>2. QED
      BY <2>1, FS_EmptySet DEF ClientAccounting
  <1>4. DirHasOwner
    BY DEF Init, DirHasOwner
  <1>5. QED
    BY <1>1, <1>2, <1>3, <1>4 DEF ViewerInv

\* The two invariants of the pool hold together.
THEOREM ViewerInvariance == Spec => [](PoolInv /\ ViewerInv)
  <1>1. Init => ViewerInv
    BY ViewerInvInit
  <1>2. PoolInv /\ ViewerInv /\ [Next]_vars => ViewerInv'
    BY ViewerPhasesStep, SegmentersMadeStep, RemoverPhasesStep, ClientsStep, DirStep
    DEF ViewerInv
  <1>3. QED
    BY <1>1, <1>2, PoolInvariance, PTL DEF Spec

\* clientCount is, at every moment, the number of calls that have joined and not left.
THEOREM ClientsCounted == Spec => []ClientAccounting
  <1>1. ViewerInv => ClientAccounting
    BY DEF ViewerInv
  <1>2. QED
    BY <1>1, ViewerInvariance, PTL

\* No directory is left behind without someone who will remove it.
THEOREM DirsOwned == Spec => []DirHasOwner
  <1>1. ViewerInv => DirHasOwner
    BY DEF ViewerInv
  <1>2. QED
    BY <1>1, ViewerInvariance, PTL

-----------------------------------------------------------------------------
\* A segmenter becomes empty in two ways: its last viewer leaves, which the count
\* shows, or remove stops it, which its own runSegmenter does when it is empty.
LEMMA CutOffStep ==
  ASSUME PoolInv, ViewerInv, ViewerInv', [Next]_vars,
         NEW s \in Calls, ~empty[s], empty'[s], ~Shutdown, pc[s] # "removing",
         NEW c \in Calls, segOf'[c] = s
  PROVE  pc'[c] \notin {"waiting", "reading"}
  <1> USE DEF PoolInv, TypeOK, callVars, segVars, runVars, removeVars, sharedVars
  <1>1. ASSUME NEW d \in Calls, removeClient(segOf[d])
        PROVE  pc'[c] \notin {"waiting", "reading"}
    <2>1. empty' = [empty EXCEPT ![segOf[d]] = @ \/ count[segOf[d]] - 1 <= 0]
      BY <1>1 DEF removeClient
    <2>2. segOf[d] = s /\ count[s] - 1 <= 0
      BY <2>1
    <2>3. count'[s] <= 0
      BY <1>1, <2>2, CountChange
    <2>4. count'[s] = Cardinality(Clients(s)')
      BY DEF ViewerInv, ClientAccounting
    <2>5. Cardinality(Clients(s)') \in Nat /\ IsFiniteSet(Clients(s)')
      <3>1. Clients(s)' \in SUBSET Calls
        BY DEF Clients
      <3>2. QED
        BY <3>1, FS_Subset, FS_CardinalityType
    <2>6. Clients(s)' = {}
      BY <2>3, <2>4, <2>5, FS_EmptySet
    <2>7. QED
      BY <2>6 DEF Clients
  <1>2. ASSUME NEW a \in Agents, StopVictim(a)
        PROVE  FALSE
    <2>1. rm[a] = "stop" /\ empty' = [empty EXCEPT ![victim[a]] = TRUE]
      BY <1>2 DEF StopVictim, stop
    <2>2. victim[a] = s
      BY <2>1
    <2>3. a \in Calls
      BY <2>1 DEF Agents, Shutdown
    <2>4. a = s
      BY <2>1, <2>2, <2>3 DEF ViewerInv, RemoverPhases
    <2>5. run[s] = "removing"
      BY <2>1, <2>3, <2>4 DEF ViewerInv, RemoverPhases
    <2>6. QED
      BY <2>5 DEF ViewerInv, RemoverPhases
  <1>3. ASSUME NEW d \in Calls, Caller(d)
        PROVE  pc'[c] \notin {"waiting", "reading"}
    BY <1>1, <1>3 DEF Caller, Join, addClient, AcquireSemaphore, AcquireTimeout,
       ReturnSemaphoreError, StartReading, ReturnSegmenterFailed
  <1>4. ASSUME NEW d \in Calls, Environment(d)
        PROVE  pc'[c] \notin {"waiting", "reading"}
    BY <1>1, <1>4 DEF Environment, CreateSegmenter, CreateFails, FindSegmenter,
       ClientGone, Close, WriteSegment, ProcessExit
  <1>5. ASSUME NEW d \in Calls, Runner(d) \/ CancelProcess(d) \/ WaitSegments(d)
        PROVE  FALSE
    BY <1>5 DEF Runner, StartProcess, AwaitEmpty, ReleaseSemaphore, ProcessExit,
       CancelProcess, WaitSegments
  <1>6. ASSUME NEW a \in Agents, Remover(a)
        PROVE  FALSE
    BY <1>2, <1>6 DEF Remover, DeleteEntry, CleanVictim
  <1>7. CASE StopAll \/ NextDoomed \/ RemoveBaseDir \/ UNCHANGED vars
    BY <1>7 DEF StopAll, NextDoomed, RemoveBaseDir, vars
  <1>8. QED
    BY <1>3, <1>4, <1>5, <1>6, <1>7 DEF Next, Terminating

\* No viewer that has joined is cut off by the coming and going of others.
THEOREM ViewersKept == Spec => NoViewerCutOff
  <1> DEFINE Kept ==
        \A s \in Calls : ~empty[s] /\ empty'[s] /\ ~Shutdown /\ pc[s] # "removing"
           => \A c \in Calls : segOf'[c] = s => pc'[c] \notin {"waiting", "reading"}
  <1>1. PoolInv /\ ViewerInv /\ ViewerInv' /\ [Next]_vars => [Kept]_vars
    BY CutOffStep
  <1>2. QED
    BY <1>1, ViewerInvariance, PTL DEF Spec, NoViewerCutOff
=============================================================================
