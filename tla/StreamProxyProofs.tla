--------------------------- MODULE StreamProxyProofs ---------------------------
(***************************************************************************)
(* The stream handler keeps its limits for every number of requests,       *)
(* clients, sources and permits: the inductive invariant ProxyInv relates  *)
(* where a request is to the permits that it holds, and these to the       *)
(* counters of the semaphores.                                             *)
(***************************************************************************)
EXTENDS StreamProxy, FiniteSetTheorems, TLAPS

\* Past the semaphores a request holds a permit of each that is not nil, and before
\* it is there nobody waits for one.
PermitPhases ==
    \A r \in Requests, w \in Sems :
        /\ limit(r, w) = 0 \/ pc[r] = "idle" => acq[r][w] = "unused"
        /\ pc[r] = "acquiring" /\ limit(r, w) > 0 => acq[r][w] \in {"waiting", "held", "failed"}
        /\ r \in Served /\ limit(r, w) > 0 => acq[r][w] = "held"

\* No semaphore is taken more often than it has permits.
WithinLimits ==
    /\ GlobalLimit > 0 => gheld <= GlobalLimit
    /\ \A c \in Clients : ClientLimit[c] > 0 => cheld[c] <= ClientLimit[c]

\* The answer comes last.
AnswerPhases == \A r \in Requests : answer[r] # "none" => pc[r] \in {"answering", "done"}

\* What plays was asked for, and a source is limited only where permits are too few.
FeedsWanted == \A k \in Keys : feed[k] # NoSub => k \in KeysOf(feed[k])
LimitsMet ==
    \A r \in Requests : \A i \in DOMAIN SourcesOf[r] :
        outcome[r][i] = "limit" => Contended(SourcesOf[r][i].sub)

ProxyInv ==
    /\ TypeOK /\ DOMAIN outcome = Requests /\ \A r \in Requests : idx[r] > 0
    /\ PermitPhases /\ ServedReleasesPermits
    /\ PermitAccounting /\ WithinLimits
    /\ AnswerPhases /\ FeedsWanted /\ LimitsMet /\ ViewersSharePermit

USE RequestsAssumption, LimitsAssumption

-----------------------------------------------------------------------------
\* What the proofs use of the configuration.
LEMMA LimitType ==
  ASSUME NEW r \in Requests, NEW w \in Sems
  PROVE  limit(r, w) \in Nat
  BY DEF limit

LEMMA MemberOfSeq ==
  ASSUME NEW S, NEW s \in Seq(S), NEW i \in 1 .. Len(s)
  PROVE  s[i] \in S
  OBVIOUS

\* Requests that hold a permit are finitely many, all of them or those of a client.
LEMMA HoldersFinite ==
  ASSUME NEW w, NEW S
  PROVE  /\ IsFiniteSet(Holders(w)) /\ Cardinality(Holders(w)) \in Nat
         /\ IsFiniteSet(Holders(w) \cap S) /\ Cardinality(Holders(w) \cap S) \in Nat
  <1>1. Holders(w) \in SUBSET Requests /\ Holders(w) \cap S \in SUBSET Requests
    BY DEF Holders
  <1>2. QED
    BY <1>1, FS_Subset, FS_CardinalityType

\* A finite set without one of its members.
LEMMA OneFewer ==
  ASSUME NEW S, IsFiniteSet(S), NEW x \in S, NEW T, T = S \ {x}
  PROVE  Cardinality(T) = Cardinality(S) - 1 /\ Cardinality(T) \in Nat
  BY FS_RemoveElement, FS_CardinalityType

\* Of a request that was admitted, the goroutines hold a permit or had none to take.
LEMMA AdmittedHolds ==
  ASSUME ProxyInv, NEW r \in Served, NEW w \in Sems
  PROVE  /\ r \in Requests
         /\ limit(r, w) > 0 => acq[r][w] = "held" /\ r \in Holders(w)
         /\ ~(limit(r, w) > 0) => acq[r][w] = "unused" /\ r \notin Holders(w)
  <1>1. r \in Requests
    BY DEF Served
  <1>2. limit(r, w) \in Nat
    BY <1>1, LimitType
  <1>3. QED
    BY <1>1, <1>2 DEF ProxyInv, PermitPhases, Holders

-----------------------------------------------------------------------------
(* Permits. *)

\* A step that gives nobody a permit and takes none away keeps the accounting.
LEMMA PermitsUnchanged ==
  ASSUME PermitAccounting, WithinLimits, UNCHANGED semVars,
         \A r \in Requests, w \in Sems : acq'[r][w] = "held" <=> acq[r][w] = "held"
  PROVE  PermitAccounting' /\ WithinLimits'
  <1>1. Holders("global")' = Holders("global") /\ Holders("client")' = Holders("client")
    BY DEF Holders, Sems
  <1>2. QED
    BY <1>1 DEF PermitAccounting, WithinLimits, semVars, OfClient

\* The goroutine that takes a permit is counted, within the limit.
LEMMA PermitTaken ==
  ASSUME ProxyInv, NEW r \in Requests, NEW w \in Sems, AcquireSemaphore(r, w)
  PROVE  PermitAccounting' /\ WithinLimits'
  <1> USE DEF ProxyInv, TypeOK
  <1>1. acq' = [acq EXCEPT ![r][w] = "held"] /\ acq[r][w] = "waiting"
    BY DEF AcquireSemaphore
  <1>2. ClientOf[r] \in Clients /\ GlobalLimit \in Nat /\ ClientLimit \in [Clients -> Nat]
    OBVIOUS
  <1>3. \A v \in Sems : v # w => Holders(v)' = Holders(v)
    BY <1>1 DEF Holders
  <1>4. Holders(w)' = Holders(w) \cup {r} /\ r \notin Holders(w)
    BY <1>1 DEF Holders
  <1>5. CASE w = "global"
    <2>1. gheld' = gheld + 1 /\ cheld' = cheld /\ gheld < GlobalLimit
      BY <1>5 DEF AcquireSemaphore, changeHeld, held, limit
    <2>2. Cardinality(Holders("global")') = Cardinality(Holders("global")) + 1
      BY <1>4, <1>5, HoldersFinite, FS_AddElement
    <2>3. Holders("client")' = Holders("client")
      BY <1>3, <1>5 DEF Sems
    <2>4. PermitAccounting'
      BY <2>1, <2>2, <2>3 DEF PermitAccounting, OfClient
    <2>5. WithinLimits'
      BY <1>2, <2>1 DEF WithinLimits
    <2>6. QED
      BY <2>4, <2>5
  <1>6. CASE w = "client"
    <2>1. /\ gheld' = gheld /\ cheld' = [cheld EXCEPT ![ClientOf[r]] = @ + 1]
          /\ cheld[ClientOf[r]] < ClientLimit[ClientOf[r]]
      BY <1>6 DEF AcquireSemaphore, changeHeld, held, limit
    <2>2. Holders("global")' = Holders("global")
      BY <1>3, <1>6 DEF Sems
    <2>3. ASSUME NEW c \in Clients
          PROVE  /\ cheld'[c] = Cardinality(Holders("client")' \cap OfClient(c))
                 /\ ClientLimit[c] > 0 => cheld'[c] <= ClientLimit[c]
      <3>1. cheld[c] = Cardinality(Holders("client") \cap OfClient(c))
        BY DEF PermitAccounting
      <3>2. CASE c = ClientOf[r]
        <4>1. /\ Holders("client")' \cap OfClient(c) = (Holders("client") \cap OfClient(c)) \cup {r}
              /\ r \notin Holders("client") \cap OfClient(c)
          BY <1>4, <1>6, <3>2 DEF OfClient
        <4>2. Cardinality(Holders("client")' \cap OfClient(c)) =
              Cardinality(Holders("client") \cap OfClient(c)) + 1
          BY <4>1, HoldersFinite, FS_AddElement
        <4>3. cheld'[c] = cheld[c] + 1 /\ cheld[c] < ClientLimit[c]
          BY <1>2, <2>1, <3>2
        <4>4. cheld[c] \in Nat /\ ClientLimit[c] \in Nat
          BY <1>2
        <4>5. QED
          BY <3>1, <4>2, <4>3, <4>4
      <3>3. CASE c # ClientOf[r]
        <4>1. Holders("client")' \cap OfClient(c) = Holders("client") \cap OfClient(c)
          BY <1>4, <1>6, <3>3 DEF OfClient
        <4>2. cheld'[c] = cheld[c]
          BY <2>1, <3>3
        <4>3. QED
          BY <3>1, <4>1, <4>2 DEF WithinLimits
      <3>4. QED
        BY <3>2, <3>3
    <2>4. PermitAccounting'
      BY <2>1, <2>2, <2>3 DEF PermitAccounting, OfClient
    <2>5. WithinLimits'
      BY <2>1, <2>3 DEF WithinLimits
    <2>6. QED
      BY <2>4, <2>5
  <1>7. QED
    BY <1>5, <1>6 DEF Sems

\* releaseSemaphores gives back exactly what an admitted request holds.
LEMMA PermitsGivenBack ==
  ASSUME ProxyInv, NEW r \in Served, releaseSemaphores(r)
  PROVE  /\ PermitAccounting' /\ WithinLimits'
         /\ gheld' \in Nat /\ cheld' \in [Clients -> Nat]
         /\ acq' \in [Requests -> [Sems -> {"unused", "waiting", "held", "failed", "released"}]]
         /\ \A w \in Sems : acq'[r][w] = IF limit(r, w) > 0 THEN "released" ELSE "unused"
         /\ \A q \in Requests \ {r} : acq'[q] = acq[q]
  <1>1. r \in Requests /\ ClientOf[r] \in Clients
    BY AdmittedHolds DEF Sems
  <1>2. /\ GlobalLimit \in Nat /\ ClientLimit \in [Clients -> Nat]
        /\ gheld \in Nat /\ cheld \in [Clients -> Nat]
        /\ acq \in [Requests -> [Sems -> {"unused", "waiting", "held", "failed", "released"}]]
    BY DEF ProxyInv, TypeOK
  <1>3. acq' = [acq EXCEPT ![r] =
                   [w \in Sems |-> IF acq[r][w] = "held" THEN "released" ELSE acq[r][w]]]
    BY DEF releaseSemaphores, GivenBack
  <1>4. /\ acq' \in [Requests -> [Sems -> {"unused", "waiting", "held", "failed", "released"}]]
        /\ \A w \in Sems : acq'[r][w] = IF limit(r, w) > 0 THEN "released" ELSE "unused"
        /\ \A q \in Requests \ {r} : acq'[q] = acq[q]
    BY <1>1, <1>2, <1>3, AdmittedHolds
  <1>5. ASSUME NEW w \in Sems
        PROVE  Holders(w)' = Holders(w) \ {r}
    <2>1. \A q \in Requests : acq'[q][w] = "held" <=> acq[q][w] = "held" /\ q # r
      BY <1>1, <1>4
    <2>2. QED
      BY <2>1 DEF Holders
  <1>6. gheld' \in Nat /\ gheld' = Cardinality(Holders("global")') /\ gheld' <= gheld
    <2>1. gheld = Cardinality(Holders("global"))
      BY DEF ProxyInv, PermitAccounting
    <2>2. "global" \in Sems /\ limit(r, "global") \in Nat
      BY <1>1, LimitType DEF Sems
    <2>0. Holders("global")' = Holders("global") \ {r}
      BY <1>5, <2>2
    <2>3. CASE limit(r, "global") > 0
      <3>1. gheld' = gheld - 1
        BY <2>3 DEF releaseSemaphores
      <3>2. r \in Holders("global")
        BY <2>2, <2>3, AdmittedHolds
      <3>3. Cardinality(Holders("global")') = Cardinality(Holders("global")) - 1
        BY <2>0, <3>2, HoldersFinite, FS_RemoveElement
      <3>4. Cardinality(Holders("global")') \in Nat
        BY <2>0, HoldersFinite, FS_RemoveElement, FS_CardinalityType
      <3>5. QED
        BY <1>2, <2>1, <3>1, <3>3, <3>4
    <2>4. CASE ~(limit(r, "global") > 0)
      <3>1. gheld' = gheld
        BY <2>4 DEF releaseSemaphores
      <3>2. Holders("global")' = Holders("global")
        BY <2>0, <2>2, <2>4, AdmittedHolds
      <3>3. QED
        BY <1>2, <2>1, <3>1, <3>2
    <2>5. QED
      BY <2>3, <2>4
  <1>7. /\ cheld' \in [Clients -> Nat]
        /\ \A c \in Clients : cheld'[c] = Cardinality(Holders("client")' \cap OfClient(c))
    <2>1. "client" \in Sems /\ limit(r, "client") \in Nat
      BY <1>1, LimitType DEF Sems
    <2>2. \A c \in Clients : cheld[c] = Cardinality(Holders("client") \cap OfClient(c))
      BY DEF ProxyInv, PermitAccounting
    <2>3. Holders("client")' = Holders("client") \ {r}
      BY <1>5, <2>1
    <2>4. CASE limit(r, "client") > 0
      <3>1. cheld' = [cheld EXCEPT ![ClientOf[r]] = @ - 1]
        BY <2>4 DEF releaseSemaphores
      <3>2. r \in Holders("client")
        BY <2>1, <2>4, AdmittedHolds
      <3>3. ASSUME NEW c \in Clients
            PROVE  cheld'[c] = Cardinality(Holders("client")' \cap OfClient(c))
        <4> DEFINE H == Holders("client") \cap OfClient(c)
                   H2 == Holders("client")' \cap OfClient(c)
        <4>1. IsFiniteSet(H) /\ Cardinality(H) \in Nat /\ cheld[c] = Cardinality(H)
          BY <2>2, HoldersFinite
        <4>2. CASE c = ClientOf[r]
          <5>1. r \in H /\ H2 = H \ {r}
            BY <1>1, <2>3, <3>2, <4>2 DEF OfClient
          <5>2. cheld'[c] = cheld[c] - 1
            BY <1>2, <3>1, <4>2
          <5> HIDE DEF H, H2
          <5>3. Cardinality(H2) = Cardinality(H) - 1
            BY <4>1, <5>1, OneFewer
          <5>4. cheld'[c] = Cardinality(H2)
            BY <4>1, <5>2, <5>3
          <5>5. QED
            BY <5>4 DEF H2
        <4>3. CASE c # ClientOf[r]
          <5>1. H2 = H
            BY <2>3, <4>3 DEF OfClient
          <5>2. cheld'[c] = cheld[c]
            BY <1>2, <3>1, <4>3
          <5>3. QED
            BY <4>1, <5>1, <5>2
        <4>4. QED
          BY <4>2, <4>3
      <3>4. cheld' \in [Clients -> Int]
        BY <1>1, <1>2, <3>1
      <3>5. ASSUME NEW c \in Clients
            PROVE  cheld'[c] \in Nat
        <4> DEFINE H2 == Holders("client")' \cap OfClient(c)
        <4>1. H2 \subseteq Holders("client")
          BY <2>3
        <4>2. cheld'[c] = Cardinality(H2)
          BY <3>3
        <4> HIDE DEF H2
        <4>3. Cardinality(H2) \in Nat
          BY <4>1, HoldersFinite, FS_Subset, FS_CardinalityType
        <4>4. QED
          BY <4>2, <4>3
      <3>6. cheld' \in [Clients -> Nat]
        BY <3>4, <3>5
      <3>7. QED
        BY <3>3, <3>6
    <2>5. CASE ~(limit(r, "client") > 0)
      <3>1. cheld' = cheld
        BY <2>5 DEF releaseSemaphores
      <3>2. Holders("client")' = Holders("client")
        BY <2>1, <2>3, <2>5, AdmittedHolds
      <3>3. QED
        BY <1>2, <2>2, <3>1, <3>2
    <2>6. QED
      BY <2>4, <2>5
  <1>8. PermitAccounting'
    BY <1>6, <1>7 DEF PermitAccounting, OfClient
  <1>9. WithinLimits'
    <2>1. GlobalLimit > 0 => gheld' <= GlobalLimit
      BY <1>2, <1>6 DEF ProxyInv, WithinLimits
    <2>2. ASSUME NEW c \in Clients, ClientLimit[c] > 0
          PROVE  cheld'[c] <= ClientLimit[c]
      <3>1. cheld[c] <= ClientLimit[c]
        BY <2>2 DEF ProxyInv, WithinLimits
      <3>2. cheld'[c] = cheld[c] \/ cheld'[c] = cheld[c] - 1
        BY <1>1, <1>2 DEF releaseSemaphores
      <3>3. cheld[c] \in Nat /\ ClientLimit[c] \in Nat
        BY <1>2
      <3>4. QED
        BY <3>1, <3>2, <3>3
    <2>3. QED
      BY <2>1, <2>2 DEF WithinLimits
  <1>10. QED
    BY <1>4, <1>6, <1>7, <1>8, <1>9

-----------------------------------------------------------------------------
(* What a step of one request leaves as it was for the others. *)

\* If what the phases say of the request that moves is true after the step, they hold.
LEMMA PhasesStep ==
  ASSUME PermitPhases, ServedReleasesPermits, NEW r \in Requests,
         \A q \in Requests \ {r} : pc'[q] = pc[q] /\ acq'[q] = acq[q],
         pc'[r] # "idle",
         \A w \in Sems : limit(r, w) = 0 => acq'[r][w] = "unused",
         pc'[r] = "acquiring" => \A w \in Sems : limit(r, w) > 0 =>
             acq'[r][w] \in {"waiting", "held", "failed"},
         r \in Served' => \A w \in Sems : limit(r, w) > 0 => acq'[r][w] = "held",
         pc'[r] = "done" /\ ~Refused(r)' => \A w \in Sems : acq'[r][w] # "held"
  PROVE  PermitPhases' /\ ServedReleasesPermits'
  <1>1. ASSUME NEW q \in Requests, NEW w \in Sems
        PROVE  /\ limit(q, w) = 0 \/ pc'[q] = "idle" => acq'[q][w] = "unused"
               /\ pc'[q] = "acquiring" /\ limit(q, w) > 0 =>
                      acq'[q][w] \in {"waiting", "held", "failed"}
               /\ q \in Served' /\ limit(q, w) > 0 => acq'[q][w] = "held"
    <2>1. CASE q = r
      BY <2>1
    <2>2. CASE q # r
      <3>1. pc'[q] = pc[q] /\ acq'[q] = acq[q]
        BY <2>2
      <3>2. q \in Served' => q \in Served
        BY <3>1 DEF Served, Refused
      <3>3. QED
        BY <3>1, <3>2 DEF PermitPhases
    <2>3. QED
      BY <2>1, <2>2
  <1>2. PermitPhases'
    BY <1>1 DEF PermitPhases, limit
  <1>3. ServedReleasesPermits'
    BY DEF ServedReleasesPermits, Refused
  <1>4. QED
    BY <1>2, <1>3

\* A step of a request that is past the semaphores and goes on trying.
LEMMA TryingStep ==
  ASSUME ProxyInv, NEW r \in Served, UNCHANGED <<acq, semVars>>,
         \A q \in Requests \ {r} : pc'[q] = pc[q],
         pc'[r] \in {"trying", "waiting", "copying", "answering"}
  PROVE  PermitPhases' /\ ServedReleasesPermits' /\ PermitAccounting' /\ WithinLimits'
  <1>1. PermitAccounting' /\ WithinLimits'
    BY PermitsUnchanged DEF ProxyInv
  <1>2. r \in Requests
    BY DEF Served
  <1>3. ASSUME NEW w \in Sems
        PROVE  /\ limit(r, w) = 0 => acq'[r][w] = "unused"
               /\ limit(r, w) > 0 => acq'[r][w] = "held"
    <2>1. limit(r, w) \in Nat
      BY <1>2, LimitType
    <2>2. QED
      BY <2>1, AdmittedHolds
  <1>4. PermitPhases /\ ServedReleasesPermits
    BY DEF ProxyInv
  <1>5. PermitPhases' /\ ServedReleasesPermits'
    BY <1>2, <1>3, <1>4, PhasesStep
  <1>6. QED
    BY <1>1, <1>5

\* What becomes of a source is written down for that source alone.
LEMMA OutcomeWritten ==
  ASSUME ProxyInv, NEW r \in Requests,
         NEW x \in {"untried", "skipped", "limit", "failed", "empty", "streamed"},
         \/ outcome' = [outcome EXCEPT ![r][idx[r]] = x]
         \/ outcome' = [outcome EXCEPT ![r] = Untried(r)]
  PROVE  /\ DOMAIN outcome' = Requests
         /\ \A q \in Requests : outcome'[q] \in
               [1 .. Len(SourcesOf[q]) ->
                   {"untried", "skipped", "limit", "failed", "empty", "streamed"}]
         /\ \A q \in Requests \ {r} : outcome'[q] = outcome[q]
  <1> DEFINE Kinds == {"untried", "skipped", "limit", "failed", "empty", "streamed"}
  <1>1. DOMAIN outcome = Requests
    BY DEF ProxyInv
  <1>2. \A q \in Requests : outcome[q] \in [1 .. Len(SourcesOf[q]) -> Kinds]
    BY DEF ProxyInv, TypeOK
  <1>3. CASE outcome' = [outcome EXCEPT ![r][idx[r]] = x]
    <2>1. outcome'[r] = [outcome[r] EXCEPT ![idx[r]] = x]
      BY <1>1, <1>3
    <2>2. outcome'[r] \in [1 .. Len(SourcesOf[r]) -> Kinds]
      BY <1>2, <2>1
    <2>3. DOMAIN outcome' = Requests /\ \A q \in Requests \ {r} : outcome'[q] = outcome[q]
      BY <1>1, <1>3
    <2>4. QED
      BY <1>2, <2>2, <2>3
  <1>4. CASE outcome' = [outcome EXCEPT ![r] = Untried(r)]
    <2>1. outcome'[r] \in [1 .. Len(SourcesOf[r]) -> Kinds]
      BY <1>1, <1>4 DEF Untried
    <2>2. DOMAIN outcome' = Requests /\ \A q \in Requests \ {r} : outcome'[q] = outcome[q]
      BY <1>1, <1>4
    <2>3. QED
      BY <1>2, <2>1, <2>2
  <1>5. QED
    BY <1>3, <1>4

-----------------------------------------------------------------------------
(* The invariant. *)

LEMMA InitInv == Init => ProxyInv
  <1> SUFFICES ASSUME Init PROVE ProxyInv
    OBVIOUS
  <1> USE DEF Init
  <1>1. TypeOK /\ DOMAIN outcome = Requests
    BY DEF TypeOK, Untried, Sems, maxRetryAttempts
  <1>2. PermitPhases /\ ServedReleasesPermits
    BY DEF PermitPhases, ServedReleasesPermits, Served
  <1>3. PermitAccounting
    <2>1. \A w \in Sems : Holders(w) = {}
      BY DEF Holders
    <2>2. Holders("global") = {} /\ \A c \in Clients : Holders("client") \cap OfClient(c) = {}
      BY <2>1 DEF Sems
    <2>3. QED
      BY <2>2, FS_EmptySet DEF PermitAccounting
  <1>4. WithinLimits
    BY DEF WithinLimits
  <1>5. AnswerPhases /\ ViewersSharePermit /\ FeedsWanted
    BY DEF AnswerPhases, ViewersSharePermit, FeedsWanted
  <1>7. LimitsMet
    BY DEF LimitsMet, Untried
  <1>6. QED
    BY <1>1, <1>2, <1>3, <1>4, <1>5, <1>7 DEF ProxyInv

\* Each action keeps the types.
LEMMA TypeStep ==
  ASSUME ProxyInv, [Next]_vars
  PROVE  TypeOK' /\ DOMAIN outcome' = Requests
  <1> DEFINE Kinds == {"untried", "skipped", "limit", "failed", "empty", "streamed"}
  <1> USE DEF semVars, tryVars
  <1>1. TypeOK /\ DOMAIN outcome = Requests
    BY DEF ProxyInv
  <1>2. CASE UNCHANGED vars
    BY <1>1, <1>2 DEF vars, TypeOK
  <1>3. ASSUME NEW r \in Requests, Arrive(r)
        PROVE  TypeOK' /\ DOMAIN outcome' = Requests
    BY <1>1, <1>3 DEF TypeOK, Arrive
  <1>4. ASSUME NEW r \in Requests, NEW w \in Sems, AcquireSemaphore(r, w)
        PROVE  TypeOK' /\ DOMAIN outcome' = Requests
    <2>1. gheld' \in Nat /\ cheld' \in [Clients -> Nat]
      BY <1>1, <1>4 DEF TypeOK, AcquireSemaphore, changeHeld, Sems
    <2>2. QED
      BY <1>1, <1>4, <2>1 DEF TypeOK, AcquireSemaphore
  <1>5. ASSUME NEW r \in Requests, NEW w \in Sems, AcquireFails(r, w)
        PROVE  TypeOK' /\ DOMAIN outcome' = Requests
    <2>1. acq' = [acq EXCEPT ![r][w] = "failed"]
      BY <1>5 DEF AcquireFails
    <2>2. acq' \in [Requests -> [Sems -> {"unused", "waiting", "held", "failed", "released"}]]
      BY <1>1, <2>1 DEF TypeOK
    <2>3. UNCHANGED <<pc, gone, attempt, idx, outcome, answer, gheld, cheld, feed>>
      BY <1>5 DEF AcquireFails
    <2>4. QED
      BY <1>1, <2>2, <2>3 DEF TypeOK
  <1>6. ASSUME NEW r \in Requests, Admit(r) \/ Refuse(r)
        PROVE  TypeOK' /\ DOMAIN outcome' = Requests
    <2>1. CASE Admit(r)
      BY <1>1, <2>1 DEF TypeOK, Admit
    <2>2. CASE Refuse(r)
      BY <1>1, <2>2 DEF TypeOK, Refuse
    <2>3. QED
      BY <1>6, <2>1, <2>2
  <1>7. ASSUME NEW r \in Requests,
               SkipSource(r) \/ SourceLimited(r) \/ SourceFails(r) \/ CopyEmpty(r)
        PROVE  TypeOK' /\ DOMAIN outcome' = Requests
    <2>1. PICK x \in Kinds : NextSource(r, x)
      BY <1>7 DEF SkipSource, SourceLimited, SourceFails, CopyEmpty
    <2>2. DOMAIN outcome' = Requests /\
          \A q \in Requests : outcome'[q] \in [1 .. Len(SourcesOf[q]) -> Kinds]
      BY <2>1, OutcomeWritten DEF NextSource
    <2>3. idx' \in [Requests -> Nat] /\ UNCHANGED attempt
      BY <1>1, <2>1 DEF NextSource, TypeOK
    <2>4. /\ pc' \in [Requests -> {"idle", "acquiring", "trying", "waiting",
                                   "copying", "answering", "done"}]
          /\ UNCHANGED <<acq, gone, answer, semVars, feed>>
      BY <1>1, <1>7 DEF TypeOK, SkipSource, SourceLimited, SourceFails, CopyEmpty
    <2>5. QED
      BY <1>1, <2>2, <2>3, <2>4 DEF TypeOK
  <1>8. ASSUME NEW r \in Requests, GetReader(r)
        PROVE  TypeOK' /\ DOMAIN outcome' = Requests
    <2>1. Source(r) \in [key : Keys, sub : Subs \cup {NoSub}]
      <3>1. idx[r] \in Nat /\ idx[r] <= Len(SourcesOf[r])
        BY <1>1, <1>8 DEF TypeOK, GetReader
      <3>2. idx[r] \in 1 .. Len(SourcesOf[r])
        BY <3>1 DEF ProxyInv
      <3>3. SourcesOf[r] \in Seq([key : Keys, sub : Subs \cup {NoSub}])
        OBVIOUS
      <3>4. QED
        BY <3>2, <3>3, MemberOfSeq DEF Source
    <2>2. feed' \in [Keys -> Subs \cup {NoSub}]
      BY <1>1, <1>8, <2>1 DEF TypeOK, GetReader
    <2>3. QED
      BY <1>1, <1>8, <2>2 DEF TypeOK, GetReader
  <1>9. ASSUME NEW r \in Requests, SourceOpens(r) \/ ClientGone(r)
        PROVE  TypeOK' /\ DOMAIN outcome' = Requests
    BY <1>1, <1>9 DEF TypeOK, SourceOpens, ClientGone
  <1>10. ASSUME NEW r \in Requests, Streamed(r)
         PROVE  TypeOK' /\ DOMAIN outcome' = Requests
    <2>1. r \in Served /\ releaseSemaphores(r)
      BY <1>10 DEF Streamed, Served
    <2>2. /\ gheld' \in Nat /\ cheld' \in [Clients -> Nat]
          /\ acq' \in [Requests -> [Sems -> {"unused", "waiting", "held", "failed", "released"}]]
      BY <2>1, PermitsGivenBack
    <2>3. DOMAIN outcome' = Requests /\
          \A q \in Requests : outcome'[q] \in [1 .. Len(SourcesOf[q]) -> Kinds]
      BY <1>10, OutcomeWritten DEF Streamed
    <2>4. QED
      BY <1>1, <1>10, <2>2, <2>3 DEF TypeOK, Streamed
  <1>11. ASSUME NEW r \in Requests, Retry(r)
         PROVE  TypeOK' /\ DOMAIN outcome' = Requests
    <2>1. DOMAIN outcome' = Requests /\
          \A q \in Requests : outcome'[q] \in [1 .. Len(SourcesOf[q]) -> Kinds]
      BY <1>11, OutcomeWritten DEF Retry
    <2>2. attempt' \in [Requests -> 0 .. maxRetryAttempts - 1]
      <3>1. attempt[r] + 1 \in 0 .. maxRetryAttempts - 1
        <4>1. attempt[r] \in 0 .. 1
          BY <1>1 DEF TypeOK, maxRetryAttempts
        <4>2. attempt[r] + 1 < 2
          BY <1>11 DEF Retry, maxRetryAttempts
        <4>3. QED
          BY <4>1, <4>2 DEF maxRetryAttempts
      <3>2. QED
        BY <1>1, <1>11, <3>1 DEF TypeOK, Retry
    <2>3. /\ idx' \in [Requests -> Nat]
          /\ UNCHANGED <<pc, acq, gone, answer, semVars, feed>>
      BY <1>1, <1>11 DEF TypeOK, Retry
    <2>4. QED
      BY <1>1, <2>1, <2>2, <2>3 DEF TypeOK
  <1>12. ASSUME NEW r \in Requests, GiveUp(r)
         PROVE  TypeOK' /\ DOMAIN outcome' = Requests
    <2>1. errorAnswer(r) \in {"limit", "upstream", "502"}
      BY DEF errorAnswer
    <2>2. QED
      BY <1>1, <1>12, <2>1 DEF TypeOK, GiveUp
  <1>13. ASSUME NEW r \in Requests, Return(r)
         PROVE  TypeOK' /\ DOMAIN outcome' = Requests
    <2>1. CASE Refused(r)
      BY <1>1, <1>13, <2>1 DEF TypeOK, Return
    <2>2. CASE ~Refused(r)
      <3>1. r \in Served /\ releaseSemaphores(r)
        BY <1>13, <2>2 DEF Return, Served
      <3>2. /\ gheld' \in Nat /\ cheld' \in [Clients -> Nat]
            /\ acq' \in [Requests -> [Sems -> {"unused", "waiting", "held", "failed", "released"}]]
        BY <3>1, PermitsGivenBack
      <3>3. QED
        BY <1>1, <1>13, <3>2 DEF TypeOK, Return
    <2>3. QED
      BY <2>1, <2>2
  <1>14. ASSUME NEW k \in Keys, EndFeed(k)
         PROVE  TypeOK' /\ DOMAIN outcome' = Requests
    BY <1>1, <1>14 DEF TypeOK, EndFeed
  <1>15. QED
    BY <1>2, <1>3, <1>4, <1>5, <1>6, <1>7, <1>8, <1>9, <1>10, <1>11, <1>12, <1>13, <1>14
       DEF Next, Handler, Acquire, Terminating

\* Each action keeps the index of the source at one or more.
LEMMA IndexStep ==
  ASSUME ProxyInv, [Next]_vars
  PROVE  \A r \in Requests : idx'[r] > 0
  <1>1. idx \in [Requests -> Nat] /\ \A r \in Requests : idx[r] > 0
    BY DEF ProxyInv, TypeOK
  <1>2. \/ UNCHANGED idx
        \/ \E r \in Requests : \/ idx' = [idx EXCEPT ![r] = @ + 1]
                               \/ idx' = [idx EXCEPT ![r] = 1]
    BY DEF Next, Handler, Acquire, Terminating, vars, tryVars, NextSource, Arrive,
           AcquireSemaphore, AcquireFails, Admit, Refuse, SkipSource, SourceLimited,
           GetReader, SourceFails, SourceOpens, CopyEmpty, Streamed, Retry, GiveUp,
           Return, ClientGone, EndFeed
  <1>3. ASSUME NEW r \in Requests,
               \/ idx' = [idx EXCEPT ![r] = @ + 1]
               \/ idx' = [idx EXCEPT ![r] = 1],
               NEW q \in Requests
        PROVE  idx'[q] > 0
    <2>1. idx'[q] \in {idx[q], idx[q] + 1, 1}
      BY <1>1, <1>3
    <2>2. QED
      BY <1>1, <2>1
  <1>4. QED
    BY <1>1, <1>2, <1>3

\* Each action keeps the permits accounted for and the limits observed.
LEMMA PermitStep ==
  ASSUME ProxyInv, [Next]_vars
  PROVE  PermitPhases' /\ ServedReleasesPermits' /\ PermitAccounting' /\ WithinLimits'
  <1> DEFINE Kept == PermitPhases' /\ ServedReleasesPermits' /\ PermitAccounting' /\ WithinLimits'
  <1> USE DEF semVars, tryVars
  <1>1. TypeOK /\ PermitPhases /\ ServedReleasesPermits /\ PermitAccounting /\ WithinLimits
    BY DEF ProxyInv
  <1>2. CASE UNCHANGED <<pc, acq, semVars>>
    <2>1. PermitAccounting' /\ WithinLimits'
      BY <1>1, <1>2, PermitsUnchanged
    <2>2. PermitPhases' /\ ServedReleasesPermits'
      BY <1>1, <1>2 DEF PermitPhases, ServedReleasesPermits, limit, Served, Refused
    <2>3. QED
      BY <2>1, <2>2
  <1>3. ASSUME NEW r \in Requests, Arrive(r)
        PROVE  Kept
    <2>1. /\ pc[r] = "idle" /\ pc' = [pc EXCEPT ![r] = "acquiring"] /\ UNCHANGED semVars
          /\ \A q \in Requests \ {r} : acq'[q] = acq[q]
      BY <1>3 DEF Arrive
    <2>2. ASSUME NEW w \in Sems
          PROVE  /\ acq[r][w] = "unused"
                 /\ acq'[r][w] = IF limit(r, w) = 0 THEN "unused" ELSE "waiting"
      BY <1>1, <1>3 DEF Arrive, PermitPhases, TypeOK
    <2>3. PermitAccounting' /\ WithinLimits'
      <3>1. \A q \in Requests, w \in Sems : acq'[q][w] = "held" <=> acq[q][w] = "held"
        BY <2>1, <2>2
      <3>2. QED
        BY <1>1, <2>1, <3>1, PermitsUnchanged
    <2>4. pc'[r] = "acquiring" /\ r \notin Served' /\ \A q \in Requests \ {r} : pc'[q] = pc[q]
      BY <1>1, <2>1 DEF TypeOK, Served
    <2>5. \A w \in Sems : limit(r, w) > 0 => limit(r, w) # 0
      BY LimitType
    <2>6. QED
      BY <1>1, <2>1, <2>2, <2>3, <2>4, <2>5, PhasesStep
  <1>4. ASSUME NEW r \in Requests, NEW w \in Sems,
               AcquireSemaphore(r, w) \/ AcquireFails(r, w)
        PROVE  Kept
    <2>1. PICK x \in {"held", "failed"} : acq' = [acq EXCEPT ![r][w] = x]
      BY <1>4 DEF AcquireSemaphore, AcquireFails
    <2>2. pc[r] = "acquiring" /\ UNCHANGED pc /\ acq[r][w] = "waiting"
      BY <1>4 DEF AcquireSemaphore, AcquireFails
    <2>3. limit(r, w) # 0
      BY <1>1, <2>2 DEF PermitPhases
    <2>4. /\ acq'[r][w] = x
          /\ \A v \in Sems : v # w => acq'[r][v] = acq[r][v]
          /\ \A q \in Requests \ {r} : acq'[q] = acq[q]
      BY <1>1, <2>1 DEF TypeOK
    <2>5. PermitPhases' /\ ServedReleasesPermits'
      <3>1. \A v \in Sems : limit(r, v) = 0 => acq'[r][v] = "unused"
        BY <1>1, <2>3, <2>4 DEF PermitPhases
      <3>2. \A v \in Sems : limit(r, v) > 0 => acq'[r][v] \in {"waiting", "held", "failed"}
        BY <1>1, <2>2, <2>4 DEF PermitPhases
      <3>3. pc'[r] = "acquiring" /\ r \notin Served'
        BY <2>2 DEF Served
      <3>4. QED
        BY <1>1, <2>2, <2>4, <3>1, <3>2, <3>3, PhasesStep
    <2>6. PermitAccounting' /\ WithinLimits'
      <3>1. CASE AcquireSemaphore(r, w)
        BY <3>1, PermitTaken
      <3>2. CASE AcquireFails(r, w)
        <4>1. UNCHANGED semVars /\ acq' = [acq EXCEPT ![r][w] = "failed"]
          BY <3>2 DEF AcquireFails
        <4>2. \A q \in Requests, v \in Sems : acq'[q][v] = "held" <=> acq[q][v] = "held"
          BY <1>1, <2>2, <4>1 DEF TypeOK
        <4>3. QED
          BY <1>1, <4>1, <4>2, PermitsUnchanged
      <3>3. QED
        BY <1>4, <3>1, <3>2
    <2>7. QED
      BY <2>5, <2>6
  <1>5. ASSUME NEW r \in Requests, Admit(r) \/ Refuse(r)
        PROVE  Kept
    <2>1. /\ pc[r] = "acquiring" /\ UNCHANGED <<acq, semVars>>
          /\ \A q \in Requests \ {r} : pc'[q] = pc[q]
      BY <1>1, <1>5 DEF TypeOK, Admit, Refuse
    <2>2. PermitAccounting' /\ WithinLimits'
      BY <1>1, <2>1, PermitsUnchanged
    <2>3. \A w \in Sems : limit(r, w) = 0 => acq'[r][w] = "unused"
      BY <1>1, <2>1 DEF PermitPhases
    <2>4. CASE Admit(r)
      <3>1. pc'[r] = "trying" /\ \A w \in Sems : acq[r][w] \in {"unused", "held"}
        BY <1>1, <2>4 DEF Admit, TypeOK
      <3>2. \A w \in Sems : limit(r, w) > 0 => acq'[r][w] = "held"
        BY <1>1, <2>1, <3>1 DEF PermitPhases
      <3>3. QED
        BY <1>1, <2>1, <2>2, <2>3, <3>1, <3>2, PhasesStep
    <2>5. CASE Refuse(r)
      <3>1. pc'[r] = "answering" /\ Refused(r)'
        BY <1>1, <2>5 DEF Refuse, Refused, TypeOK
      <3>2. r \notin Served'
        BY <3>1 DEF Served
      <3>3. QED
        BY <1>1, <2>1, <2>2, <2>3, <3>1, <3>2, PhasesStep
    <2>6. QED
      BY <1>5, <2>4, <2>5
  <1>6. ASSUME NEW r \in Requests,
               \/ SkipSource(r) \/ SourceLimited(r) \/ GetReader(r) \/ SourceFails(r)
               \/ SourceOpens(r) \/ CopyEmpty(r) \/ Retry(r) \/ GiveUp(r)
        PROVE  Kept
    <2>1. pc[r] \in {"trying", "waiting", "copying"} /\ UNCHANGED <<acq, semVars>>
      BY <1>6 DEF SkipSource, SourceLimited, GetReader, SourceFails, SourceOpens,
                  CopyEmpty, Retry, GiveUp, AllTried
    <2>2. \/ UNCHANGED pc
          \/ \E x \in {"trying", "waiting", "copying", "answering"} : pc' = [pc EXCEPT ![r] = x]
      BY <1>6 DEF SkipSource, SourceLimited, GetReader, SourceFails, SourceOpens,
                  CopyEmpty, Retry, GiveUp
    <2>3. /\ pc'[r] \in {"trying", "waiting", "copying", "answering"}
          /\ \A q \in Requests \ {r} : pc'[q] = pc[q]
      BY <1>1, <2>1, <2>2 DEF TypeOK
    <2>4. r \in Served
      BY <2>1 DEF Served
    <2>5. QED
      BY <2>1, <2>3, <2>4, TryingStep
  <1>7. ASSUME NEW r \in Served, pc' = [pc EXCEPT ![r] = "done"], releaseSemaphores(r)
        PROVE  Kept
    <2>1. r \in Requests /\ pc'[r] = "done" /\ \A q \in Requests \ {r} : pc'[q] = pc[q]
      BY <1>1, <1>7 DEF Served, TypeOK
    <2>2. /\ PermitAccounting' /\ WithinLimits'
          /\ \A w \in Sems : acq'[r][w] = IF limit(r, w) > 0 THEN "released" ELSE "unused"
          /\ \A q \in Requests \ {r} : acq'[q] = acq[q]
      BY <1>7, PermitsGivenBack
    <2>3. /\ \A w \in Sems : limit(r, w) = 0 => acq'[r][w] = "unused"
          /\ \A w \in Sems : acq'[r][w] # "held"
      BY <2>2
    <2>4. r \notin Served'
      BY <2>1 DEF Served
    <2>5. QED
      BY <1>1, <2>1, <2>2, <2>3, <2>4, PhasesStep
  <1>8. ASSUME NEW r \in Requests, Streamed(r)
        PROVE  Kept
    BY <1>7, <1>8 DEF Streamed, Served
  <1>9. ASSUME NEW r \in Requests, Return(r)
        PROVE  Kept
    <2>1. CASE Refused(r)
      <3>1. pc[r] = "answering" /\ pc' = [pc EXCEPT ![r] = "done"] /\ UNCHANGED <<acq, semVars>>
        BY <1>9, <2>1 DEF Return
      <3>2. pc'[r] = "done" /\ Refused(r)' /\ \A q \in Requests \ {r} : pc'[q] = pc[q]
        BY <1>1, <2>1, <3>1 DEF TypeOK, Refused
      <3>3. PermitAccounting' /\ WithinLimits'
        BY <1>1, <3>1, PermitsUnchanged
      <3>4. r \notin Served' /\ \A w \in Sems : limit(r, w) = 0 => acq'[r][w] = "unused"
        BY <1>1, <3>1, <3>2 DEF Served, PermitPhases
      <3>5. QED
        BY <1>1, <3>1, <3>2, <3>3, <3>4, PhasesStep
    <2>2. CASE ~Refused(r)
      BY <1>7, <1>9, <2>2 DEF Return, Served
    <2>3. QED
      BY <2>1, <2>2
  <1>10. CASE \/ UNCHANGED vars \/ \E r \in Requests : ClientGone(r)
              \/ \E k \in Keys : EndFeed(k)
    <2>1. UNCHANGED <<pc, acq, semVars>>
      BY <1>10 DEF vars, ClientGone, EndFeed
    <2>2. QED
      BY <1>2, <2>1
  <1>11. QED
    BY <1>3, <1>4, <1>5, <1>6, <1>8, <1>9, <1>10 DEF Next, Handler, Acquire, Terminating

-----------------------------------------------------------------------------
(* Limits. *)

\* The sources of finitely many requests are finitely many.
LEMMA KeysFinite ==
  ASSUME NEW b
  PROVE  IsFiniteSet(KeysOf(b)) /\ Cardinality(KeysOf(b)) \in Nat
  <1> DEFINE KeySet(r) == {SourcesOf[r][i].key : i \in DOMAIN SourcesOf[r]}
             All == {KeySet(r) : r \in Requests}
  <1>1. ASSUME NEW r \in Requests
        PROVE  IsFiniteSet(KeySet(r))
    <2> DEFINE n == Len(SourcesOf[r])
               f == [i \in 1 .. n |-> SourcesOf[r][i].key]
    <2>1. DOMAIN SourcesOf[r] = 1 .. n /\ n \in Nat
      OBVIOUS
    <2>2. f \in Surjection(1 .. n, KeySet(r))
      BY <2>1 DEF Surjection
    <2>3. IsFiniteSet(1 .. n)
      BY <2>1, FS_Interval
    <2>4. QED
      BY <2>2, <2>3, FS_Surjection
  <1>2. IsFiniteSet(All)
    <2> DEFINE f == [r \in Requests |-> KeySet(r)]
    <2> HIDE DEF KeySet
    <2>1. f \in [Requests -> All] /\ \A T \in All : \E r \in Requests : f[r] = T
      OBVIOUS
    <2>2. f \in Surjection(Requests, All)
      BY <2>1 DEF Surjection
    <2>3. QED
      BY <2>2, FS_Surjection
  <1>3. IsFiniteSet(UNION All)
    <2>1. \A T \in All : IsFiniteSet(T)
      BY <1>1
    <2> HIDE DEF All
    <2>2. QED
      BY <2>1, <1>2, FS_UNION
  <1>4. KeysOf(b) \in SUBSET UNION All
    BY DEF KeysOf
  <1>5. QED
    BY <1>3, <1>4, FS_Subset, FS_CardinalityType

\* Requests that came stay: what is contended stays so.
LEMMA ContendedStays ==
  ASSUME ProxyInv, [Next]_vars, NEW b
  PROVE  /\ KeysOf(b) \subseteq KeysOf(b)'
         /\ Contended(b) => Contended(b)'
  <1>1. ASSUME NEW r \in Requests, pc[r] # "idle"
        PROVE  pc'[r] # "idle"
    BY <1>1 DEF ProxyInv, TypeOK, Next, vars, Handler, Acquire, Arrive, Admit, Refuse, SkipSource,
       SourceLimited, GetReader, SourceFails, SourceOpens, CopyEmpty, Streamed, Retry,
       GiveUp, Return, ClientGone, EndFeed, AcquireSemaphore, AcquireFails, Terminating
  <1>2. KeysOf(b) \subseteq KeysOf(b)'
    BY <1>1 DEF KeysOf
  <1>3. /\ IsFiniteSet(KeysOf(b)) /\ Cardinality(KeysOf(b)) \in Nat
        /\ IsFiniteSet(KeysOf(b)') /\ Cardinality(KeysOf(b)') \in Nat
    <2>1. (IsFiniteSet(KeysOf(b)) /\ Cardinality(KeysOf(b)) \in Nat)'
      BY KeysFinite, PTL
    <2>2. QED
      BY <2>1, KeysFinite
  <1>4. Cardinality(KeysOf(b)) <= Cardinality(KeysOf(b)')
    BY <1>2, <1>3, FS_Subset
  <1>5. ASSUME Contended(b)
        PROVE  Contended(b)'
    <2>1. Concurrency[b] \in Nat
      BY <1>5 DEF Contended
    <2>2. QED
      BY <1>3, <1>4, <1>5, <2>1 DEF Contended
  <1>6. QED
    BY <1>2, <1>5

\* A request that tries one of its sources has asked for it.
LEMMA SourceWanted ==
  ASSUME ProxyInv, NEW r \in Requests, pc[r] = "trying", idx[r] <= Len(SourcesOf[r])
  PROVE  /\ idx[r] \in DOMAIN SourcesOf[r]
         /\ Source(r).key \in Keys /\ Source(r).sub \in Subs \cup {NoSub}
         /\ Source(r).key \in KeysOf(Source(r).sub)
  <1>1. idx[r] \in DOMAIN SourcesOf[r]
    BY DEF ProxyInv, TypeOK
  <1>2. SourcesOf[r][idx[r]] \in [key : Keys, sub : Subs \cup {NoSub}]
    <2> DEFINE S == [key : Keys, sub : Subs \cup {NoSub}]
    <2>1. SourcesOf[r] \in Seq(S)
      OBVIOUS
    <2> HIDE DEF S
    <2>2. idx[r] \in 1 .. Len(SourcesOf[r])
      BY <1>1, <2>1
    <2>3. SourcesOf[r][idx[r]] \in S
      BY <2>1, <2>2, MemberOfSeq
    <2>4. QED
      BY <2>3 DEF S
  <1>3. Source(r) = [key |-> Source(r).key, sub |-> Source(r).sub]
    BY <1>2 DEF Source
  <1>4. QED
    BY <1>1, <1>2, <1>3 DEF KeysOf, Source

\* A refused source: the subscription's permits are all taken by other streams.
LEMMA LimitedIsContended ==
  ASSUME ProxyInv, NEW r \in Requests, SourceLimited(r)
  PROVE  Contended(Source(r).sub)
  <1> DEFINE b == Source(r).sub
             k == Source(r).key
  <1>1. /\ b \in Subs /\ k \in KeysOf(b) /\ k \notin FeedsOf(b)
        /\ Concurrency[b] \in Nat
    BY SourceWanted DEF SourceLimited, FeedsOf
  <1>2. FeedsOf(b) \subseteq KeysOf(b)
    BY <1>1 DEF FeedsOf, ProxyInv, FeedsWanted
  <1>3. Concurrency[b] > 0 /\ ~(Cardinality(FeedsOf(b)) < Concurrency[b])
    BY DEF SourceLimited, PermitFree
  <1> HIDE DEF b, k
  <1>4. IsFiniteSet(KeysOf(b)) /\ Cardinality(KeysOf(b)) \in Nat
    BY KeysFinite
  <1>5. /\ IsFiniteSet(FeedsOf(b)) /\ Cardinality(FeedsOf(b)) \in Nat
        /\ Cardinality(FeedsOf(b)) <= Cardinality(KeysOf(b))
        /\ Cardinality(FeedsOf(b)) # Cardinality(KeysOf(b))
    BY <1>1, <1>2, <1>4, FS_Subset, FS_CardinalityType
  <1>6. Cardinality(KeysOf(b)) > Concurrency[b]
    BY <1>1, <1>3, <1>4, <1>5
  <1>7. QED
    BY <1>1, <1>3, <1>6 DEF Contended, b

\* Each action starts only streams that were asked for.
LEMMA FeedStep ==
  ASSUME ProxyInv, [Next]_vars
  PROVE  FeedsWanted'
  <1>1. FeedsWanted /\ feed \in [Keys -> Subs \cup {NoSub}]
    BY DEF ProxyInv, TypeOK
  <1>2. \A b : KeysOf(b) \subseteq KeysOf(b)'
    BY ContendedStays
  <1>3. CASE UNCHANGED feed
    BY <1>1, <1>2, <1>3 DEF FeedsWanted
  <1>4. ASSUME NEW r \in Requests, GetReader(r)
        PROVE  FeedsWanted'
    <2>1. Source(r).key \in KeysOf(Source(r).sub)
      BY <1>4, SourceWanted DEF GetReader
    <2>2. \/ UNCHANGED feed
          \/ feed' = [feed EXCEPT ![Source(r).key] = Source(r).sub]
      BY <1>4 DEF GetReader
    <2>3. QED
      BY <1>1, <1>2, <1>3, <2>1, <2>2 DEF FeedsWanted
  <1>5. ASSUME NEW k \in Keys, EndFeed(k)
        PROVE  FeedsWanted'
    <2>1. feed' = [feed EXCEPT ![k] = NoSub]
      BY <1>5 DEF EndFeed
    <2>2. QED
      BY <1>1, <1>2, <2>1 DEF FeedsWanted
  <1>6. QED
    BY <1>3, <1>4, <1>5 DEF Next, vars, Handler, Acquire, Arrive, Admit, Refuse, SkipSource,
       SourceLimited, SourceFails, SourceOpens, CopyEmpty, Streamed, Retry, GiveUp, Return,
       ClientGone, AcquireSemaphore, AcquireFails, Terminating

\* Each action marks as limited only what is.
LEMMA LimitStep ==
  ASSUME ProxyInv, [Next]_vars
  PROVE  LimitsMet'
  <1> DEFINE Met(r, i) == outcome'[r][i] = "limit" => Contended(SourcesOf[r][i].sub)'
  <1>1. LimitsMet /\ \A b : Contended(b) => Contended(b)'
    BY ContendedStays DEF ProxyInv
  <1>2. ASSUME NEW r \in Requests, NEW i \in DOMAIN SourcesOf[r],
               outcome'[r][i] = outcome[r][i] \/ outcome'[r][i] # "limit"
        PROVE  Met(r, i)
    BY <1>1, <1>2 DEF LimitsMet
  <1>3. CASE UNCHANGED outcome
    BY <1>2, <1>3 DEF LimitsMet
  <1>4. ASSUME NEW r \in Requests, NEW x, outcome' = [outcome EXCEPT ![r][idx[r]] = x],
               x = "limit" => Contended(Source(r).sub)
        PROVE  LimitsMet'
    <2>1. DOMAIN outcome = Requests /\ DOMAIN outcome[r] = DOMAIN SourcesOf[r]
      BY DEF ProxyInv, TypeOK
    <2>2. ASSUME NEW q \in Requests, NEW i \in DOMAIN SourcesOf[q]
          PROVE  Met(q, i)
      <3>1. CASE q = r /\ i = idx[r]
        BY <1>1, <1>4, <2>1, <3>1 DEF Source
      <3>2. CASE ~(q = r /\ i = idx[r])
        BY <1>2, <1>4, <2>1, <3>2
      <3>3. QED
        BY <3>1, <3>2
    <2>3. QED
      BY <2>2 DEF LimitsMet
  <1>5. ASSUME NEW r \in Requests, Retry(r)
        PROVE  LimitsMet'
    <2>1. outcome' = [outcome EXCEPT ![r] = Untried(r)] /\ DOMAIN outcome = Requests
      BY <1>5 DEF Retry, ProxyInv
    <2>2. ASSUME NEW q \in Requests, NEW i \in DOMAIN SourcesOf[q]
          PROVE  Met(q, i)
      BY <1>2, <2>1 DEF Untried
    <2>3. QED
      BY <2>2 DEF LimitsMet
  <1>6. ASSUME NEW r \in Requests, SourceLimited(r)
        PROVE  LimitsMet'
    <2>1. Contended(Source(r).sub)
      BY <1>6, LimitedIsContended
    <2>2. outcome' = [outcome EXCEPT ![r][idx[r]] = "limit"]
      BY <1>6 DEF SourceLimited, NextSource
    <2>3. QED
      BY <1>4, <2>1, <2>2
  <1>7. ASSUME NEW r \in Requests,
               SkipSource(r) \/ SourceFails(r) \/ CopyEmpty(r) \/ Streamed(r)
        PROVE  LimitsMet'
    <2>1. PICK x \in {"skipped", "failed", "empty", "streamed"} :
              outcome' = [outcome EXCEPT ![r][idx[r]] = x]
      BY <1>7 DEF SkipSource, SourceFails, CopyEmpty, Streamed, NextSource
    <2>2. QED
      BY <1>4, <2>1
  <1>8. QED
    BY <1>3, <1>5, <1>6, <1>7 DEF Next, vars, tryVars, Handler, Acquire, Arrive, Admit, Refuse,
       GetReader, SourceOpens, GiveUp, Return, ClientGone, EndFeed, AcquireSemaphore,
       AcquireFails, Terminating

-----------------------------------------------------------------------------
(* Answers. *)

\* A request that was refused by its own semaphores stays so.
LEMMA RefusedStays ==
  ASSUME ProxyInv, [Next]_vars, NEW r \in Requests, Refused(r), pc[r] # "idle"
  PROVE  Refused(r)'
  <1> DEFINE Kept == \A w \in Sems : acq[r][w] = "failed" => acq'[r][w] = "failed"
  <1>1. acq \in [Requests -> [Sems -> {"unused", "waiting", "held", "failed", "released"}]]
    BY DEF ProxyInv, TypeOK
  <1>2. CASE UNCHANGED acq
    BY <1>2 DEF Refused
  <1>3. ASSUME NEW q \in Requests, Arrive(q)
        PROVE  Kept
    BY <1>1, <1>3 DEF Arrive
  <1>4. ASSUME NEW q \in Requests, NEW w \in Sems,
               AcquireSemaphore(q, w) \/ AcquireFails(q, w)
        PROVE  Kept
    <2>1. PICK x \in {"held", "failed"} : acq' = [acq EXCEPT ![q][w] = x]
      BY <1>4 DEF AcquireSemaphore, AcquireFails
    <2>2. acq[q][w] = "waiting" /\ "waiting" # "failed"
      BY <1>4 DEF AcquireSemaphore, AcquireFails
    <2>3. QED
      BY <1>1, <2>1, <2>2
  <1>5. ASSUME NEW q \in Requests, GivenBack(q)
        PROVE  Kept
    <2>1. acq' = [acq EXCEPT ![q] =
                     [w \in Sems |-> IF acq[q][w] = "held" THEN "released" ELSE acq[q][w]]]
      BY <1>5 DEF GivenBack
    <2>2. ASSUME NEW w \in Sems, acq[r][w] = "failed"
          PROVE  acq'[r][w] = "failed"
      <3>0. "failed" # "held"
        OBVIOUS
      <3>1. CASE q = r
        <4>1. acq'[r] = [v \in Sems |-> IF acq[r][v] = "held" THEN "released" ELSE acq[r][v]]
          BY <1>1, <2>1, <3>1
        <4>2. QED
          BY <2>2, <3>0, <4>1
      <3>2. CASE q # r
        BY <1>1, <2>1, <2>2, <3>2
      <3>3. QED
        BY <3>1, <3>2
    <2>3. QED
      BY <2>2
  <1>6. UNCHANGED acq \/ Kept
    BY <1>3, <1>4, <1>5
       DEF Next, vars, Handler, Acquire, Admit, Refuse, SkipSource, SourceLimited, GetReader,
           SourceFails, SourceOpens, CopyEmpty, Streamed, Retry, GiveUp, Return, ClientGone,
           EndFeed, Terminating, releaseSemaphores
  <1>7. QED
    BY <1>2, <1>6 DEF Refused

\* Each action answers last.
LEMMA AnswerStep ==
  ASSUME ProxyInv, [Next]_vars
  PROVE  AnswerPhases'
  <1> USE DEF ProxyInv, TypeOK, AnswerPhases
  <1>1. ASSUME NEW r \in Requests, Arrive(r) \/ Handler(r) \/ ClientGone(r)
        PROVE  AnswerPhases'
    BY <1>1 DEF Arrive, Handler, Admit, Refuse, SkipSource, SourceLimited, GetReader, SourceFails,
                Retry, AllTried, GiveUp, ClientGone
  <1>2. ASSUME NEW r \in Requests, \/ SourceFails(r) \/ SourceOpens(r) \/ CopyEmpty(r)
                                   \/ Streamed(r) \/ Return(r)
        PROVE  AnswerPhases'
    BY <1>2 DEF SourceFails, SourceOpens, CopyEmpty, Streamed, Return
  <1>3. CASE UNCHANGED <<pc, answer>>
    BY <1>3
  <1>4. QED
    BY <1>1, <1>2, <1>3 DEF Next, vars, Acquire, AcquireSemaphore, AcquireFails, EndFeed, Terminating

\* Each action tells of a limit only a request that its semaphores refused, or that
\* met one at a source.
LEMMA ShareStep ==
  ASSUME ProxyInv, [Next]_vars
  PROVE  ViewersSharePermit'
  <1> SUFFICES ASSUME NEW r \in Requests, answer'[r] = "limit", ~Refused(r)'
               PROVE  \E i \in DOMAIN SourcesOf[r] : Contended(SourcesOf[r][i].sub)'
    BY DEF ViewersSharePermit
  <1>1. answer \in [Requests -> {"none", "stream", "limit", "upstream", "502"}]
    BY DEF ProxyInv, TypeOK
  <1>2. \A b : Contended(b) => Contended(b)'
    BY ContendedStays
  <1>3. CASE answer'[r] = answer[r]
    <2>1. pc[r] # "idle"
      BY <1>3 DEF ProxyInv, AnswerPhases
    <2>2. ~Refused(r)
      BY <2>1, RefusedStays
    <2>3. \E i \in DOMAIN SourcesOf[r] : Contended(SourcesOf[r][i].sub)
      BY <1>3, <2>2 DEF ProxyInv, ViewersSharePermit
    <2>4. QED
      BY <1>2, <2>3
  <1>4. CASE GiveUp(r)
    <2>1. errorAnswer(r) = "limit"
      BY <1>1, <1>4 DEF GiveUp
    <2>2. PICK i \in DOMAIN outcome[r] : outcome[r][i] = "limit"
      BY <2>1 DEF errorAnswer, Tried
    <2>3. i \in DOMAIN SourcesOf[r]
      BY <2>2 DEF ProxyInv, TypeOK
    <2>4. QED
      BY <1>2, <2>2, <2>3 DEF ProxyInv, LimitsMet
  <1>5. CASE Refuse(r)
    BY <1>5 DEF Refuse, Refused
  <1>6. answer'[r] = answer[r] \/ GiveUp(r) \/ Refuse(r)
    BY <1>1 DEF Next, vars, Handler, Acquire, Arrive, Admit, Refuse, SkipSource, SourceLimited,
       GetReader, SourceFails, SourceOpens, CopyEmpty, Streamed, Retry, GiveUp, Return,
       ClientGone, EndFeed, AcquireSemaphore, AcquireFails, Terminating
  <1>7. QED
    BY <1>3, <1>4, <1>5, <1>6

LEMMA Invariance == Spec => []ProxyInv
  <1>1. ProxyInv /\ [Next]_vars => ProxyInv'
    BY TypeStep, IndexStep, PermitStep, FeedStep, LimitStep, AnswerStep, ShareStep DEF ProxyInv
  <1>2. QED
    BY InitInv, <1>1, PTL DEF Spec

-----------------------------------------------------------------------------
(* The results. *)

\* Semaphores never go below zero (releaseSemaphores would panic) and every loop
\* counter stays in its range.
THEOREM ProxyTypeCorrect == Spec => []TypeOK
  <1>1. ProxyInv => TypeOK
    BY DEF ProxyInv
  <1>2. QED
    BY Invariance, <1>1, PTL

\* acquireSemaphores and releaseSemaphores: on every path of the handler the counters
\* are the permits taken and not given back.
THEOREM ProxyPermitsCorrect == Spec => []PermitAccounting
  <1>1. ProxyInv => PermitAccounting
    BY DEF ProxyInv
  <1>2. QED
    BY Invariance, <1>1, PTL

\* A request that the handler served, to whatever end, has given back its permits.
THEOREM PermitsReturned == Spec => []ServedReleasesPermits
  <1>1. ProxyInv => ServedReleasesPermits
    BY DEF ProxyInv
  <1>2. QED
    BY Invariance, <1>1, PTL

\* Viewers of one stream, and all attempts of each, share its permit: past its own
\* semaphores a request is told of a limit only if more streams of one of its
\* subscriptions were asked for than that has permits.
THEOREM PermitShared == Spec => []ViewersSharePermit
  <1>1. ProxyInv => ViewersSharePermit
    BY DEF ProxyInv
  <1>2. QED
    BY Invariance, <1>1, PTL

\* Whatever the limits, no more requests are served at a time than they allow: who is
\* served holds a permit, and no semaphore gives out more than it has.
THEOREM LimitsHold == Spec => []ServedWithinLimits
  <1>1. ASSUME ProxyInv
        PROVE  ServedWithinLimits
    <2>1. ASSUME GlobalLimit > 0
          PROVE  Cardinality(Served) <= GlobalLimit
      <3>1. ASSUME NEW r \in Served
            PROVE  r \in Holders("global")
        <4>1. "global" \in Sems /\ limit(r, "global") > 0
          BY <2>1 DEF limit, Sems
        <4>2. QED
          BY <1>1, <4>1, AdmittedHolds
      <3>2. Cardinality(Served) <= Cardinality(Holders("global")) /\ Cardinality(Served) \in Nat
        BY <3>1, HoldersFinite, FS_Subset, FS_CardinalityType
      <3>3. gheld = Cardinality(Holders("global")) /\ gheld <= GlobalLimit /\ gheld \in Nat
        BY <1>1, <2>1 DEF ProxyInv, PermitAccounting, WithinLimits, TypeOK
      <3>4. QED
        BY <3>2, <3>3
    <2>2. ASSUME NEW c \in Clients, ClientLimit[c] > 0
          PROVE  Cardinality(Served \cap OfClient(c)) <= ClientLimit[c]
      <3> DEFINE S == Served \cap OfClient(c)
                 H == Holders("client") \cap OfClient(c)
      <3>1. S \subseteq H
        <4>1. ASSUME NEW r \in Served, ClientOf[r] = c
              PROVE  r \in Holders("client")
          <5>1. "client" \in Sems /\ limit(r, "client") > 0
            BY <2>2, <4>1 DEF limit, Sems
          <5>2. QED
            BY <1>1, <5>1, AdmittedHolds
        <4>2. QED
          BY <4>1 DEF OfClient
      <3>2. cheld[c] = Cardinality(H) /\ IsFiniteSet(H)
        BY <1>1, HoldersFinite DEF ProxyInv, PermitAccounting
      <3>3. cheld[c] <= ClientLimit[c] /\ cheld[c] \in Nat
        BY <1>1, <2>2 DEF ProxyInv, WithinLimits, TypeOK
      <3> HIDE DEF S, H
      <3>4. Cardinality(S) <= Cardinality(H) /\ Cardinality(S) \in Nat
        BY <3>1, <3>2, FS_Subset, FS_CardinalityType
      <3>5. Cardinality(S) <= ClientLimit[c]
        BY <3>2, <3>3, <3>4
      <3>6. QED
        BY <3>5 DEF S
    <2>3. QED
      BY <2>1, <2>2 DEF ServedWithinLimits
  <1>2. QED
    BY Invariance, <1>1, PTL
=============================================================================
