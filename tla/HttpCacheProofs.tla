---------------------------- MODULE HttpCacheProofs ----------------------------
(***************************************************************************)
(* The disk cache: types for any number of parallel fetches; and, for      *)
(* fetches of an entry one at a time (Parallel = 1), with the cleaner and  *)
(* crashes at any moment, that what the cache serves is a whole body, and  *)
(* as new as the origin said.  Without that restriction the code does not  *)
(* serve whole bodies only (run CacheRace).                                *)
(***************************************************************************)
EXTENDS HttpCache, FiniteSetTheorems, TLAPS

\* Where a fetch is that has made no file, or makes none.
Before == {"idle", "open", "head", "get", "create", "createFile"}
Saving == {"save", "unlinkMeta", "renameMeta"}
Fileless(f) == pc[f] \in Before \/ (pc[f] \in Saving /\ saving[f] # "download")

\* An inode has a body from its creation on, names and open files are those of
\* inodes, and a cleanup under way has something left to remove.
Inodes ==
    /\ \A f \in Fetches : Fileless(f) => body[f] = "none" /\ got[f] = "nothing"
    /\ \A f \in Fetches : body[f] = "none" => data # f /\ tmp # f
    /\ \A f, g \in Fetches : fd[f] = g => body[g] # "none"
    /\ \A f \in Fetches : /\ pc[f] = "reading" => fd[f] \in Fetches /\ got[f] = "nothing"
                          /\ pc[f] \in Saving => saving[f] # "no"
                          /\ pc[f] = "cleanup" => unlinks[f] # <<>>
    /\ cleaner = "removeEntry" => unlinks[Cleaner] # <<>>

CacheInv == TypeOK /\ Inodes

-----------------------------------------------------------------------------
\* The rest is about fetches one at a time.
OneAtATime == \A f, g \in InFlight : f = g

\* The entry's body is whole.  A fetch that downloads has its own file, and the
\* temporary name is its file's or nobody's.
Bodies ==
    /\ data # None => body[data] = "whole"
    /\ \A f \in Fetches :
        /\ pc[f] = "createFile" => tmp = None
        /\ pc[f] \in {"reading", "eof", "cut", "replace", "rename"} =>
               fd[f] = f /\ tmp \in {None, f}
        /\ pc[f] = "reading" => body[f] = "partial"
        /\ pc[f] \in {"eof", "replace", "rename"} => body[f] = "whole"

\* Nothing is newer than the origin, and no entry claims to be newer than it is,
\* whatever mixture of an old and a new entry is on the disk.
Downloading == {"create", "createFile", "reading", "eof", "cut", "replace", "rename"}
DatedFetch(f) ==
    /\ ver[f] <= origin /\ asked[f] <= origin /\ hdr[f].lastModified <= origin
    /\ pc[f] \in Downloading =>
           /\ hdr[f].lastModified <= ver[f]
           /\ meta # None => meta.headers.lastModified <= ver[f]
    /\ pc[f] \in {"head"} \cup Saving /\ data # None => hdr[f].lastModified <= ver[data]
    /\ pc[f] \in {"unlinkMeta", "renameMeta"} =>
           tmpMeta \in {None, [headers |-> hdr[f], age |-> "fresh"]}

Dated ==
    /\ \A f \in Fetches : DatedFetch(f)
    /\ meta # None => meta.headers.lastModified <= origin
    /\ meta # None /\ data # None => meta.headers.lastModified <= ver[data]

\* What the origin has confirmed, the fetch reads or downloads anew.
Confirmed ==
    \A f \in Fetches :
        /\ pc[f] = "idle" => asked[f] = 0
        /\ pc[f] \in {"open"} \cup Saving /\ data # None => asked[f] <= ver[data]
        /\ pc[f] \in Downloading => asked[f] <= ver[f]
        /\ got[f] = "whole" => fd[f] \in Fetches /\ asked[f] <= ver[fd[f]]

SerialInv ==
    OneAtATime /\ Bodies /\ Dated /\ Confirmed /\ CachedIsWhole

USE FetchesAssumption, BoundsAssumption

-----------------------------------------------------------------------------
\* The cleaner and the fetches keep lists of their own.
LEMMA AgentsType == Cleaner \notin Fetches
  BY DEF Cleaner

\* The headers of an answer.
LEMMA HeadersType == NoHeaders \in Headers /\ 0 \in Versions
  BY DEF NoHeaders, Headers, Versions

\* An answer dates its body with the origin's version, or not at all.
LEMMA AnswerType ==
  ASSUME TypeOK, NEW h \in Answer
  PROVE  h \in Headers /\ origin \in Versions /\ h.lastModified \in {0, origin}
  <1>1. origin \in Versions
    BY DEF TypeOK, Versions
  <1>2. CASE h = NoHeaders
    BY <1>1, <1>2, HeadersType DEF NoHeaders
  <1>3. CASE h \in [lastModified : {origin}, expires : BOOLEAN]
    BY <1>1, <1>3 DEF Headers
  <1>4. QED
    BY <1>2, <1>3 DEF Answer

\* What there is to remove.
LEMMA NamesType ==
  /\ CleanupNames \in Seq(Names) /\ CleanupNames # <<>>
  /\ <<"data", "meta">> \in Seq(Names) /\ <<"data", "meta">> # <<>>
  /\ <<"meta">> \in Seq(Names) /\ <<"meta">> # <<>>
  BY DEF CleanupNames, Names

\* A list with one name less.
LEMMA TailType ==
  ASSUME NEW s \in Seq(Names), s # <<>>
  PROVE  /\ Tail(s) \in Seq(Names)
         /\ Len(s) # 1 => Len(s) > 1 /\ Tail(s) # <<>>
  <1>1. Len(s) \in Nat /\ Len(s) # 0
    OBVIOUS
  <1>2. Tail(s) \in Seq(Names) /\ Len(Tail(s)) = Len(s) - 1
    OBVIOUS
  <1>3. Len(s) # 1 => Len(Tail(s)) # 0
    BY <1>1, <1>2
  <1>4. Len(s) # 1 => Len(s) > 1
    <2>1. \A n \in Nat : n # 0 /\ n # 1 => n > 1
      OBVIOUS
    <2>2. QED
      BY <1>1, <2>1
  <1>5. Len(<<>>) = 0
    OBVIOUS
  <1>6. Len(s) # 1 => Tail(s) # <<>>
    BY <1>3, <1>5
  <1>7. QED
    BY <1>2, <1>4, <1>6

\* Return and Cleanup change the locals of one fetch.
LEMMA ReturnType ==
  ASSUME TypeOK, NEW f \in Fetches, Return(f)
  PROVE  /\ pc' = [pc EXCEPT ![f] = "done"]
         /\ hdr' = [hdr EXCEPT ![f] = NoHeaders] /\ NoHeaders \in Headers
         /\ saving' = [saving EXCEPT ![f] = "no"]
  BY HeadersType DEF Return, goto

\* Cleanup has at least one name to remove.
LEMMA CleanupType ==
  ASSUME TypeOK, NEW f \in Fetches, Cleanup(f)
  PROVE  /\ pc' = [pc EXCEPT ![f] = "cleanup"]
         /\ unlinks' = [unlinks EXCEPT ![f] = CleanupNames]
         /\ unlinks' \in [Fetches \cup {Cleaner} -> Seq(Names)]
         /\ \A a \in Fetches \cup {Cleaner} : unlinks[a] # <<>> => unlinks'[a] # <<>>
         /\ unlinks'[f] # <<>>
  <1>1. pc' = [pc EXCEPT ![f] = "cleanup"] /\ unlinks' = [unlinks EXCEPT ![f] = CleanupNames]
    BY DEF Cleanup, goto
  <1>2. unlinks \in [Fetches \cup {Cleaner} -> Seq(Names)]
    BY DEF TypeOK
  <1>3. QED
    BY <1>1, <1>2, NamesType

\* Metadata is renamed, and the fetch returns or opens the entry.
LEMMA RenameMetaType ==
  ASSUME NEW f \in Fetches, RenameMeta(f)
  PROVE  /\ pc[f] = "renameMeta" /\ tmpMeta # None /\ meta' = tmpMeta /\ tmpMeta' = None
         /\ UNCHANGED <<origin, data, tmp, body, ver, fd, asked, got, unlinks, cleaner,
                        listed, crashes>>
         /\ \/ saving[f] = "download" /\ Return(f)
            \/ /\ saving[f] # "download" /\ pc' = [pc EXCEPT ![f] = "open"]
               /\ UNCHANGED <<hdr, saving>>
  BY DEF RenameMeta, inodes, cleanup, goto

\* One name is removed, and the fetch returns after the last.
LEMMA CleanupStepType ==
  ASSUME TypeOK, NEW f \in Fetches, CleanupStep(f), unlinks[f] # <<>>
  PROVE  /\ pc[f] = "cleanup"
         /\ data' \in {data, None} /\ tmp' \in {tmp, None}
         /\ meta' \in {meta, None} /\ tmpMeta' \in {tmpMeta, None}
         /\ unlinks' = [unlinks EXCEPT ![f] = Tail(unlinks[f])]
         /\ unlinks' \in [Fetches \cup {Cleaner} -> Seq(Names)]
         /\ UNCHANGED <<origin, body, ver, fd, asked, got, cleaner, listed, crashes>>
         /\ \/ Return(f)
            \/ unlinks'[f] # <<>> /\ UNCHANGED <<pc, hdr, saving>>
  <1>1. unlinks \in [Fetches \cup {Cleaner} -> Seq(Names)]
    BY DEF TypeOK
  <1>2. unlinks' = [unlinks EXCEPT ![f] = Tail(unlinks[f])]
    BY DEF CleanupStep
  <1>3. Tail(unlinks[f]) \in Seq(Names) /\ (Len(unlinks[f]) # 1 => Tail(unlinks[f]) # <<>>)
    BY <1>1, TailType
  <1>4. /\ unlinks' \in [Fetches \cup {Cleaner} -> Seq(Names)]
        /\ unlinks'[f] = Tail(unlinks[f])
    BY <1>1, <1>2, <1>3
  <1>5. Len(unlinks[f]) > 1 => Len(unlinks[f]) # 1
    <2>1. \A n \in Nat : n > 1 => n # 1
      OBVIOUS
    <2>2. Len(unlinks[f]) \in Nat
      BY <1>1
    <2>3. QED
      BY <2>1, <2>2
  <1>6. /\ data' \in {data, None} /\ tmp' \in {tmp, None}
        /\ meta' \in {meta, None} /\ tmpMeta' \in {tmpMeta, None}
    BY DEF CleanupStep, Remove
  <1>7. \/ Return(f)
        \/ unlinks'[f] # <<>> /\ UNCHANGED <<pc, hdr, saving>>
    BY <1>3, <1>4, <1>5 DEF CleanupStep
  <1>8. /\ pc[f] = "cleanup"
        /\ UNCHANGED <<origin, body, ver, fd, asked, got, cleaner, listed, crashes>>
    BY DEF CleanupStep, inodes
  <1>9. QED
    BY <1>2, <1>4, <1>6, <1>7, <1>8

\* Every step keeps the types.
LEMMA TypeStep ==
  ASSUME TypeOK, Inodes, [Next]_vars
  PROVE  TypeOK'
  <1> USE DEF TypeOK, files, inodes, locals, cleanup, goto
  <1>1. ASSUME NEW f \in Fetches, Fetch(f)
        PROVE  TypeOK'
    <2>1. CASE CheckMiss(f)
      BY <2>1 DEF CheckMiss, Start
    <2>2. CASE CheckValid(f)
      BY <2>2 DEF CheckValid, Start, Cached
    <2>3. CASE CheckExpires(f)
      BY <2>3, HeadersType DEF CheckExpires, Start, Cached
    <2>4. CASE CheckStale(f)
      <3>1. meta \in Metadata /\ meta.headers \in Headers
        BY <2>4 DEF CheckStale, Cached, Metadata
      <3>2. QED
        BY <2>4, <3>1 DEF CheckStale
    <2>5. CASE HeadRenews(f)
      <3>1. PICK h \in Answer : hdr' = [hdr EXCEPT ![f] = h]
        BY <2>5 DEF HeadRenews
      <3>2. h \in Headers /\ origin \in Versions
        BY AnswerType
      <3>3. QED
        BY <2>5, <3>1, <3>2 DEF HeadRenews
    <2>6. CASE HeadExpires(f)
      BY <2>6 DEF HeadExpires
    <2>7. CASE OpenCached(f)
      BY <2>7, HeadersType DEF OpenCached, Return
    <2>8. CASE GetFails(f)
      BY <2>8, HeadersType DEF GetFails, Return
    <2>9. CASE Get(f)
      <3>1. PICK h \in Answer : hdr' = [hdr EXCEPT ![f] = h]
        BY <2>9 DEF Get
      <3>2. h \in Headers /\ origin \in Versions
        BY AnswerType
      <3>3. QED
        BY <2>9, <3>1, <3>2 DEF Get
    <2>10. CASE RemoveTmp(f)
      BY <2>10 DEF RemoveTmp
    <2>11. CASE CreateFile(f)
      <3>1. data # f
        BY <2>11 DEF CreateFile, Inodes, Fileless, Before
      <3>2. CASE tmp = None
        <4>1. tmp' = f /\ fd' = [fd EXCEPT ![f] = f] /\ body' = [body EXCEPT ![f] = "partial"]
          BY <2>11, <3>2 DEF CreateFile
        <4>2. QED
          BY <2>11, <3>1, <4>1 DEF CreateFile
      <3>3. CASE tmp # None
        <4>1. tmp' = tmp /\ fd' = [fd EXCEPT ![f] = tmp] /\ body' = [body EXCEPT ![tmp] = "torn"]
          BY <2>11, <3>3 DEF CreateFile
        <4>2. QED
          BY <2>11, <4>1 DEF CreateFile
      <3>4. QED
        BY <3>2, <3>3
    <2>12. CASE ReadToEnd(f)
      BY <2>12 DEF ReadToEnd
    <2>13. CASE ReadLess(f)
      BY <2>13 DEF ReadLess
    <2>14. CASE Abandon(f)
      BY <2>14, HeadersType DEF Abandon, Return
    <2>15. CASE Close(f)
      <3>1. CASE isDownloadComplete(f)
        BY <2>15, <3>1 DEF Close
      <3>2. CASE ~isDownloadComplete(f)
        <4>1. Cleanup(f)
          BY <2>15, <3>2 DEF Close
        <4>2. QED
          BY <2>15, <4>1, CleanupType DEF Close
      <3>3. QED
        BY <3>1, <3>2
    <2>16. CASE RemoveData(f)
      BY <2>16 DEF RemoveData
    <2>17. CASE RenameTmp(f)
      BY <2>17 DEF RenameTmp
    <2>18. CASE RenameFails(f)
      BY <2>18, CleanupType DEF RenameFails
    <2>19. CASE WriteMeta(f)
      <3>1. [headers |-> hdr[f], age |-> "fresh"] \in Metadata
        BY DEF Metadata
      <3>2. QED
        BY <2>19, <3>1 DEF WriteMeta
    <2>20. CASE RemoveMeta(f)
      BY <2>20 DEF RemoveMeta
    <2>21. CASE RenameMeta(f)
      <3>1. /\ meta' = tmpMeta /\ tmpMeta' = None
            /\ UNCHANGED <<origin, data, tmp, body, ver, fd, asked, got, unlinks, cleaner,
                           listed, crashes>>
        BY <2>21, RenameMetaType
      <3>2. CASE Return(f)
        <4>1. /\ pc' = [pc EXCEPT ![f] = "done"]
              /\ hdr' = [hdr EXCEPT ![f] = NoHeaders] /\ NoHeaders \in Headers
              /\ saving' = [saving EXCEPT ![f] = "no"]
          BY <3>2, ReturnType
        <4>2. QED
          BY <3>1, <4>1
      <3>3. CASE ~Return(f)
        <4>1. pc' = [pc EXCEPT ![f] = "open"] /\ UNCHANGED <<hdr, saving>>
          BY <2>21, <3>3, RenameMetaType
        <4>2. QED
          BY <3>1, <4>1
      <3>4. QED
        BY <3>2, <3>3
    <2>22. CASE SaveFails(f)
      <3>1. CASE saving[f] = "download"
        <4>1. Cleanup(f)
          BY <2>22, <3>1 DEF SaveFails
        <4>2. QED
          BY <2>22, <4>1, CleanupType DEF SaveFails
      <3>2. CASE saving[f] # "download"
        BY <2>22, <3>2 DEF SaveFails
      <3>3. QED
        BY <3>1, <3>2
    <2>23. CASE CleanupStep(f)
      <3>1. unlinks[f] # <<>>
        BY <2>23 DEF CleanupStep, Inodes
      <3>2. /\ data' \in {data, None} /\ tmp' \in {tmp, None}
            /\ meta' \in {meta, None} /\ tmpMeta' \in {tmpMeta, None}
            /\ unlinks' \in [Fetches \cup {Cleaner} -> Seq(Names)]
            /\ UNCHANGED <<origin, body, ver, fd, asked, got, cleaner, listed, crashes>>
        BY <2>23, <3>1, CleanupStepType
      <3>3. CASE Return(f)
        <4>1. /\ pc' = [pc EXCEPT ![f] = "done"]
              /\ hdr' = [hdr EXCEPT ![f] = NoHeaders] /\ NoHeaders \in Headers
              /\ saving' = [saving EXCEPT ![f] = "no"]
          BY <3>3, ReturnType
        <4>2. QED
          BY <3>2, <4>1
      <3>4. CASE ~Return(f)
        <4>1. UNCHANGED <<pc, hdr, saving>>
          BY <2>23, <3>1, <3>4, CleanupStepType
        <4>2. QED
          BY <3>2, <4>1
      <3>5. QED
        BY <3>3, <3>4
    <2>24. QED
      BY <1>1, <2>1, <2>2, <2>3, <2>4, <2>5, <2>6, <2>7, <2>8, <2>9, <2>10, <2>11,
         <2>12, <2>13, <2>14, <2>15, <2>16, <2>17, <2>18, <2>19, <2>20, <2>21, <2>22,
         <2>23
      DEF Fetch
  <1>2. ASSUME cleanExpired
        PROVE  TypeOK'
    <2>1. CASE ListFiles
      <3>1. \A name \in Names : ifExists(name) \in Seq(Names)
        BY DEF ifExists
      <3>2. listed' \in Seq(Names)
        BY <2>1, <3>1 DEF ListFiles, Names
      <3>3. QED
        BY <2>1, <3>2 DEF ListFiles
    <2>2. CASE ScanEnds
      BY <2>2 DEF ScanEnds
    <2>3. CASE ScanData
      BY <2>3 DEF ScanData, Looking
    <2>4. CASE RemoveOrphan
      BY <2>4 DEF RemoveOrphan
    <2>5. CASE ScanMeta
      <3>1. Tail(listed) \in Seq(Names)
        BY <2>5, TailType DEF ScanMeta, Looking
      <3>2. CASE ~(meta # None /\ meta.age # "expired")
        <4>1. PICK names \in {<<"meta">>, <<"data", "meta">>} :
                  unlinks' = [unlinks EXCEPT ![Cleaner] = names]
          BY <2>5, <3>2 DEF ScanMeta
        <4>2. names \in Seq(Names)
          BY NamesType
        <4>3. QED
          BY <2>5, <3>1, <3>2, <4>1, <4>2 DEF ScanMeta
      <3>3. CASE meta # None /\ meta.age # "expired"
        BY <2>5, <3>1, <3>3 DEF ScanMeta
      <3>4. QED
        BY <3>2, <3>3
    <2>6. CASE removeEntryStep
      <3>1. unlinks[Cleaner] \in Seq(Names) /\ unlinks[Cleaner] # <<>>
        BY <2>6 DEF removeEntryStep, Inodes
      <3>2. Tail(unlinks[Cleaner]) \in Seq(Names)
        BY <3>1, TailType
      <3>3. unlinks' = [unlinks EXCEPT ![Cleaner] = Tail(unlinks[Cleaner])]
        BY <2>6 DEF removeEntryStep
      <3>4. unlinks' \in [Fetches \cup {Cleaner} -> Seq(Names)]
        BY <3>2, <3>3
      <3>5. /\ {data', tmp'} \subseteq {data, tmp, None} /\ (data' # None => data' = data)
            /\ {meta', tmpMeta'} \subseteq {meta, tmpMeta, None}
            /\ (tmp' # None => tmp' = tmp)
        BY <2>6 DEF removeEntryStep, Remove
      <3>6. QED
        BY <2>6, <3>4, <3>5 DEF removeEntryStep
    <2>7. ASSUME NEW name \in Names, ScanTemporary(name)
          PROVE  TypeOK'
      BY <2>7 DEF ScanTemporary, Looking, Remove
    <2>8. QED
      BY <1>2, <2>1, <2>2, <2>3, <2>4, <2>5, <2>6, <2>7 DEF cleanExpired
  <1>3. CASE Age
    <2>1. /\ meta \in Metadata
          /\ meta' = [meta EXCEPT !.age = IF @ = "fresh" THEN "stale" ELSE "expired"]
      BY <1>3 DEF Age
    <2>2. meta' \in Metadata
      BY <2>1 DEF Metadata
    <2>3. QED
      BY <1>3, <2>2 DEF Age
  <1>4. CASE ExpiresPasses
    <2>1. meta \in Metadata /\ meta' = [meta EXCEPT !.headers = [@ EXCEPT !.expires = FALSE]]
      BY <1>4 DEF ExpiresPasses
    <2>2. [meta.headers EXCEPT !.expires = FALSE] \in Headers
      BY <2>1 DEF Metadata, Headers
    <2>3. meta' \in Metadata
      BY <2>1, <2>2 DEF Metadata
    <2>4. QED
      BY <1>4, <2>3 DEF ExpiresPasses
  <1>5. CASE Publish
    BY <1>5 DEF Publish
  <1>6. CASE Crash
    BY <1>6, HeadersType DEF Crash
  <1>7. CASE UNCHANGED vars
    BY <1>7 DEF vars
  <1>8. QED
    BY <1>1, <1>2, <1>3, <1>4, <1>5, <1>6, <1>7 DEF Next

\* Inodes get their body when they are made, and keep it.
LEMMA InodesStep ==
  ASSUME TypeOK, Inodes, [Next]_vars
  PROVE  Inodes'
  <1> USE DEF TypeOK, Inodes, files, inodes, locals, cleanup, goto, Fileless, Before, Saving
  <1>1. ASSUME NEW f \in Fetches, Fetch(f)
        PROVE  Inodes'
    <2>1. CASE CheckMiss(f)
      BY <2>1 DEF CheckMiss, Start
    <2>2. CASE CheckValid(f)
      BY <2>2 DEF CheckValid, Start, Cached
    <2>3. CASE CheckExpires(f)
      BY <2>3 DEF CheckExpires, Start, Cached
    <2>4. CASE CheckStale(f)
      BY <2>4 DEF CheckStale, Start, Cached
    <2>5. CASE HeadRenews(f)
      BY <2>5 DEF HeadRenews, Answer, notModified
    <2>6. CASE HeadExpires(f)
      BY <2>6 DEF HeadExpires
    <2>7. CASE OpenCached(f)
      BY <2>7 DEF OpenCached, Return
    <2>8. CASE GetFails(f)
      BY <2>8 DEF GetFails, Return
    <2>9. CASE Get(f)
      BY <2>9 DEF Get, Answer
    <2>10. CASE RemoveTmp(f)
      BY <2>10 DEF RemoveTmp
    <2>11. CASE CreateFile(f)
      <3>1. /\ body[f] = "none" /\ got[f] = "nothing" /\ saving' = saving /\ got' = got
            /\ pc' = [pc EXCEPT ![f] = "reading"] /\ data' = data
            /\ unlinks' = unlinks /\ cleaner' = cleaner
        BY <2>11 DEF CreateFile
      <3>2. CASE tmp = None
        <4>1. tmp' = f /\ fd' = [fd EXCEPT ![f] = f] /\ body' = [body EXCEPT ![f] = "partial"]
          BY <2>11, <3>2 DEF CreateFile
        <4>2. QED
          BY <3>1, <4>1
      <3>3. CASE tmp # None
        <4>1. tmp \in Fetches /\ body[tmp] # "none" /\ ~Fileless(tmp) /\ tmp # f
          BY <3>1, <3>3
        <4>2. tmp' = tmp /\ fd' = [fd EXCEPT ![f] = tmp] /\ body' = [body EXCEPT ![tmp] = "torn"]
          BY <2>11, <3>3 DEF CreateFile
        <4>3. QED
          BY <3>1, <4>1, <4>2
      <3>4. QED
        BY <3>2, <3>3
    <2>12. CASE ReadToEnd(f)
      BY <2>12 DEF ReadToEnd
    <2>13. CASE ReadLess(f)
      BY <2>13 DEF ReadLess
    <2>14. CASE Abandon(f)
      BY <2>14 DEF Abandon, Return
    <2>15. CASE Close(f)
      <3>1. CASE isDownloadComplete(f)
        BY <2>15, <3>1 DEF Close
      <3>2. CASE ~isDownloadComplete(f)
        <4>1. Cleanup(f) /\ UNCHANGED <<data, tmp, body, fd, got, saving, cleaner>>
          BY <2>15, <3>2 DEF Close
        <4>2. QED
          BY <4>1, CleanupType, AgentsType
      <3>3. QED
        BY <3>1, <3>2
    <2>16. CASE RemoveData(f)
      BY <2>16 DEF RemoveData
    <2>17. CASE RenameTmp(f)
      BY <2>17 DEF RenameTmp
    <2>18. CASE RenameFails(f)
      BY <2>18, CleanupType, AgentsType DEF RenameFails
    <2>19. CASE WriteMeta(f)
      BY <2>19 DEF WriteMeta
    <2>20. CASE RemoveMeta(f)
      BY <2>20 DEF RemoveMeta
    <2>21. CASE RenameMeta(f)
      <3>1. /\ pc[f] = "renameMeta" /\ UNCHANGED <<data, tmp, body, fd, got, unlinks, cleaner>>
        BY <2>21, RenameMetaType
      <3>2. CASE Return(f)
        <4>1. pc' = [pc EXCEPT ![f] = "done"] /\ saving' = [saving EXCEPT ![f] = "no"]
          BY <3>2, ReturnType
        <4>2. QED
          BY <3>1, <4>1
      <3>3. CASE ~Return(f)
        <4>1. pc' = [pc EXCEPT ![f] = "open"] /\ saving[f] # "download" /\ saving' = saving
          BY <2>21, <3>3, RenameMetaType
        <4>2. QED
          BY <3>1, <4>1
      <3>4. QED
        BY <3>2, <3>3
    <2>22. CASE SaveFails(f)
      <3>1. CASE saving[f] = "download"
        <4>1. Cleanup(f)
          BY <2>22, <3>1 DEF SaveFails
        <4>2. QED
          BY <2>22, <4>1, CleanupType, AgentsType DEF SaveFails
      <3>2. CASE saving[f] # "download"
        BY <2>22, <3>2 DEF SaveFails
      <3>3. QED
        BY <3>1, <3>2
    <2>23. CASE CleanupStep(f)
      <3>1. unlinks[f] # <<>> /\ pc[f] = "cleanup" /\ Cleaner # f
        BY <2>23, AgentsType DEF CleanupStep
      <3>2. /\ data' \in {data, None} /\ tmp' \in {tmp, None}
            /\ UNCHANGED <<body, fd, got, cleaner>>
        BY <2>23, <3>1, CleanupStepType
      <3>3. \A a \in Fetches \cup {Cleaner} : a # f => unlinks'[a] = unlinks[a]
        BY <2>23 DEF CleanupStep
      <3>4. cleaner' = "removeEntry" => unlinks'[Cleaner] # <<>>
        BY <3>1, <3>2, <3>3
      <3>5. \A g \in Fetches : body[g] = "none" => data' # g /\ tmp' # g
        BY <3>2
      <3>6. CASE Return(f)
        <4>1. pc' = [pc EXCEPT ![f] = "done"] /\ saving' = [saving EXCEPT ![f] = "no"]
          BY <3>6, ReturnType
        <4>2. QED
          BY <3>2, <3>3, <3>4, <3>5, <4>1
      <3>7. CASE ~Return(f)
        <4>1. unlinks'[f] # <<>> /\ UNCHANGED <<pc, saving>>
          BY <2>23, <3>1, <3>7, CleanupStepType
        <4>2. \A g \in Fetches : pc[g] = "cleanup" => unlinks'[g] # <<>>
          BY <3>3, <4>1
        <4>3. QED
          BY <3>2, <3>4, <3>5, <4>1, <4>2
      <3>8. QED
        BY <3>6, <3>7
    <2>24. QED
      BY <1>1, <2>1, <2>2, <2>3, <2>4, <2>5, <2>6, <2>7, <2>8, <2>9, <2>10, <2>11,
         <2>12, <2>13, <2>14, <2>15, <2>16, <2>17, <2>18, <2>19, <2>20, <2>21, <2>22,
         <2>23
      DEF Fetch
  <1>2. ASSUME cleanExpired
        PROVE  Inodes'
    <2>1. CASE ListFiles
      BY <2>1 DEF ListFiles, ifExists
    <2>2. CASE ScanEnds
      BY <2>2 DEF ScanEnds
    <2>3. CASE ScanData
      BY <2>3 DEF ScanData, Looking
    <2>4. CASE RemoveOrphan
      BY <2>4 DEF RemoveOrphan
    <2>5. CASE ScanMeta
      <3>1. CASE ~(meta # None /\ meta.age # "expired")
        <4>1. PICK names \in {<<"meta">>, <<"data", "meta">>} :
                  unlinks' = [unlinks EXCEPT ![Cleaner] = names]
          BY <2>5, <3>1 DEF ScanMeta
        <4>4. names # <<>>
          BY NamesType
        <4>2. unlinks'[Cleaner] # <<>> /\ \A g \in Fetches : unlinks'[g] = unlinks[g]
          BY <4>1, <4>4, AgentsType
        <4>3. QED
          BY <2>5, <4>2 DEF ScanMeta
      <3>2. CASE meta # None /\ meta.age # "expired"
        BY <2>5, <3>2 DEF ScanMeta
      <3>3. QED
        BY <3>1, <3>2
    <2>6. CASE removeEntryStep
      <3>1. unlinks[Cleaner] \in Seq(Names) /\ unlinks[Cleaner] # <<>>
        BY <2>6 DEF removeEntryStep
      <3>2. unlinks' = [unlinks EXCEPT ![Cleaner] = Tail(unlinks[Cleaner])]
        BY <2>6 DEF removeEntryStep
      <3>3. Len(unlinks[Cleaner]) # 1 => Tail(unlinks[Cleaner]) # <<>>
        BY <3>1, TailType
      <3>4. (data' # None => data' = data) /\ (tmp' # None => tmp' = tmp)
        BY <2>6 DEF removeEntryStep, Remove
      <3>5. QED
        BY <2>6, <3>2, <3>3, <3>4, AgentsType DEF removeEntryStep
    <2>7. ASSUME NEW name \in Names, ScanTemporary(name)
          PROVE  Inodes'
      BY <2>7 DEF ScanTemporary, Looking, Remove
    <2>8. QED
      BY <1>2, <2>1, <2>2, <2>3, <2>4, <2>5, <2>6, <2>7 DEF cleanExpired
  <1>3. CASE Age
    BY <1>3 DEF Age
  <1>4. CASE ExpiresPasses
    BY <1>4 DEF ExpiresPasses
  <1>5. CASE Publish
    BY <1>5 DEF Publish
  <1>6. CASE Crash
    BY <1>6 DEF Crash
  <1>7. CASE UNCHANGED vars
    BY <1>7 DEF vars
  <1>8. QED
    BY <1>1, <1>2, <1>3, <1>4, <1>5, <1>6, <1>7 DEF Next

-----------------------------------------------------------------------------
\* Every version is a number.
Numbers ==
    /\ origin \in Nat /\ ver \in [Fetches -> Nat] /\ asked \in [Fetches -> Nat]
    /\ \A f \in Fetches : hdr[f].lastModified \in Nat
    /\ meta # None => meta.headers.lastModified \in Nat

LEMMA TypeNumbers ==
  ASSUME TypeOK
  PROVE  Numbers
  <1>1. Versions \subseteq Nat /\ 1 .. MaxVersion \subseteq Nat
    BY DEF Versions
  <1>2. \A h \in Headers : h.lastModified \in Nat
    BY <1>1 DEF Headers
  <1>3. meta # None => meta.headers \in Headers
    BY DEF TypeOK, Metadata
  <1>4. QED
    BY <1>1, <1>2, <1>3 DEF TypeOK, Numbers

\* With Parallel = 1 a fetch starts when no other is under way ...
LEMMA StartAlone ==
  ASSUME Parallel = 1, NEW f \in Fetches, Start(f)
  PROVE  \A g \in Fetches : pc[g] \in {"idle", "done"}
  <1>1. IsFiniteSet(InFlight)
    BY FS_Subset DEF InFlight
  <1>2. Cardinality(InFlight) \in Nat
    BY <1>1, FS_CardinalityType
  <1>3. Cardinality(InFlight) = 0
    BY <1>2 DEF Start
  <1>4. InFlight = {}
    BY <1>1, <1>3, FS_EmptySet
  <1>5. QED
    BY <1>4 DEF InFlight

\* A fetch starts or is under way, and moves no other.
LEMMA FetchMoves ==
  ASSUME TypeOK, NEW f \in Fetches, Fetch(f)
  PROVE  /\ Start(f) \/ f \in InFlight
         /\ \A g \in Fetches \ {f} : pc'[g] = pc[g]
  <1> USE DEF TypeOK, InFlight, goto
  <1>1. CASE CheckMiss(f) \/ CheckValid(f) \/ CheckExpires(f) \/ CheckStale(f)
    BY <1>1 DEF CheckMiss, CheckValid, CheckExpires, CheckStale
  <1>2. CASE \/ HeadRenews(f) \/ HeadExpires(f) \/ OpenCached(f) \/ GetFails(f) \/ Get(f)
             \/ RemoveTmp(f) \/ CreateFile(f)
    BY <1>2 DEF HeadRenews, HeadExpires, OpenCached, GetFails, Get, RemoveTmp, CreateFile,
       Return
  <1>3. CASE \/ ReadToEnd(f) \/ ReadLess(f) \/ Abandon(f) \/ Close(f) \/ RemoveData(f)
             \/ RenameTmp(f) \/ RenameFails(f)
    BY <1>3 DEF ReadToEnd, ReadLess, Abandon, Close, RemoveData, RenameTmp, RenameFails,
       Return, Cleanup
  <1>4. CASE WriteMeta(f) \/ RemoveMeta(f) \/ RenameMeta(f)
    BY <1>4 DEF WriteMeta, RemoveMeta, RenameMeta, Return
  <1>5. CASE SaveFails(f)
    BY <1>5 DEF SaveFails, Cleanup
  <1>6. CASE CleanupStep(f)
    BY <1>6 DEF CleanupStep, Return
  <1>7. QED
    BY <1>1, <1>2, <1>3, <1>4, <1>5, <1>6 DEF Fetch

\* With Parallel = 1 it is therefore the only one.
LEMMA FetchAlone ==
  ASSUME Parallel = 1, TypeOK, OneAtATime, NEW f \in Fetches, Fetch(f)
  PROVE  \A g \in Fetches \ {f} : pc[g] \in {"idle", "done"} /\ pc'[g] \in {"idle", "done"}
  <1>1. \A g \in Fetches \ {f} : pc[g] \in {"idle", "done"}
    BY FetchMoves, StartAlone DEF OneAtATime, InFlight
  <1>2. QED
    BY <1>1, FetchMoves

\* What no fetch does moves none, or ends all.
LEMMA OthersMove ==
  ASSUME TypeOK, cleanExpired \/ Age \/ ExpiresPasses \/ Publish \/ Crash \/ UNCHANGED vars
  PROVE  \A g \in Fetches : pc'[g] \in {pc[g], "done"}
  <1>1. CASE cleanExpired
    BY <1>1 DEF cleanExpired, ListFiles, ScanEnds, ScanData, RemoveOrphan, ScanMeta,
       removeEntryStep, ScanTemporary
  <1>2. CASE Age \/ ExpiresPasses \/ Publish \/ UNCHANGED vars
    BY <1>2 DEF Age, ExpiresPasses, Publish, vars
  <1>3. CASE Crash
    BY <1>3 DEF Crash
  <1>4. QED
    BY <1>1, <1>2, <1>3

\* With one fetch at a time only the one that runs, or that starts, is not idle.
LEMMA OneStep ==
  ASSUME Parallel = 1, TypeOK, OneAtATime, [Next]_vars
  PROVE  OneAtATime'
  <1>1. ASSUME NEW f \in Fetches, Fetch(f)
        PROVE  OneAtATime'
    BY <1>1, FetchAlone DEF OneAtATime, InFlight
  <1>2. CASE cleanExpired \/ Age \/ ExpiresPasses \/ Publish \/ Crash \/ UNCHANGED vars
    BY <1>2, OthersMove DEF OneAtATime, InFlight
  <1>3. QED
    BY <1>1, <1>2 DEF Next

-----------------------------------------------------------------------------
\* The body that is published is the whole download of the fetch that publishes it.
LEMMA BodiesStep ==
  ASSUME Parallel = 1, TypeOK, Inodes, OneAtATime, Bodies, [Next]_vars
  PROVE  Bodies'
  <1> USE DEF TypeOK, Inodes, Bodies, files, inodes, locals, cleanup, goto, Fileless, Before, Saving
  <1>1. ASSUME NEW f \in Fetches, Fetch(f)
        PROVE  Bodies'
    <2>1. CASE CheckMiss(f)
      BY <2>1 DEF CheckMiss, Start
    <2>2. CASE CheckValid(f)
      BY <2>2 DEF CheckValid, Start, Cached
    <2>3. CASE CheckExpires(f)
      BY <2>3 DEF CheckExpires, Start, Cached
    <2>4. CASE CheckStale(f)
      BY <2>4 DEF CheckStale, Start, Cached
    <2>5. CASE HeadRenews(f)
      BY <2>5 DEF HeadRenews, Answer, notModified
    <2>6. CASE HeadExpires(f)
      BY <2>6 DEF HeadExpires
    <2>7. CASE OpenCached(f)
      BY <2>7 DEF OpenCached, Return
    <2>8. CASE GetFails(f)
      BY <2>8 DEF GetFails, Return
    <2>9. CASE Get(f)
      BY <2>9 DEF Get, Answer
    <2>10. CASE RemoveTmp(f)
      BY <2>10 DEF RemoveTmp
    <2>11. CASE CreateFile(f)
      <3>1. /\ pc[f] = "createFile" /\ tmp = None /\ tmp' = f /\ data' = data
            /\ pc' = [pc EXCEPT ![f] = "reading"] /\ fd' = [fd EXCEPT ![f] = f]
            /\ body' = [body EXCEPT ![f] = "partial"] /\ data # f
        BY <2>11 DEF CreateFile
      <3>2. \A g \in Fetches \ {f} : pc'[g] \in {"idle", "done"}
        BY <1>1, FetchAlone
      <3>3. data # None => body'[data] = "whole"
        BY <3>1
      <3>4. QED
        BY <3>1, <3>2, <3>3
    <2>12. CASE ReadToEnd(f)
      BY <2>12 DEF ReadToEnd
    <2>13. CASE ReadLess(f)
      BY <2>13 DEF ReadLess
    <2>14. CASE Abandon(f)
      BY <2>14 DEF Abandon, Return
    <2>15. CASE Close(f)
      BY <2>15 DEF Close, Cleanup, isDownloadComplete
    <2>16. CASE RemoveData(f)
      BY <2>16 DEF RemoveData
    <2>17. CASE RenameTmp(f)
      BY <2>17 DEF RenameTmp
    <2>18. CASE RenameFails(f)
      BY <2>18 DEF RenameFails, Cleanup
    <2>19. CASE WriteMeta(f)
      BY <2>19 DEF WriteMeta
    <2>20. CASE RemoveMeta(f)
      BY <2>20 DEF RemoveMeta
    <2>21. CASE RenameMeta(f)
      BY <2>21 DEF RenameMeta, Return
    <2>22. CASE SaveFails(f)
      BY <2>22 DEF SaveFails, Cleanup
    <2>23. CASE CleanupStep(f)
      BY <2>23 DEF CleanupStep, Return, Remove
    <2>24. QED
      BY <1>1, <2>1, <2>2, <2>3, <2>4, <2>5, <2>6, <2>7, <2>8, <2>9, <2>10, <2>11,
         <2>12, <2>13, <2>14, <2>15, <2>16, <2>17, <2>18, <2>19, <2>20, <2>21, <2>22,
         <2>23
      DEF Fetch
  <1>2. ASSUME cleanExpired
        PROVE  Bodies'
    <2>1. CASE ListFiles
      BY <2>1 DEF ListFiles, ifExists
    <2>2. CASE ScanEnds
      BY <2>2 DEF ScanEnds
    <2>3. CASE ScanData
      BY <2>3 DEF ScanData, Looking
    <2>4. CASE RemoveOrphan
      BY <2>4 DEF RemoveOrphan
    <2>5. CASE ScanMeta
      BY <2>5 DEF ScanMeta, Looking
    <2>6. CASE removeEntryStep
      BY <2>6 DEF removeEntryStep, Remove
    <2>7. ASSUME NEW name \in Names, ScanTemporary(name)
          PROVE  Bodies'
      BY <2>7 DEF ScanTemporary, Looking, Remove
    <2>8. QED
      BY <1>2, <2>1, <2>2, <2>3, <2>4, <2>5, <2>6, <2>7 DEF cleanExpired
  <1>3. CASE Age
    BY <1>3 DEF Age
  <1>4. CASE ExpiresPasses
    BY <1>4 DEF ExpiresPasses
  <1>5. CASE Publish
    BY <1>5 DEF Publish
  <1>6. CASE Crash
    BY <1>6 DEF Crash
  <1>7. CASE UNCHANGED vars
    BY <1>7 DEF vars
  <1>8. QED
    BY <1>1, <1>2, <1>3, <1>4, <1>5, <1>6, <1>7 DEF Next

-----------------------------------------------------------------------------
\* Of a fetch that is not under way there is little to say.
LEMMA DatedQuiet ==
  ASSUME NEW g, pc'[g] \in {"idle", "done"}, DatedFetch(g), origin' = origin,
         ver'[g] = ver[g], asked'[g] = asked[g], hdr'[g] = hdr[g]
  PROVE  DatedFetch(g)'
  BY DEF DatedFetch, Downloading, Saving

\* A step that only removes files and ends fetches makes no entry newer.
LEMMA DatedKept ==
  ASSUME Dated, Numbers, UNCHANGED <<origin, ver, asked>>,
         data' \in {data, None}, meta' \in {meta, None}, tmpMeta' \in {tmpMeta, None},
         \A g \in Fetches : \/ pc'[g] = pc[g] /\ hdr'[g] = hdr[g]
                            \/ pc'[g] = "done" /\ hdr'[g].lastModified = 0
  PROVE  Dated'
  <1>1. ASSUME NEW g \in Fetches
        PROVE  DatedFetch(g)'
    <2>1. DatedFetch(g)
      BY DEF Dated
    <2>2. CASE pc'[g] = pc[g] /\ hdr'[g] = hdr[g]
      BY <2>1, <2>2 DEF DatedFetch
    <2>3. CASE pc'[g] = "done" /\ hdr'[g].lastModified = 0
      BY <2>1, <2>3 DEF DatedFetch, Downloading, Saving, Numbers
    <2>4. QED
      BY <2>2, <2>3
  <1>2. QED
    BY <1>1 DEF Dated

\* After Return the headers are gone.
LEMMA ReturnHeaders ==
  ASSUME TypeOK, NEW f \in Fetches, Return(f)
  PROVE  /\ pc'[f] = "done" /\ hdr'[f].lastModified = 0
         /\ \A g \in Fetches \ {f} : pc'[g] = pc[g] /\ hdr'[g] = hdr[g]
         /\ \A g \in Fetches : \/ pc'[g] = pc[g] /\ hdr'[g] = hdr[g]
                               \/ pc'[g] = "done" /\ hdr'[g].lastModified = 0
         /\ \A g \in Fetches : pc'[g] \in {pc[g], "done"}
  <1>1. /\ pc'[f] = "done" /\ hdr'[f].lastModified = 0
        /\ \A g \in Fetches \ {f} : pc'[g] = pc[g] /\ hdr'[g] = hdr[g]
    BY DEF Return, goto, TypeOK, NoHeaders
  <1>2. ASSUME NEW g \in Fetches
        PROVE  \/ pc'[g] = pc[g] /\ hdr'[g] = hdr[g]
               \/ pc'[g] = "done" /\ hdr'[g].lastModified = 0
    BY <1>1
  <1>3. \A g \in Fetches : pc'[g] \in {pc[g], "done"}
    BY <1>2
  <1>4. QED
    BY <1>1, <1>2, <1>3

-----------------------------------------------------------------------------
\* Whatever mixture of an old and a new entry is on the disk, it does not claim to be
\* newer than it is.
LEMMA DatedStep ==
  ASSUME Parallel = 1, TypeOK, Inodes, OneAtATime, Bodies, Dated, Numbers, Numbers', [Next]_vars
  PROVE  Dated'
  <1> USE DEF TypeOK, Inodes, Bodies, Dated, DatedFetch, Numbers, files, inodes, locals, cleanup,
              goto, Fileless, Before, Saving, Downloading
  <1>1. ASSUME NEW f \in Fetches, Fetch(f)
        PROVE  Dated'
    <2>1. CASE CheckMiss(f)
      BY <2>1 DEF CheckMiss, Start
    <2>2. CASE CheckValid(f)
      BY <2>2 DEF CheckValid, Start, Cached
    <2>3. CASE CheckExpires(f)
      BY <2>3 DEF CheckExpires, Start, NoHeaders
    <2>4. CASE CheckStale(f)
      BY <2>4 DEF CheckStale, Start, Cached
    <2>5. CASE HeadRenews(f)
      BY <2>5 DEF HeadRenews, Answer, notModified, NoHeaders
    <2>6. CASE HeadExpires(f)
      BY <2>6 DEF HeadExpires
    <2>7. CASE OpenCached(f)
      BY <2>7 DEF OpenCached, Return, NoHeaders
    <2>8. CASE GetFails(f)
      BY <2>8 DEF GetFails, Return, NoHeaders
    <2>9. CASE Get(f)
      BY <2>9 DEF Get, Answer, NoHeaders
    <2>10. CASE RemoveTmp(f)
      BY <2>10 DEF RemoveTmp
    <2>11. CASE CreateFile(f)
      BY <2>11 DEF CreateFile
    <2>12. CASE ReadToEnd(f)
      BY <2>12 DEF ReadToEnd
    <2>13. CASE ReadLess(f)
      BY <2>13 DEF ReadLess
    <2>14. CASE Abandon(f)
      BY <2>14 DEF Abandon, Return, NoHeaders
    <2>15. CASE Close(f)
      BY <2>15 DEF Close, Cleanup, isDownloadComplete
    <2>16. CASE RemoveData(f)
      BY <2>16 DEF RemoveData
    <2>17. CASE RenameTmp(f)
      <3>1. /\ data' = f /\ pc' = [pc EXCEPT ![f] = "save"] /\ pc[f] = "rename"
            /\ UNCHANGED <<origin, meta, tmpMeta, ver, asked, hdr>>
        BY <2>17 DEF RenameTmp
      <3>2. \A g \in Fetches \ {f} : DatedFetch(g)'
        BY <1>1, <3>1, FetchAlone, DatedQuiet
      <3>3. DatedFetch(f)'
        BY <3>1
      <3>4. QED
        BY <3>1, <3>2, <3>3
    <2>18. CASE RenameFails(f)
      BY <2>18 DEF RenameFails, Cleanup
    <2>19. CASE WriteMeta(f)
      <3>1. /\ tmpMeta' = [headers |-> hdr[f], age |-> "fresh"]
            /\ pc' = [pc EXCEPT ![f] = "unlinkMeta"] /\ pc[f] = "save"
            /\ UNCHANGED <<origin, data, meta, ver, asked, hdr>>
        BY <2>19 DEF WriteMeta
      <3>2. \A g \in Fetches \ {f} : DatedFetch(g)'
        BY <1>1, <3>1, FetchAlone, DatedQuiet
      <3>3. DatedFetch(f)'
        BY <3>1
      <3>4. QED
        BY <3>1, <3>2, <3>3
    <2>20. CASE RemoveMeta(f)
      BY <2>20 DEF RemoveMeta
    <2>21. CASE RenameMeta(f)
      <3>1. /\ pc[f] = "renameMeta" /\ meta' = [headers |-> hdr[f], age |-> "fresh"]
            /\ tmpMeta' = None /\ UNCHANGED <<origin, data, ver, asked>>
        BY <2>21, RenameMetaType
      <3>2. meta'.headers = hdr[f]
        BY <3>1
      <3>3. /\ pc'[f] \in {"done", "open"}
            /\ hdr'[f] = hdr[f] \/ hdr'[f].lastModified = 0
            /\ \A g \in Fetches \ {f} : hdr'[g] = hdr[g]
        BY <2>21, RenameMetaType, ReturnHeaders
      <3>4. ASSUME NEW g \in Fetches \ {f}
            PROVE  DatedFetch(g)'
        <4>1. pc'[g] \in {"idle", "done"}
          BY <1>1, FetchAlone
        <4>2. QED
          BY <3>1, <3>3, <4>1, DatedQuiet
      <3>5. DatedFetch(f)'
        BY <3>1, <3>3
      <3>6. QED
        BY <3>1, <3>2, <3>4, <3>5
    <2>22. CASE SaveFails(f)
      BY <2>22 DEF SaveFails, Cleanup
    <2>23. CASE CleanupStep(f)
      <3>1. unlinks[f] # <<>>
        BY <2>23 DEF CleanupStep
      <3>2. /\ data' \in {data, None} /\ meta' \in {meta, None} /\ tmpMeta' \in {tmpMeta, None}
            /\ UNCHANGED <<origin, ver, asked>>
        BY <2>23, <3>1, CleanupStepType
      <3>3. Return(f) \/ UNCHANGED <<pc, hdr>>
        BY <2>23, <3>1, CleanupStepType
      <3>4. CASE Return(f)
        <4>1. \A g \in Fetches : \/ pc'[g] = pc[g] /\ hdr'[g] = hdr[g]
                                 \/ pc'[g] = "done" /\ hdr'[g].lastModified = 0
          BY <3>4, ReturnHeaders
        <4>2. QED
          BY <3>2, <4>1, DatedKept
      <3>5. CASE UNCHANGED <<pc, hdr>>
        BY <3>2, <3>5, DatedKept
      <3>6. QED
        BY <3>3, <3>4, <3>5
    <2>24. QED
      BY <1>1, <2>1, <2>2, <2>3, <2>4, <2>5, <2>6, <2>7, <2>8, <2>9, <2>10, <2>11,
         <2>12, <2>13, <2>14, <2>15, <2>16, <2>17, <2>18, <2>19, <2>20, <2>21, <2>22,
         <2>23
      DEF Fetch
  <1>2. ASSUME cleanExpired
        PROVE  Dated'
    <2>1. CASE ListFiles
      BY <2>1 DEF ListFiles, ifExists
    <2>2. CASE ScanEnds
      BY <2>2 DEF ScanEnds
    <2>3. CASE ScanData
      BY <2>3 DEF ScanData, Looking
    <2>4. CASE RemoveOrphan
      BY <2>4 DEF RemoveOrphan
    <2>5. CASE ScanMeta
      BY <2>5 DEF ScanMeta, Looking
    <2>6. CASE removeEntryStep
      BY <2>6 DEF removeEntryStep, Remove
    <2>7. ASSUME NEW name \in Names, ScanTemporary(name)
          PROVE  Dated'
      BY <2>7 DEF ScanTemporary, Looking, Remove
    <2>8. QED
      BY <1>2, <2>1, <2>2, <2>3, <2>4, <2>5, <2>6, <2>7 DEF cleanExpired
  <1>3. CASE Age
    BY <1>3 DEF Age
  <1>4. CASE ExpiresPasses
    <2>1. /\ meta # None /\ meta \in Metadata
          /\ meta' = [meta EXCEPT !.headers = [@ EXCEPT !.expires = FALSE]]
      BY <1>4 DEF ExpiresPasses
    <2>2. meta'.headers.lastModified = meta.headers.lastModified
      BY <2>1 DEF Metadata, Headers
    <2>3. UNCHANGED <<origin, data, tmpMeta, ver, pc, hdr, asked>>
      BY <1>4 DEF ExpiresPasses
    <2>4. QED
      BY <2>1, <2>2, <2>3
  <1>5. CASE Publish
    BY <1>5 DEF Publish
  <1>6. CASE Crash
    BY <1>6 DEF Crash, NoHeaders
  <1>7. CASE UNCHANGED vars
    BY <1>7 DEF vars
  <1>8. QED
    BY <1>1, <1>2, <1>3, <1>4, <1>5, <1>6, <1>7 DEF Next

\* A step that only removes files and ends fetches leaves what is confirmed.
LEMMA ConfirmedKept ==
  ASSUME Confirmed, UNCHANGED <<ver, asked, got, fd>>, data' \in {data, None},
         \A g \in Fetches : pc'[g] \in {pc[g], "done"}
  PROVE  Confirmed'
  BY DEF Confirmed, Saving, Downloading

\* What the origin has confirmed stays confirmed until it is read.
LEMMA ConfirmedStep ==
  ASSUME Parallel = 1, TypeOK, Inodes, OneAtATime, Bodies, Dated, Confirmed, Numbers, Numbers',
         [Next]_vars
  PROVE  Confirmed'
  <1> USE DEF TypeOK, Inodes, Bodies, Dated, DatedFetch, Confirmed, Numbers, files, inodes, locals,
              cleanup, goto, Fileless, Before, Saving, Downloading
  <1>1. ASSUME NEW f \in Fetches, Fetch(f)
        PROVE  Confirmed'
    <2>1. CASE CheckMiss(f)
      BY <2>1 DEF CheckMiss, Start
    <2>2. CASE CheckValid(f)
      BY <2>2 DEF CheckValid, Start, Cached
    <2>3. CASE CheckExpires(f)
      BY <2>3 DEF CheckExpires, Start, Cached
    <2>4. CASE CheckStale(f)
      BY <2>4 DEF CheckStale, Start, Cached
    <2>5. CASE HeadRenews(f)
      BY <2>5 DEF HeadRenews, Answer, notModified
    <2>6. CASE HeadExpires(f)
      BY <2>6 DEF HeadExpires
    <2>7. CASE OpenCached(f)
      BY <2>7 DEF OpenCached, Return
    <2>8. CASE GetFails(f)
      BY <2>8 DEF GetFails, Return
    <2>9. CASE Get(f)
      BY <2>9 DEF Get, Answer
    <2>10. CASE RemoveTmp(f)
      BY <2>10 DEF RemoveTmp
    <2>11. CASE CreateFile(f)
      BY <2>11 DEF CreateFile
    <2>12. CASE ReadToEnd(f)
      BY <2>12 DEF ReadToEnd
    <2>13. CASE ReadLess(f)
      BY <2>13 DEF ReadLess
    <2>14. CASE Abandon(f)
      BY <2>14 DEF Abandon, Return
    <2>15. CASE Close(f)
      BY <2>15 DEF Close, Cleanup, isDownloadComplete
    <2>16. CASE RemoveData(f)
      BY <2>16 DEF RemoveData
    <2>17. CASE RenameTmp(f)
      <3>1. /\ data' = f /\ pc' = [pc EXCEPT ![f] = "save"] /\ pc[f] = "rename"
            /\ UNCHANGED <<ver, asked, got, fd>>
        BY <2>17 DEF RenameTmp
      <3>2. \A g \in Fetches \ {f} : pc[g] \in {"idle", "done"} /\ pc'[g] = pc[g]
        BY <1>1, <3>1, FetchAlone
      <3>3. asked[f] <= ver[f]
        BY <3>1
      <3>4. QED
        BY <3>1, <3>2, <3>3
    <2>18. CASE RenameFails(f)
      BY <2>18 DEF RenameFails, Cleanup
    <2>19. CASE WriteMeta(f)
      BY <2>19 DEF WriteMeta
    <2>20. CASE RemoveMeta(f)
      BY <2>20 DEF RemoveMeta
    <2>21. CASE RenameMeta(f)
      BY <2>21 DEF RenameMeta, Return
    <2>22. CASE SaveFails(f)
      BY <2>22 DEF SaveFails, Cleanup
    <2>23. CASE CleanupStep(f)
      <3>1. unlinks[f] # <<>>
        BY <2>23 DEF CleanupStep
      <3>2. data' \in {data, None} /\ UNCHANGED <<ver, asked, got, fd>>
        BY <2>23, <3>1, CleanupStepType
      <3>3. CASE Return(f)
        <4>1. \A g \in Fetches : pc'[g] \in {pc[g], "done"}
          BY <3>3, ReturnHeaders
        <4>2. QED
          BY <3>2, <4>1, ConfirmedKept
      <3>4. CASE ~Return(f)
        <4>1. pc' = pc
          BY <2>23, <3>1, <3>4, CleanupStepType
        <4>2. QED
          BY <3>2, <4>1, ConfirmedKept
      <3>5. QED
        BY <3>3, <3>4
    <2>24. QED
      BY <1>1, <2>1, <2>2, <2>3, <2>4, <2>5, <2>6, <2>7, <2>8, <2>9, <2>10, <2>11,
         <2>12, <2>13, <2>14, <2>15, <2>16, <2>17, <2>18, <2>19, <2>20, <2>21, <2>22,
         <2>23
      DEF Fetch
  <1>2. ASSUME cleanExpired
        PROVE  Confirmed'
    <2>1. CASE ListFiles
      BY <2>1 DEF ListFiles, ifExists
    <2>2. CASE ScanEnds
      BY <2>2 DEF ScanEnds
    <2>3. CASE ScanData
      BY <2>3 DEF ScanData, Looking
    <2>4. CASE RemoveOrphan
      BY <2>4 DEF RemoveOrphan
    <2>5. CASE ScanMeta
      BY <2>5 DEF ScanMeta, Looking
    <2>6. CASE removeEntryStep
      BY <2>6 DEF removeEntryStep, Remove
    <2>7. ASSUME NEW name \in Names, ScanTemporary(name)
          PROVE  Confirmed'
      BY <2>7 DEF ScanTemporary, Looking, Remove
    <2>8. QED
      BY <1>2, <2>1, <2>2, <2>3, <2>4, <2>5, <2>6, <2>7 DEF cleanExpired
  <1>3. CASE Age
    BY <1>3 DEF Age
  <1>4. CASE ExpiresPasses
    BY <1>4 DEF ExpiresPasses
  <1>5. CASE Publish
    BY <1>5 DEF Publish
  <1>6. CASE Crash
    BY <1>6 DEF Crash
  <1>7. CASE UNCHANGED vars
    BY <1>7 DEF vars
  <1>8. QED
    BY <1>1, <1>2, <1>3, <1>4, <1>5, <1>6, <1>7 DEF Next

-----------------------------------------------------------------------------
\* What the cache serves is a whole body.
LEMMA WholeStep ==
  ASSUME TypeOK, Inodes, Bodies, CachedIsWhole, [Next]_vars
  PROVE  CachedIsWhole'
  <1> USE DEF TypeOK, Bodies, CachedIsWhole, inodes, locals, cleanup
  <1>1. ASSUME NEW f \in Fetches, Fetch(f)
        PROVE  CachedIsWhole'
    <2>1. CASE OpenCached(f)
      BY <2>1 DEF OpenCached
    <2>2. CASE GetFails(f) \/ ReadToEnd(f)
      BY <2>2 DEF GetFails, ReadToEnd
    <2>3. CASE ~(OpenCached(f) \/ GetFails(f) \/ ReadToEnd(f))
      BY <1>1, <2>3 DEF Fetch, CheckMiss, CheckValid, CheckExpires, CheckStale, HeadRenews,
         HeadExpires, Get, RemoveTmp, CreateFile, ReadLess, Abandon, Close, RemoveData,
         RenameTmp, RenameFails, WriteMeta, RemoveMeta, RenameMeta, SaveFails, CleanupStep
    <2>4. QED
      BY <2>1, <2>2, <2>3
  <1>2. CASE cleanExpired
    BY <1>2 DEF cleanExpired, ListFiles, ScanEnds, ScanData, RemoveOrphan, ScanMeta,
       removeEntryStep, ScanTemporary
  <1>3. CASE Age \/ ExpiresPasses \/ Publish \/ Crash
    BY <1>3 DEF Age, ExpiresPasses, Publish, Crash
  <1>4. CASE UNCHANGED vars
    BY <1>4 DEF vars
  <1>5. QED
    BY <1>1, <1>2, <1>3, <1>4 DEF Next

-----------------------------------------------------------------------------
\* An empty cache.
LEMMA CacheInit ==
  ASSUME Init
  PROVE  CacheInv /\ SerialInv
  <1>1. TypeOK
    <2>1. <<>> \in Seq(Names)
      OBVIOUS
    <2>2. unlinks \in [Fetches \cup {Cleaner} -> Seq(Names)] /\ listed \in Seq(Names)
      BY <2>1 DEF Init
    <2>3. hdr \in [Fetches -> Headers] /\ 0 \in Versions
      BY HeadersType DEF Init
    <2>4. origin \in 1 .. MaxVersion /\ crashes \in 0 .. MaxCrashes
      BY DEF Init
    <2>5. ver \in [Fetches -> Versions] /\ asked \in [Fetches -> Versions]
      BY <2>3 DEF Init
    <2>6. QED
      BY <2>2, <2>3, <2>4, <2>5 DEF Init, TypeOK
  <1>2. Inodes
    BY DEF Init, Inodes, Saving, Fileless
  <1>3. OneAtATime
    BY DEF Init, OneAtATime, InFlight
  <1>4. Bodies /\ Confirmed /\ CachedIsWhole
    BY DEF Init, Bodies, Confirmed, CachedIsWhole, Saving, Downloading
  <1>5. Dated
    BY DEF Init, Dated, DatedFetch, Saving, Downloading, NoHeaders
  <1>6. QED
    BY <1>1, <1>2, <1>3, <1>4, <1>5 DEF CacheInv, SerialInv

\* For any number of fetches in parallel: types, inodes and their bodies.
THEOREM CacheInvariance == Spec => []CacheInv
  <1>1. Init => CacheInv
    BY CacheInit
  <1>2. CacheInv /\ [Next]_vars => CacheInv'
    BY TypeStep, InodesStep DEF CacheInv
  <1>3. QED
    BY <1>1, <1>2, PTL DEF Spec

\* Every variable keeps its type, and no file ever has two names.
THEOREM CacheTypeCorrect == Spec => []TypeOK
  <1>1. CacheInv => TypeOK
    BY DEF CacheInv
  <1>2. QED
    BY <1>1, CacheInvariance, PTL

\* For fetches one at a time, with the cleaner and crashes at any moment.
THEOREM SerialInvariance ==
  ASSUME Parallel = 1
  PROVE  Spec => []SerialInv
  <1>1. Init => SerialInv
    BY CacheInit
  <1>2. CacheInv => Numbers
    BY TypeNumbers DEF CacheInv
  <1>3. CacheInv /\ Numbers /\ Numbers' /\ SerialInv /\ [Next]_vars => SerialInv'
    BY OneStep, BodiesStep, DatedStep, ConfirmedStep, WholeStep DEF CacheInv, SerialInv
  <1>4. QED
    BY <1>1, <1>2, <1>3, CacheInvariance, PTL DEF Spec

\* Fetches one at a time are served whole bodies only.
THEOREM SerialWhole ==
  ASSUME Parallel = 1
  PROVE  Spec => []CachedIsWhole
  <1>1. SerialInv => CachedIsWhole
    BY DEF SerialInv
  <1>2. QED
    BY <1>1, SerialInvariance, PTL

\* And after a renewal at least the version that the origin confirmed.
THEOREM SerialRenewed ==
  ASSUME Parallel = 1
  PROVE  Spec => []RenewedIsCurrent
  <1>1. CacheInv /\ SerialInv => RenewedIsCurrent
    <2>1. CacheInv => Numbers
      BY TypeNumbers DEF CacheInv
    <2>2. QED
      BY <2>1 DEF SerialInv, Confirmed, RenewedIsCurrent, Numbers
  <1>2. QED
    BY <1>1, CacheInvariance, SerialInvariance, PTL
=============================================================================
