------------------------------- MODULE HttpCache -------------------------------
(***************************************************************************)
(* The disk cache of the HTTP client (src/internal/httpclient): one entry, *)
(* that is, one URL with one set of options, which always has the same     *)
(* four file names.  Each element of Fetches is one RoundTrip together     *)
(* with the reading and closing of its body; the cleaner goroutine and     *)
(* crashes of the server run beside them.                                  *)
(*                                                                         *)
(* A file name refers to an inode, as in POSIX: the inode of a downloaded  *)
(* body is named after the fetch that created it, and stays readable and   *)
(* writable to those who opened it whatever becomes of its name.  Metadata *)
(* is written at once, so its inode is its contents.                       *)
(***************************************************************************)
EXTENDS Integers, Sequences, FiniteSets

CONSTANTS
    Fetches,
    None,             \* no file, no inode
    Parallel,         \* bound: fetches of the entry under way at a time
    MaxVersion,       \* bound: versions of the resource on the origin server
    MaxCrashes        \* bound: crashes of this server

ASSUME FetchesAssumption ==
    IsFiniteSet(Fetches) /\ None \notin Fetches /\ "cleaner" \notin Fetches
ASSUME BoundsAssumption ==
    Parallel \in Nat \ {0} /\ MaxVersion \in Nat \ {0} /\ MaxCrashes \in Nat

VARIABLES
    origin,    \* the version of the resource on the origin server
    data,      \* FilePath: an inode, or None
    tmp,       \* TmpFilePath: an inode, or None
    meta,      \* MetaPath: metadata, or None
    tmpMeta,   \* TmpMetaPath: metadata, or None
    body,      \* what an inode holds
    ver,       \* the version a fetch downloads, and its inode holds
    pc,        \* where a fetch is
    fd,        \* the inode a fetch has open
    hdr,       \* the headers of its originResponse, or of the entry it checks
    saving,    \* why it saves metadata
    asked,     \* the version the origin confirmed to it by a HEAD; 0: none
    got,       \* what its consumer reads
    unlinks,   \* the names a fetch or the cleaner has yet to remove
    cleaner,   \* where cleanExpired is
    listed,    \* the names of its ReadDir it has yet to look at
    crashes

files   == <<data, tmp, meta, tmpMeta>>
inodes  == <<body, ver>>
locals  == <<fd, hdr, saving, asked, got>>
cleanup == <<unlinks, cleaner, listed>>
vars == <<origin, files, inodes, pc, locals, cleanup, crashes>>

-----------------------------------------------------------------------------
Cleaner  == "cleaner"
Names    == {"data", "tmp", "meta", "tmpMeta"}
Versions == 0 .. MaxVersion  \* 0: the header is not there
Headers  == [lastModified : Versions, expires : BOOLEAN]
Metadata == [headers : Headers, age : {"fresh", "stale", "expired"}]
NoHeaders == [lastModified |-> 0, expires |-> FALSE]

InFlight == {f \in Fetches : pc[f] \notin {"idle", "done"}}

TypeOK ==
    /\ origin \in 1 .. MaxVersion
    /\ {data, tmp} \subseteq Fetches \cup {None}
    /\ data # None => data # tmp      \* no file has two names
    /\ {meta, tmpMeta} \subseteq Metadata \cup {None}
    /\ body \in [Fetches -> {"none", "partial", "whole", "torn"}]
    /\ ver \in [Fetches -> Versions]
    /\ pc \in [Fetches -> {"idle", "open", "head", "get", "create", "createFile",
                           "reading", "eof", "cut", "replace", "rename",
                           "save", "unlinkMeta", "renameMeta", "cleanup", "done"}]
    /\ fd \in [Fetches -> Fetches \cup {None}]
    /\ hdr \in [Fetches -> Headers]
    /\ saving \in [Fetches -> {"no", "expires", "renewed", "download"}]
    /\ asked \in [Fetches -> Versions]
    /\ got \in [Fetches -> {"nothing", "error", "whole", "short"}]
    /\ unlinks \in [Fetches \cup {Cleaner} -> Seq(Names)]
    /\ cleaner \in {"idle", "scan", "orphan", "removeEntry"}
    /\ listed \in Seq(Names)
    /\ crashes \in 0 .. MaxCrashes

Init ==
    /\ origin = 1
    /\ data = None /\ tmp = None /\ meta = None /\ tmpMeta = None
    /\ body = [f \in Fetches |-> "none"]
    /\ ver = [f \in Fetches |-> 0]
    /\ pc = [f \in Fetches |-> "idle"]
    /\ fd = [f \in Fetches |-> None]
    /\ hdr = [f \in Fetches |-> NoHeaders]
    /\ saving = [f \in Fetches |-> "no"]
    /\ asked = [f \in Fetches |-> 0]
    /\ got = [f \in Fetches |-> "nothing"]
    /\ unlinks = [a \in Fetches \cup {Cleaner} |-> <<>>]
    /\ cleaner = "idle" /\ listed = <<>>
    /\ crashes = 0

goto(f, place) == pc' = [pc EXCEPT ![f] = place]

\* A fetch is over: of its locals only what it read is remembered.
Return(f) ==
    /\ goto(f, "done")
    /\ hdr' = [hdr EXCEPT ![f] = NoHeaders]
    /\ saving' = [saving EXCEPT ![f] = "no"]

-----------------------------------------------------------------------------
(* newReader: checkCacheStatus, then a cached or a caching reader. *)

\* Fetches are named in the order in which they start.
NextFetch == CHOOSE f \in Fetches : pc[f] = "idle"

Start(f) == pc[f] = "idle" /\ f = NextFetch /\ Cardinality(InFlight) < Parallel
Cached   == meta # None /\ data # None

\* statusNotFound.
CheckMiss(f) ==
    /\ Start(f)
    /\ ~Cached
    /\ goto(f, "get")
    /\ UNCHANGED <<origin, files, inodes, locals, cleanup, crashes>>

\* statusValid: younger than the ttl.
CheckValid(f) ==
    /\ Start(f)
    /\ Cached
    /\ meta.age = "fresh"
    /\ goto(f, "open")
    /\ UNCHANGED <<origin, files, inodes, locals, cleanup, crashes>>

\* Expires is not over: the metadata is saved anew, with originResponse nil
\* and so without headers, and its error ignored.
CheckExpires(f) ==
    /\ Start(f)
    /\ Cached
    /\ meta.age # "fresh"
    /\ meta.headers.expires
    /\ goto(f, "save")
    /\ hdr' = [hdr EXCEPT ![f] = NoHeaders]
    /\ saving' = [saving EXCEPT ![f] = "expires"]
    /\ UNCHANGED <<origin, files, inodes, fd, asked, got, cleanup, crashes>>

\* tryRenewal, isModifiedSince: without a validator there is nothing to ask.
\* An ETag is stored as "ETag" and looked up as "Etag", so it never is one.
CheckStale(f) ==
    /\ Start(f)
    /\ Cached
    /\ meta.age # "fresh"
    /\ ~meta.headers.expires
    /\ goto(f, IF meta.headers.lastModified = 0 THEN "get" ELSE "head")
    /\ hdr' = [hdr EXCEPT ![f] = meta.headers]
    /\ UNCHANGED <<origin, files, inodes, fd, saving, asked, got, cleanup, crashes>>

\* Mutant: a 200 answer to the HEAD is taken for 304.
NotModifiedAnyway(f) == TRUE

\* 304, or 200 with a Last-Modified that is not after the entry's.
notModified(f) == origin <= hdr[f].lastModified

\* The headers of an answer; a server may send none, with a 304 above all.
Answer == [lastModified : {origin}, expires : BOOLEAN] \cup {NoHeaders}

HeadRenews(f) ==
    /\ pc[f] = "head"
    /\ notModified(f)
    /\ goto(f, "save")
    /\ \E h \in Answer : hdr' = [hdr EXCEPT ![f] = h]
    /\ saving' = [saving EXCEPT ![f] = "renewed"]
    /\ asked' = [asked EXCEPT ![f] = origin]
    /\ UNCHANGED <<origin, files, inodes, fd, got, cleanup, crashes>>

\* Modified, or the HEAD failed.
HeadExpires(f) ==
    /\ pc[f] = "head"
    /\ goto(f, "get")
    /\ UNCHANGED <<origin, files, inodes, locals, cleanup, crashes>>

\* newCachedReader; the file may be gone since it was looked at.
OpenCached(f) ==
    /\ pc[f] = "open"
    /\ Return(f)
    /\ fd' = [fd EXCEPT ![f] = data]
    /\ got' = [got EXCEPT ![f] = IF data = None THEN "error"
                                 ELSE IF body[data] = "whole" THEN "whole" ELSE "short"]
    /\ UNCHANGED <<origin, files, inodes, asked, cleanup, crashes>>

\* newCachingReader: no answer, or not 200.
GetFails(f) ==
    /\ pc[f] = "get"
    /\ Return(f)
    /\ got' = [got EXCEPT ![f] = "error"]
    /\ UNCHANGED <<origin, files, inodes, fd, asked, cleanup, crashes>>

Get(f) ==
    /\ pc[f] = "get"
    /\ goto(f, "create")
    /\ \E h \in Answer : hdr' = [hdr EXCEPT ![f] = h]
    /\ ver' = [ver EXCEPT ![f] = origin]
    /\ UNCHANGED <<origin, files, body, fd, saving, asked, got, cleanup, crashes>>

\* createCacheFile: whatever is under the temporary name is removed ...
RemoveTmp(f) ==
    /\ pc[f] = "create"
    /\ goto(f, "createFile")
    /\ tmp' = None
    /\ UNCHANGED <<origin, data, meta, tmpMeta, inodes, locals, cleanup, crashes>>

\* ... and os.Create makes a file, or truncates the one made in between.
CreateFile(f) ==
    /\ pc[f] = "createFile"
    /\ goto(f, "reading")
    /\ IF tmp = None
       THEN /\ tmp' = f
            /\ fd' = [fd EXCEPT ![f] = f]
            /\ body' = [body EXCEPT ![f] = "partial"]
       ELSE /\ fd' = [fd EXCEPT ![f] = tmp]
            /\ body' = [body EXCEPT ![tmp] = "torn"]
            /\ UNCHANGED tmp
    /\ UNCHANGED <<origin, data, meta, tmpMeta, ver, hdr, saving, asked, got, cleanup, crashes>>

-----------------------------------------------------------------------------
(* Reading the body, and Reader.Close. *)

\* The consumer has read to io.EOF, all of it copied to the file.
ReadToEnd(f) ==
    /\ pc[f] = "reading"
    /\ goto(f, "eof")
    /\ body' = [body EXCEPT ![fd[f]] = IF @ = "partial" THEN "whole" ELSE @]
    /\ got' = [got EXCEPT ![f] = "whole"]
    /\ UNCHANGED <<origin, files, ver, fd, hdr, saving, asked, cleanup, crashes>>

\* The body breaks off, or the consumer does not read on.
ReadLess(f) ==
    /\ pc[f] = "reading"
    /\ goto(f, "cut")
    /\ UNCHANGED <<origin, files, inodes, locals, cleanup, crashes>>

\* A gzip body that is none, or a closer that fails: nothing is tidied.
Abandon(f) ==
    /\ pc[f] \in {"reading", "eof", "cut"}
    /\ Return(f)
    /\ UNCHANGED <<origin, files, inodes, fd, asked, got, cleanup, crashes>>

\* Mutant: every download counts as complete.
isDownloadCompleteAlways(f) == TRUE

isDownloadComplete(f) == pc[f] = "eof"

CleanupNames == <<"data", "tmp", "meta", "tmpMeta">>
Cleanup(f) ==
    /\ goto(f, "cleanup")
    /\ unlinks' = [unlinks EXCEPT ![f] = CleanupNames]

\* All files are closed.
Close(f) ==
    /\ pc[f] \in {"eof", "cut"}
    /\ IF isDownloadComplete(f)
       THEN goto(f, "replace") /\ UNCHANGED unlinks
       ELSE Cleanup(f)
    /\ UNCHANGED <<origin, files, inodes, locals, cleaner, listed, crashes>>

RemoveData(f) ==
    /\ pc[f] = "replace"
    /\ goto(f, "rename")
    /\ data' = None
    /\ UNCHANGED <<origin, tmp, meta, tmpMeta, inodes, locals, cleanup, crashes>>

\* Mutant: the file is linked to its new name, the old one staying.
RenameLinks(f) ==
    /\ pc[f] = "rename"
    /\ tmp # None
    /\ data' = tmp
    /\ goto(f, "save")
    /\ saving' = [saving EXCEPT ![f] = "download"]
    /\ UNCHANGED <<origin, tmp, meta, tmpMeta, inodes, fd, hdr, asked, got, cleanup, crashes>>

\* os.Rename of whatever has the temporary name now.
RenameTmp(f) ==
    /\ pc[f] = "rename"
    /\ tmp # None
    /\ data' = tmp
    /\ tmp' = None
    /\ goto(f, "save")
    /\ saving' = [saving EXCEPT ![f] = "download"]
    /\ UNCHANGED <<origin, meta, tmpMeta, inodes, fd, hdr, asked, got, cleanup, crashes>>

RenameFails(f) ==
    /\ pc[f] = "rename"
    /\ tmp = None
    /\ Cleanup(f)
    /\ UNCHANGED <<origin, files, inodes, locals, cleaner, listed, crashes>>

-----------------------------------------------------------------------------
(* SaveMetadata: write the temporary file, remove the old one, rename. *)

WriteMeta(f) ==
    /\ pc[f] = "save"
    /\ goto(f, "unlinkMeta")
    /\ tmpMeta' = [headers |-> hdr[f], age |-> "fresh"]
    /\ UNCHANGED <<origin, data, tmp, meta, inodes, locals, cleanup, crashes>>

RemoveMeta(f) ==
    /\ pc[f] = "unlinkMeta"
    /\ goto(f, "renameMeta")
    /\ meta' = None
    /\ UNCHANGED <<origin, data, tmp, tmpMeta, inodes, locals, cleanup, crashes>>

RenameMeta(f) ==
    /\ pc[f] = "renameMeta"
    /\ tmpMeta # None
    /\ meta' = tmpMeta
    /\ tmpMeta' = None
    /\ \/ saving[f] = "download" /\ Return(f)
       \/ saving[f] # "download" /\ goto(f, "open") /\ UNCHANGED <<hdr, saving>>
    /\ UNCHANGED <<origin, data, tmp, inodes, fd, asked, got, cleanup, crashes>>

\* The temporary file is gone.  A download is cleaned up, a renewal becomes
\* statusExpired, and after CheckExpires the error is ignored.
SaveFails(f) ==
    /\ pc[f] = "renameMeta"
    /\ tmpMeta = None
    /\ \/ saving[f] = "download" /\ Cleanup(f)
       \/ saving[f] = "renewed" /\ goto(f, "get") /\ UNCHANGED unlinks
       \/ saving[f] = "expires" /\ goto(f, "open") /\ UNCHANGED unlinks
    /\ UNCHANGED <<origin, files, inodes, locals, cleaner, listed, crashes>>

\* Cleanup and removeEntry, one os.Remove at a time.
Remove(name) ==
    /\ data' = IF name = "data" THEN None ELSE data
    /\ tmp' = IF name = "tmp" THEN None ELSE tmp
    /\ meta' = IF name = "meta" THEN None ELSE meta
    /\ tmpMeta' = IF name = "tmpMeta" THEN None ELSE tmpMeta

CleanupStep(f) ==
    /\ pc[f] = "cleanup"
    /\ Remove(Head(unlinks[f]))
    /\ unlinks' = [unlinks EXCEPT ![f] = Tail(@)]
    /\ \/ Len(unlinks[f]) = 1 /\ Return(f)
       \/ Len(unlinks[f]) > 1 /\ UNCHANGED <<pc, hdr, saving>>
    /\ UNCHANGED <<origin, inodes, fd, asked, got, cleaner, listed, crashes>>

-----------------------------------------------------------------------------
(* Store.cleanExpired, once a day.  ReadDir sorts by name. *)

Exists(name) == CASE name = "data" -> data # None [] name = "tmp" -> tmp # None
                  [] name = "meta" -> meta # None [] name = "tmpMeta" -> tmpMeta # None

ifExists(name) == IF Exists(name) THEN <<name>> ELSE <<>>

ListFiles ==
    /\ cleaner = "idle"
    /\ cleaner' = "scan"
    /\ listed' = ifExists("data") \o ifExists("tmp") \o ifExists("meta") \o ifExists("tmpMeta")
    /\ UNCHANGED <<origin, files, inodes, pc, locals, unlinks, crashes>>

Looking(name) == cleaner = "scan" /\ listed # <<>> /\ Head(listed) = name

ScanEnds ==
    /\ cleaner = "scan"
    /\ listed = <<>>
    /\ cleaner' = "idle"
    /\ UNCHANGED <<origin, files, inodes, pc, locals, unlinks, listed, crashes>>

\* A body is kept if it has metadata.
ScanData ==
    /\ Looking("data")
    /\ cleaner' = IF meta = None THEN "orphan" ELSE "scan"
    /\ listed' = Tail(listed)
    /\ UNCHANGED <<origin, files, inodes, pc, locals, unlinks, crashes>>

\* If it is gone by now, the error ends the pass.
RemoveOrphan ==
    /\ cleaner = "orphan"
    /\ cleaner' = IF data = None THEN "idle" ELSE "scan"
    /\ listed' = IF data = None THEN <<>> ELSE listed
    /\ data' = None
    /\ UNCHANGED <<origin, tmp, meta, tmpMeta, inodes, pc, locals, unlinks, crashes>>

\* Metadata older than the retention goes with its body; what is unreadable, since it
\* is gone by now, alone, and with it metadata written in between.
ScanMeta ==
    /\ Looking("meta")
    /\ listed' = Tail(listed)
    /\ IF meta # None /\ meta.age # "expired" THEN UNCHANGED <<cleaner, unlinks>>
       ELSE /\ cleaner' = "removeEntry"
            /\ unlinks' = [unlinks EXCEPT ![Cleaner] =
                              IF meta = None THEN <<"meta">> ELSE <<"data", "meta">>]
    /\ UNCHANGED <<origin, files, inodes, pc, locals, crashes>>

removeEntryStep ==
    /\ cleaner = "removeEntry"
    /\ Remove(Head(unlinks[Cleaner]))
    /\ unlinks' = [unlinks EXCEPT ![Cleaner] = Tail(@)]
    /\ cleaner' = IF Len(unlinks[Cleaner]) = 1 THEN "scan" ELSE "removeEntry"
    /\ UNCHANGED <<origin, inodes, pc, locals, listed, crashes>>

\* Mutant: temporary files are passed over.
SkipTemporary(name) ==
    /\ name \in {"tmp", "tmpMeta"}
    /\ Looking(name)
    /\ listed' = Tail(listed)
    /\ UNCHANGED <<origin, files, inodes, pc, locals, unlinks, cleaner, crashes>>

\* Any other name is not expected, not even that of a download under way.
ScanTemporary(name) ==
    /\ name \in {"tmp", "tmpMeta"}
    /\ Looking(name)
    /\ Remove(name)
    /\ listed' = Tail(listed)
    /\ UNCHANGED <<origin, inodes, pc, locals, unlinks, cleaner, crashes>>

-----------------------------------------------------------------------------
(* Time, the origin server and crashes. *)

\* The ttl, and later the retention, of the entry passes.
Age ==
    /\ meta # None
    /\ meta.age # "expired"
    /\ meta' = [meta EXCEPT !.age = IF @ = "fresh" THEN "stale" ELSE "expired"]
    /\ UNCHANGED <<origin, data, tmp, tmpMeta, inodes, pc, locals, cleanup, crashes>>

ExpiresPasses ==
    /\ meta # None
    /\ meta.headers.expires
    /\ meta' = [meta EXCEPT !.headers.expires = FALSE]
    /\ UNCHANGED <<origin, data, tmp, tmpMeta, inodes, pc, locals, cleanup, crashes>>

Publish ==
    /\ origin < MaxVersion
    /\ origin' = origin + 1
    /\ UNCHANGED <<files, inodes, pc, locals, cleanup, crashes>>

\* The server is killed and started again: only the files stay.
Crash ==
    /\ crashes < MaxCrashes
    /\ crashes' = crashes + 1
    /\ pc' = [f \in Fetches |-> IF pc[f] = "idle" THEN "idle" ELSE "done"]
    /\ hdr' = [f \in Fetches |-> NoHeaders]
    /\ saving' = [f \in Fetches |-> "no"]
    /\ unlinks' = [a \in Fetches \cup {Cleaner} |-> <<>>]
    /\ cleaner' = "idle"
    /\ listed' = <<>>
    /\ UNCHANGED <<origin, files, inodes, fd, asked, got>>

-----------------------------------------------------------------------------
Fetch(f) ==
    \/ CheckMiss(f) \/ CheckValid(f) \/ CheckExpires(f) \/ CheckStale(f)
    \/ HeadRenews(f) \/ HeadExpires(f) \/ OpenCached(f) \/ GetFails(f) \/ Get(f)
    \/ RemoveTmp(f) \/ CreateFile(f) \/ ReadToEnd(f) \/ ReadLess(f) \/ Abandon(f)
    \/ Close(f) \/ RemoveData(f) \/ RenameTmp(f) \/ RenameFails(f)
    \/ WriteMeta(f) \/ RemoveMeta(f) \/ RenameMeta(f) \/ SaveFails(f) \/ CleanupStep(f)

cleanExpired ==
    \/ ListFiles \/ ScanEnds \/ ScanData \/ RemoveOrphan \/ ScanMeta \/ removeEntryStep
    \/ \E name \in Names : ScanTemporary(name)

Next ==
    \/ \E f \in Fetches : Fetch(f)
    \/ cleanExpired
    \/ Age \/ ExpiresPasses \/ Publish \/ Crash

Spec == Init /\ [][Next]_vars

\* The cleaner's ticker never stops while the server runs.
FairSpec == Spec /\ WF_vars(cleanExpired)

-----------------------------------------------------------------------------
\* Reader.Close, isDownloadComplete: what is served from the cache is a whole
\* body, whatever downloads broke off, were cleaned up or died before it.
CachedIsWhole == \A f \in Fetches : got[f] # "short"

\* tryRenewal: a body served because the origin said that it had not changed is
\* the version the origin had then, even after a crash between the steps that
\* replace body and metadata.
RenewedIsCurrent ==
    \A f \in Fetches : got[f] = "whole" /\ asked[f] # 0 => ver[fd[f]] >= asked[f]

\* What no entry refers to, or what is past its retention.
Garbage ==
    \/ tmp # None \/ tmpMeta # None
    \/ data # None /\ meta = None
    \/ meta # None /\ meta.age = "expired"

\* cleanExpired: a crash, a failed close or a race leaves nothing behind that the
\* cleaner does not find, though an error may end any of its passes.
GarbageCollected == InFlight = {} /\ Garbage ~> ~Garbage
=============================================================================
