------------------------------ MODULE UserCache ------------------------------
(***************************************************************************)
(* The disk cache one Gogs user shares between requests and between server *)
(* processes (internal/diskcache, internal/snapshot, internal/gogs).       *)
(*                                                                         *)
(* A request p is a goroutine of some server process or a "cache clean"    *)
(* command.  It does one of three things: Ensure a snapshot and read it,   *)
(* compute a pull request diff in a cached git repository (DiffPull), or   *)
(* remove a cache tree (RemoveTree).  Requests coordinate only through     *)
(* flock(2) locks: one writer lock per user and one lock per cache entry.  *)
(*                                                                         *)
(* Abstractions: file contents are a tree that is absent, partial or       *)
(* whole, and a metadata file; the byte accounting and the order in which  *)
(* MakeRoom visits entries are left open here (module CacheBudget has      *)
(* them), so eviction may take any entry it may lock and may stop, or give *)
(* up, at any point.                                                       *)
(***************************************************************************)
EXTENDS FiniteSets

CONSTANTS
  Procs,      \* requests
  Snapshots,  \* commit directories <owner>/<repo>/<sha>
  Repos,      \* bare git repositories .pull/<hash>.git
  Temps,      \* names MkdirTemp may choose under .tmp/
  Bases,      \* base refs a pull request diff may ask for
  Writer,     \* the path of the user's writer lock
  None        \* no entry, no base ref

Entries == Snapshots \cup Repos \cup Temps
Locks   == Entries \cup {Writer}

ASSUME Distinct ==
  /\ Snapshots \cap Repos = {}
  /\ Snapshots \cap Temps = {}
  /\ Repos \cap Temps = {}
  /\ Writer \notin Entries
  /\ None \notin Locks
  /\ None \notin Bases

VARIABLES
  pc,      \* pc[p]: where request p is
  key,     \* key[p]: the entry p asked for (None for RemoveTree)
  scope,   \* scope[p]: the entries below the root RemoveTree removes
  base,    \* base[p]: the base ref of p's pull request diff
  temp,    \* temp[p]: p's temporary directory
  victim,  \* victim[p]: the entry MakeRoom is removing
  resume,  \* resume[p]: where p goes on when MakeRoom has returned
  excl,    \* excl[l]: requests holding lock l exclusively
  shared,  \* shared[l]: requests holding lock l shared
  disk,    \* disk[e]: what is on disk for entry e
  mirror   \* mirror[r]: the base ref whose tip refs/gogs-mcp/base holds

locks == <<excl, shared>>
job   == <<key, scope, base, temp, victim, resume>>
vars  == <<pc, key, scope, base, temp, victim, resume, excl, shared, disk, mirror>>

-----------------------------------------------------------------------------
\* Contents of an entry's directory.

Trees == {"none", "part", "all"}
Contents == [dir : BOOLEAN, tree : Trees, meta : BOOLEAN]

Absent == [dir |-> FALSE, tree |-> "none", meta |-> FALSE]
Whole  == [dir |-> TRUE,  tree |-> "all",  meta |-> TRUE]

\* What os.RemoveAll may have left of d while it is at work: it unlinks the
\* children in the order the directory lists them, the directory itself last.
Remains(d) ==
  {r \in Contents :
     /\ r.dir
     /\ r.tree \in CASE d.tree = "all" -> Trees
                     [] d.tree = "part" -> {"none", "part"}
                     [] OTHER -> {"none"}
     /\ r.meta => d.meta
     /\ r # d}

\* Ensure's test for a hit: snapshot/ exists and is a directory.
HasSnapshot(s) == disk[s].tree # "none"

\* Budget.entries: a commit directory counts once it holds metadata.json, a
\* temporary or a repository as soon as it exists.
Listed(e) == IF e \in Snapshots THEN disk[e].meta ELSE disk[e].dir

-----------------------------------------------------------------------------
\* Locks.  flock(2) grants a lock per open file description, and TryLock opens
\* a new one, so a request's own lock also blocks its TryLock.

CanShare(l) == excl[l] = {}
\* Mutant: a TryLock that does not see readers.
CanExcludeReaders(l) == excl[l] = {}

CanExclude(l) == excl[l] = {} /\ shared[l] = {}

LockShared(p, l)   == shared' = [shared EXCEPT ![l] = @ \cup {p}] /\ UNCHANGED excl
UnlockShared(p, l) == shared' = [shared EXCEPT ![l] = @ \ {p}] /\ UNCHANGED excl
LockExcl(p, l)     == excl' = [excl EXCEPT ![l] = @ \cup {p}] /\ UNCHANGED shared
UnlockExcl(p, l)   == excl' = [excl EXCEPT ![l] = @ \ {p}] /\ UNCHANGED shared

\* Closing every lock file p has open: the deferred Close calls of a return,
\* and what the kernel does when the process dies.
UnlockAll(p) ==
  /\ excl' = [l \in Locks |-> excl[l] \ {p}]
  /\ shared' = [l \in Locks |-> shared[l] \ {p}]

Goto(p, label) == pc' = [pc EXCEPT ![p] = label]

\* p's request is over.
Return(p) ==
  /\ Goto(p, "idle")
  /\ key' = [key EXCEPT ![p] = None]
  /\ scope' = [scope EXCEPT ![p] = {}]
  /\ base' = [base EXCEPT ![p] = None]
  /\ temp' = [temp EXCEPT ![p] = None]
  /\ victim' = [victim EXCEPT ![p] = None]
  /\ resume' = [resume EXCEPT ![p] = "idle"]
  /\ UnlockAll(p)

-----------------------------------------------------------------------------
\* snapshot.Manager.Ensure.

StartEnsure(p, s) ==
  /\ pc[p] = "idle"
  /\ Goto(p, "read")
  /\ key' = [key EXCEPT ![p] = s]
  /\ UNCHANGED <<scope, base, temp, victim, resume, locks, disk, mirror>>

AcquireRead(p) ==
  /\ pc[p] = "read"
  /\ CanShare(key[p])
  /\ LockShared(p, key[p])
  /\ Goto(p, "check")
  /\ UNCHANGED <<job, disk, mirror>>

\* Mutant: a miss goes for the entry without the writer lock.
CheckWithoutWriter(p) ==
  /\ pc[p] = "check"
  /\ IF HasSnapshot(key[p])
     THEN Goto(p, "using") /\ UNCHANGED locks
     ELSE Goto(p, "recheck") /\ UnlockShared(p, key[p])
  /\ UNCHANGED <<job, disk, mirror>>

\* A hit keeps the shared lock until Release; a miss drops it and queues for
\* the writer lock, so the entry may change in between.
Check(p) ==
  /\ pc[p] = "check"
  /\ IF HasSnapshot(key[p])
     THEN Goto(p, "using") /\ UNCHANGED locks
     ELSE Goto(p, "writer") /\ UnlockShared(p, key[p])
  /\ UNCHANGED <<job, disk, mirror>>

\* Mutant: the writer lock is taken shared.
AcquireWriterShared(p) ==
  /\ pc[p] = "writer"
  /\ CanShare(Writer)
  /\ LockShared(p, Writer)
  /\ Goto(p, IF key[p] = None THEN "lockall"
             ELSE IF key[p] \in Snapshots THEN "recheck" ELSE "exclusive")
  /\ UNCHANGED <<job, disk, mirror>>

\* The writer lock is where the three operations meet.
AcquireWriter(p) ==
  /\ pc[p] = "writer"
  /\ CanExclude(Writer)
  /\ LockExcl(p, Writer)
  /\ Goto(p, IF key[p] = None THEN "lockall"
             ELSE IF key[p] \in Snapshots THEN "recheck" ELSE "exclusive")
  /\ UNCHANGED <<job, disk, mirror>>

AcquireRecheck(p) ==
  /\ pc[p] = "recheck"
  /\ CanShare(key[p])
  /\ LockShared(p, key[p])
  /\ Goto(p, "restat")
  /\ UNCHANGED <<job, disk, mirror>>

\* Another request may have published the snapshot while p waited.
Restat(p) ==
  /\ pc[p] = "restat"
  /\ IF HasSnapshot(key[p])
     THEN Goto(p, "using") /\ UnlockExcl(p, Writer)
     ELSE Goto(p, "exclusive") /\ UnlockShared(p, key[p])
  /\ UNCHANGED <<job, disk, mirror>>

\* The exclusive lock on the entry itself, for Ensure and for DiffPull.
AcquireEntry(p) ==
  /\ pc[p] = "exclusive"
  /\ CanExclude(key[p])
  /\ LockExcl(p, key[p])
  /\ IF key[p] \in Snapshots
     THEN Goto(p, "confirm") /\ UNCHANGED resume
     ELSE Goto(p, "evict") /\ resume' = [resume EXCEPT ![p] = "open"]
  /\ UNCHANGED <<key, scope, base, temp, victim, disk, mirror>>

\* The last look before downloading; then sweepStaleTemporaries, which removes
\* any set of leftovers (those more than an hour old) without their locks.
Confirm(p) ==
  /\ pc[p] = "confirm"
  /\ IF HasSnapshot(key[p])
     THEN Goto(p, "share") /\ UNCHANGED <<resume, disk>>
     ELSE /\ Goto(p, "evict")
          /\ resume' = [resume EXCEPT ![p] = "mktemp"]
          /\ \E stale \in SUBSET {t \in Temps : disk[t].dir} :
               disk' = [e \in Entries |-> IF e \in stale THEN Absent ELSE disk[e]]
  /\ UNCHANGED <<key, scope, base, temp, victim, locks, mirror>>

\* Mutant: the archive is extracted where the snapshot will be.
MakeTempInPlace(p) ==
  /\ pc[p] = "mktemp"
  /\ disk' = [disk EXCEPT ![key[p]] = [Absent EXCEPT !.dir = TRUE]]
  /\ temp' = [temp EXCEPT ![p] = key[p]]
  /\ Goto(p, "extract")
  /\ UNCHANGED <<key, scope, base, victim, resume, locks, mirror>>

\* os.MkdirTemp, under a name that is free.
MakeTemp(p) ==
  /\ pc[p] = "mktemp"
  /\ \E t \in Temps :
       /\ ~disk[t].dir
       /\ disk' = [disk EXCEPT ![t] = [Absent EXCEPT !.dir = TRUE]]
       /\ temp' = [temp EXCEPT ![p] = t]
  /\ Goto(p, "extract")
  /\ UNCHANGED <<key, scope, base, victim, resume, locks, mirror>>

\* Every write of a file is preceded by Budget.Reserve, which may have to call
\* MakeRoom and then goes on at `at`.
Reserve(p, at) ==
  \/ Goto(p, at) /\ UNCHANGED resume
  \/ Goto(p, "evict") /\ resume' = [resume EXCEPT ![p] = at]

\* Mutant: an archive that breaks off counts as complete.
ExtractTruncated(p) ==
  /\ pc[p] = "extract"
  /\ IF disk[temp[p]].tree # "none"
     THEN Reserve(p, "metadata")
     ELSE Reserve(p, "extractFile")
  /\ UNCHANGED <<key, scope, base, temp, victim, locks, disk, mirror>>

\* extractArchive: the next file, or the end of the archive.
Extract(p) ==
  /\ pc[p] = "extract"
  /\ IF disk[temp[p]].tree = "all"
     THEN Reserve(p, "metadata")
     ELSE Reserve(p, "extractFile")
  /\ UNCHANGED <<key, scope, base, temp, victim, locks, disk, mirror>>

ExtractFile(p) ==
  /\ pc[p] = "extractFile"
  /\ disk' = [disk EXCEPT ![temp[p]].tree = IF @ = "none" THEN "part" ELSE "all"]
  /\ Goto(p, "extract")
  /\ UNCHANGED <<job, locks, mirror>>

\* The download broke off, a limit was exceeded or the archive was refused.
ExtractFails(p) ==
  /\ pc[p] = "extract"
  /\ Goto(p, "discard")
  /\ UNCHANGED <<job, locks, disk, mirror>>

WriteMetadata(p) ==
  /\ pc[p] = "metadata"
  /\ disk' = [disk EXCEPT ![temp[p]].meta = TRUE]
  /\ Goto(p, "publish")
  /\ UNCHANGED <<job, locks, mirror>>

\* os.Rename refuses a directory that already exists.
Publish(p) ==
  /\ pc[p] = "publish"
  /\ IF disk[key[p]].dir
     THEN Goto(p, "discard") /\ UNCHANGED <<temp, disk>>
     ELSE /\ disk' = [disk EXCEPT ![key[p]] = disk[temp[p]], ![temp[p]] = Absent]
          /\ temp' = [temp EXCEPT ![p] = None]
          /\ Goto(p, "share")
  /\ UNCHANGED <<key, scope, base, victim, resume, locks, mirror>>

\* Mutant: the writer lock goes before the entry is shared.
ShareDropBoth(p) ==
  /\ pc[p] = "share"
  /\ UnlockAll(p)
  /\ Goto(p, "sharing")
  /\ UNCHANGED <<job, disk, mirror>>

\* Lock.Share: flock(2) converts a lock by dropping it and then taking the new
\* one, without a deadline.  The writer lock is released when Ensure returns.
ShareDrop(p) ==
  /\ pc[p] = "share"
  /\ UnlockExcl(p, key[p])
  /\ Goto(p, "sharing")
  /\ UNCHANGED <<job, disk, mirror>>

ShareTake(p) ==
  /\ pc[p] = "sharing"
  /\ CanShare(key[p])
  /\ shared' = [shared EXCEPT ![key[p]] = @ \cup {p}]
  /\ excl' = [excl EXCEPT ![Writer] = @ \ {p}]
  /\ Goto(p, "using")
  /\ UNCHANGED <<job, disk, mirror>>

\* Result.Release, when the search over the snapshot has ended.
Release(p) ==
  /\ pc[p] = "using"
  /\ Return(p)
  /\ UNCHANGED <<disk, mirror>>

-----------------------------------------------------------------------------
\* Budget.MakeRoom, called with the writer lock held and Keep = Kept(p).

Kept(p) == IF key[p] \in Repos THEN key[p] ELSE temp[p]

Evict(p) ==
  /\ pc[p] = "evict"
  /\ \E e \in Entries \ {Kept(p)} :
       /\ Listed(e)
       /\ CanExclude(e)
       /\ LockExcl(p, e)
       /\ victim' = [victim EXCEPT ![p] = e]
  /\ Goto(p, "evicting")
  /\ UNCHANGED <<key, scope, base, temp, resume, disk, mirror>>

EvictPartly(p) ==
  /\ pc[p] = "evicting"
  /\ \E left \in Remains(disk[victim[p]]) : disk' = [disk EXCEPT ![victim[p]] = left]
  /\ UNCHANGED <<pc, job, locks, mirror>>

\* Mutant: the children go, the directory stays.
EvictChildren(p) ==
  /\ pc[p] = "evicting"
  /\ disk' = [disk EXCEPT ![victim[p]] = [Absent EXCEPT !.dir = TRUE]]
  /\ UnlockExcl(p, victim[p])
  /\ victim' = [victim EXCEPT ![p] = None]
  /\ Goto(p, "evict")
  /\ UNCHANGED <<key, scope, base, temp, resume, mirror>>

EvictDone(p) ==
  /\ pc[p] = "evicting"
  /\ disk' = [disk EXCEPT ![victim[p]] = Absent]
  /\ UnlockExcl(p, victim[p])
  /\ victim' = [victim EXCEPT ![p] = None]
  /\ Goto(p, "evict")
  /\ UNCHANGED <<key, scope, base, temp, resume, mirror>>

RoomMade(p) ==
  /\ pc[p] = "evict"
  /\ Goto(p, resume[p])
  /\ UNCHANGED <<job, locks, disk, mirror>>

\* ErrCapacity.
NoRoom(p) ==
  /\ pc[p] = "evict"
  /\ Goto(p, "discard")
  /\ UNCHANGED <<job, locks, disk, mirror>>

\* The way out after an error: Ensure's deferred RemoveAll(temporary); DiffPull
\* drops its repository when the fetch found no room or the trim failed, not when
\* the first MakeRoom did.  Then the locks.
Discarded(p) ==
  IF key[p] \in Snapshots THEN {temp[p]}
  ELSE IF resume[p] = "open" THEN {} ELSE {key[p]}

Discard(p) ==
  /\ pc[p] = "discard"
  /\ disk' = [e \in Entries |-> IF e \in Discarded(p) THEN Absent ELSE disk[e]]
  /\ Return(p)
  /\ UNCHANGED mirror

-----------------------------------------------------------------------------
\* PullEngine.DiffPull.

StartDiff(p, r, b) ==
  /\ pc[p] = "idle"
  /\ Goto(p, "writer")
  /\ key' = [key EXCEPT ![p] = r]
  /\ base' = [base EXCEPT ![p] = b]
  /\ UNCHANGED <<scope, temp, victim, resume, locks, disk, mirror>>

\* cachedRepo: a repository that does not open is removed and built again.  One
\* that lost some of its files may still open: git.Open looks at few of them.
OpenRepo(p) ==
  /\ pc[p] = "open"
  /\ \/ /\ disk[key[p]].tree # "none"
        /\ Goto(p, "fetch")
        /\ UNCHANGED <<disk, mirror>>
     \/ /\ disk[key[p]].tree # "all"
        /\ Goto(p, "init")
        /\ disk' = [disk EXCEPT ![key[p]] = [Absent EXCEPT !.dir = TRUE]]
        /\ mirror' = [mirror EXCEPT ![key[p]] = None]
  /\ UNCHANGED <<job, locks>>

InitRepo(p) ==
  /\ pc[p] = "init"
  /\ disk' = [disk EXCEPT ![key[p]].tree = "all"]
  /\ Reserve(p, "fetch")
  /\ UNCHANGED <<key, scope, base, temp, victim, locks, mirror>>

\* fetchRefs mirrors the base ref, whatever the last request left there; after
\* it DiffPull trims the cache once more.
Fetch(p) ==
  /\ pc[p] = "fetch"
  /\ Reserve(p, "fetched")
  /\ UNCHANGED <<key, scope, base, temp, victim, locks, disk, mirror>>

\* Mutant: a mirror that exists is taken for up to date.
FetchedOnce(p) ==
  /\ pc[p] = "fetched"
  /\ mirror' = [mirror EXCEPT ![key[p]] = IF @ = None THEN base[p] ELSE @]
  /\ Goto(p, "evict")
  /\ resume' = [resume EXCEPT ![p] = "diff"]
  /\ UNCHANGED <<key, scope, base, temp, victim, locks, disk>>

Fetched(p) ==
  /\ pc[p] = "fetched"
  /\ mirror' = [mirror EXCEPT ![key[p]] = base[p]]
  /\ Goto(p, "evict")
  /\ resume' = [resume EXCEPT ![p] = "diff"]
  /\ UNCHANGED <<key, scope, base, temp, victim, locks, disk>>

\* A failed fetch keeps the repository and what the mirror held.
FetchFails(p) ==
  /\ pc[p] = "fetch"
  /\ Return(p)
  /\ UNCHANGED <<disk, mirror>>

Diff(p) ==
  /\ pc[p] = "diff"
  /\ Return(p)
  /\ UNCHANGED <<disk, mirror>>

-----------------------------------------------------------------------------
\* diskcache.RemoveTree, on the user's whole cache or on its .pull directory.

StartRemove(p, root) ==
  /\ pc[p] = "idle"
  /\ Goto(p, "writer")
  /\ scope' = [scope EXCEPT ![p] = root]
  /\ UNCHANGED <<key, base, temp, victim, resume, locks, disk, mirror>>

\* Mutant: entries in use are passed over instead of refusing.
UnlockedFree(p) == {e \in scope[p] : Listed(e) /\ CanExclude(e)}

Unlocked(p) == {e \in scope[p] : Listed(e) /\ p \notin excl[e]}

LockNext(p) ==
  /\ pc[p] = "lockall"
  /\ \E e \in Unlocked(p) : CanExclude(e) /\ LockExcl(p, e)
  /\ UNCHANGED <<pc, job, disk, mirror>>

\* "cache entries are in use; retry cleanup after active requests finish"
LockBusy(p) ==
  /\ pc[p] = "lockall"
  /\ \E e \in Unlocked(p) : ~CanExclude(e)
  /\ Return(p)
  /\ UNCHANGED <<disk, mirror>>

AllLocked(p) ==
  /\ pc[p] = "lockall"
  /\ Unlocked(p) = {}
  /\ Goto(p, "remove")
  /\ UNCHANGED <<job, locks, disk, mirror>>

RemoveSome(p) ==
  /\ pc[p] = "remove"
  /\ \E e \in scope[p] :
       /\ disk[e].dir
       /\ \E left \in Remains(disk[e]) \cup {Absent} : disk' = [disk EXCEPT ![e] = left]
  /\ UNCHANGED <<pc, job, locks, mirror>>

RemoveDone(p) ==
  /\ pc[p] = "remove"
  /\ \A e \in scope[p] : ~disk[e].dir
  /\ Return(p)
  /\ UNCHANGED <<disk, mirror>>

-----------------------------------------------------------------------------
\* Acquire gives up when its context is done: a tool call's deadline, or the
\* time limit of CleanCache.  RemoveUser and RemoveAll wait without one.
Cancel(p) ==
  /\ pc[p] \in {"read", "writer", "recheck", "exclusive"}
  /\ scope[p] # Entries
  /\ Return(p)
  /\ UNCHANGED <<disk, mirror>>

\* Faults: the process dies (its locks go, the files stay), or RemoveAll stops
\* at a file it cannot remove.
Crash(p) ==
  /\ pc[p] # "idle"
  /\ Return(p)
  /\ UNCHANGED <<disk, mirror>>

\* In the fetch such an error is no ErrCapacity, and DiffPull keeps its repository.
RemoveError(p) ==
  \/ /\ pc[p] = "evicting"
     /\ resume[p] \in {"fetch", "fetched"}
     /\ Return(p)
     /\ UNCHANGED <<disk, mirror>>
  \/ /\ pc[p] = "evicting"
     /\ resume[p] \notin {"fetch", "fetched"}
     /\ Goto(p, "discard")
     /\ UnlockExcl(p, victim[p])
     /\ victim' = [victim EXCEPT ![p] = None]
     /\ UNCHANGED <<key, scope, base, temp, resume, disk, mirror>>
  \/ /\ pc[p] = "remove"
     /\ Return(p)
     /\ UNCHANGED <<disk, mirror>>

-----------------------------------------------------------------------------
Init ==
  /\ pc = [p \in Procs |-> "idle"]
  /\ key = [p \in Procs |-> None]
  /\ scope = [p \in Procs |-> {}]
  /\ base = [p \in Procs |-> None]
  /\ temp = [p \in Procs |-> None]
  /\ victim = [p \in Procs |-> None]
  /\ resume = [p \in Procs |-> "idle"]
  /\ excl = [l \in Locks |-> {}]
  /\ shared = [l \in Locks |-> {}]
  /\ disk = [e \in Entries |-> Absent]
  /\ mirror = [r \in Repos |-> None]

Start(p) ==
  \/ \E s \in Snapshots : StartEnsure(p, s)
  \/ \E r \in Repos, b \in Bases : StartDiff(p, r, b)
  \/ \E root \in {Entries, Repos} : StartRemove(p, root)

EnsureStep(p) ==
  \/ AcquireRead(p) \/ Check(p) \/ AcquireRecheck(p) \/ Restat(p) \/ Confirm(p)
  \/ MakeTemp(p) \/ Extract(p) \/ ExtractFile(p) \/ ExtractFails(p)
  \/ WriteMetadata(p) \/ Publish(p) \/ ShareDrop(p) \/ ShareTake(p) \/ Release(p)

DiffStep(p) ==
  OpenRepo(p) \/ InitRepo(p) \/ Fetch(p) \/ Fetched(p) \/ FetchFails(p) \/ Diff(p)

RemoveStep(p) ==
  LockNext(p) \/ LockBusy(p) \/ AllLocked(p) \/ RemoveSome(p) \/ RemoveDone(p)

RoomStep(p) ==
  Evict(p) \/ EvictPartly(p) \/ EvictDone(p) \/ RoomMade(p) \/ NoRoom(p)

Step(p) ==
  \/ AcquireWriter(p) \/ AcquireEntry(p) \/ Discard(p) \/ Cancel(p)
  \/ EnsureStep(p) \/ DiffStep(p) \/ RemoveStep(p) \/ RoomStep(p)

Next == \E p \in Procs : Start(p) \/ Step(p)

Spec == Init /\ [][Next]_vars

FaultyNext == Next \/ \E p \in Procs : Crash(p) \/ RemoveError(p)

FaultySpec == Init /\ [][FaultyNext]_vars
-----------------------------------------------------------------------------
\* Properties.

Labels ==
  {"idle", "read", "check", "writer", "recheck", "restat", "exclusive",
   "confirm", "evict", "evicting", "mktemp", "extract", "extractFile",
   "metadata", "publish", "share", "sharing", "using", "discard", "open",
   "init", "fetch", "fetched", "diff", "lockall", "remove"}

\* The types of the variables.
TypeOK ==
  /\ pc \in [Procs -> Labels]
  /\ key \in [Procs -> Snapshots \cup Repos \cup {None}]
  /\ scope \in [Procs -> SUBSET Entries]
  /\ base \in [Procs -> Bases \cup {None}]
  /\ temp \in [Procs -> Temps \cup {None}]
  /\ victim \in [Procs -> Entries \cup {None}]
  /\ resume \in [Procs -> Labels]
  /\ excl \in [Locks -> SUBSET Procs]
  /\ shared \in [Locks -> SUBSET Procs]
  /\ disk \in [Entries -> Contents]
  /\ mirror \in [Repos -> Bases \cup {None}]

\* Every request that holds an entry exclusively is the one that holds the
\* user's writer lock.  Lock.Share relies on it: nobody can take the entry in
\* the gap of flock's conversion (cache.go:87, "Budget is used while holding
\* the user's writer lock", cache.go:111).
WriterGuardsEntries == \A e \in Entries : excl[e] \subseteq excl[Writer]

\* Publication is atomic (snapshot.go:146): a commit directory nobody holds
\* exclusively is complete or missing, so what Ensure's Stat sees is all of it.
PublicationAtomic ==
  \A s \in Snapshots : excl[s] = {} => disk[s] \in {Absent, Whole}

\* A snapshot is marked in use until Release (snapshot.go:148): no eviction, no
\* cleaning and no second download touches what a request is reading.
PinnedIsWhole == \A p \in Procs : pc[p] = "using" => disk[key[p]] = Whole

\* A request that comes to os.Rename finds no commit directory in its way, so a
\* finished download is never thrown away.
PublishFindsNoDirectory ==
  \A p \in Procs : pc[p] = "publish" => disk[key[p]] = Absent

\* The base mirror is shared by all pull requests of a repository and is
\* overwritten by each (gitdiff.go:595): a diff is computed from its own base
\* ref, in a repository that has all its objects.
DiffUsesOwnBase ==
  \A p \in Procs :
    pc[p] = "diff" => mirror[key[p]] = base[p] /\ disk[key[p]].tree = "all"

\* In the gap of Lock.Share the entry belongs to nobody, and still the snapshot
\* just published, or found, is there when the shared lock is granted.
ShareKeepsSnapshot ==
  \A p \in Procs : pc[p] = "sharing" => excl[key[p]] = {} /\ disk[key[p]] = Whole

\* RemoveTree refuses to remove entries held by readers in any process
\* (cache.go:239), and so does MakeRoom: while anyone holds the lock of an entry
\* shared, its files do not change.
HeldEntriesKept ==
  [][\A e \in Entries : shared[e] # {} => disk'[e] = disk[e]]_vars

\* The part of HeldEntriesKept that outlives crashes and failed removals: an
\* entry that Budget.entries lists is locked before it is removed.
ListedEntriesKept ==
  [][\A e \in Entries : shared[e] # {} /\ Listed(e) => disk'[e] = disk[e]]_vars

\* A temporary has one owner: sweeping and evicting the leftovers of dead
\* requests never takes the directory a live one is extracting into, and no two
\* requests extract at once (snapshot.go:364).
LiveTemporaryKept ==
  \A p \in Procs :
    temp[p] # None =>
      disk[temp[p]].dir /\ \A q \in Procs \ {p} : temp[q] = None

\* What the proofs of the above rest on (UserCacheProofs).

\* Where a request stands says which operation it is, and what it works on.
EnsureLabels ==
  {"read", "check", "recheck", "restat", "confirm", "mktemp", "extract",
   "extractFile", "metadata", "publish", "share", "sharing", "using"}
TempLabels   == {"extract", "extractFile", "metadata", "publish"}
DiffLabels   == {"open", "init", "fetch", "fetched", "diff"}
RoomLabels   == {"evict", "evicting"}
RemoveLabels == {"lockall", "remove"}

JobOK(p) ==
  /\ pc[p] \in EnsureLabels => key[p] \in Snapshots
  /\ pc[p] \in DiffLabels => key[p] \in Repos
  /\ pc[p] \in RoomLabels \cup {"exclusive", "discard"} => key[p] # None
  /\ pc[p] \in RemoveLabels => key[p] = None
  /\ pc[p] \in TempLabels => temp[p] # None
  /\ temp[p] # None => pc[p] \in TempLabels \cup RoomLabels \cup {"discard"}
                      /\ key[p] \in Snapshots
  /\ (victim[p] # None) <=> (pc[p] = "evicting")
  /\ victim[p] # None => victim[p] # temp[p]
  /\ pc[p] \in RoomLabels =>
       \/ key[p] \in Snapshots /\ resume[p] = "mktemp" /\ temp[p] = None
       \/ key[p] \in Snapshots /\ resume[p] \in {"extractFile", "metadata"}
                               /\ temp[p] # None
       \/ key[p] \in Repos /\ resume[p] \in {"open", "fetch", "fetched", "diff"}

JobInv == \A p \in Procs : JobOK(p)

\* Where a request stands says which locks it holds.
WriterLabels ==
  Labels \ {"idle", "read", "check", "writer", "using"}
EntryLabels ==
  WriterLabels \ ({"recheck", "restat", "exclusive", "sharing"} \cup RemoveLabels)
ReaderLabels == {"check", "restat", "using"}

WriterHeldBy ==
  \A p \in Procs : p \in excl[Writer] <=> pc[p] \in WriterLabels

OneWriter == \A p, q \in excl[Writer] : p = q

Exclusion == \A l \in Locks : excl[l] # {} => shared[l] = {}

ReadHeldBy ==
  \A p \in Procs, e \in Entries :
    p \in shared[e] <=> pc[p] \in ReaderLabels /\ key[p] = e

\* RemoveTree's locks are those it has got so far.
EntryHeldBy ==
  \A p \in Procs, e \in Entries :
    pc[p] \notin RemoveLabels =>
      (p \in excl[e] <=> pc[p] \in EntryLabels /\ e \in {key[p], victim[p]})

\* MakeRoom never gets the lock of the entry it makes room for.
VictimApart == \A p \in Procs : victim[p] # None => victim[p] # key[p]

LockInv ==
  /\ shared[Writer] = {}
  /\ WriterHeldBy
  /\ OneWriter
  /\ WriterGuardsEntries
  /\ Exclusion
  /\ ReadHeldBy
  /\ EntryHeldBy
  /\ VictimApart

\* What is on disk while nothing fails: only a removal under way, holding the
\* entry, shows a part of it; the rest follows from where requests stand.
BeingRemoved(e) ==
  /\ disk[e].dir
  /\ \E p \in excl[e] : victim[p] = e \/ (pc[p] = "remove" /\ e \in scope[p])

Settled(e) ==
  IF e \in Snapshots THEN disk[e] \in {Absent, Whole} ELSE disk[e].tree # "part"

MissLabels == {"exclusive", "confirm", "mktemp"} \cup TempLabels \cup RoomLabels

\* Where p is, or where it goes on when MakeRoom has returned.
At(p) == IF pc[p] \in RoomLabels THEN resume[p] ELSE pc[p]

DiskOK(p) ==
  /\ pc[p] \in {"using", "share", "sharing"} => disk[key[p]] = Whole
  /\ key[p] \in Snapshots /\ pc[p] \in MissLabels => disk[key[p]] = Absent
  /\ temp[p] # None => disk[temp[p]].dir
  /\ At(p) = "metadata" => disk[temp[p]].tree = "all"
  /\ At(p) = "publish" => disk[temp[p]] = Whole
  /\ At(p) \in {"fetch", "fetched", "diff"} => disk[key[p]].tree = "all"
  /\ At(p) = "diff" => mirror[key[p]] = base[p]

EntriesSettled ==
  \A e \in Snapshots \cup Repos : Settled(e) \/ BeingRemoved(e)

\* RemoveTree has locked every entry it lists.
ListedLocked ==
  \A p \in Procs : pc[p] = "remove" =>
    \A e \in scope[p] : Listed(e) => p \in excl[e]

\* While nothing fails, that is everything there is to remove.
RemovalLocked ==
  \A p \in Procs : pc[p] = "remove" =>
    \A e \in scope[p] : disk[e].dir => p \in excl[e]

DiskInv ==
  /\ EntriesSettled
  /\ RemovalLocked
  /\ \A p \in Procs : DiskOK(p)

\* Every tool call comes to an end: the waits for locks are bounded by contexts,
\* eviction runs out of entries, and Lock.Share, which no context bounds, is
\* never left waiting.  A removal of the whole cache ends once it has the writer
\* lock; the wait for it is RemoveTree's alone to lose (eviction.go:54).
RequestsEnd ==
  \A p \in Procs :
    /\ (pc[p] # "idle" /\ scope[p] # Entries) ~> pc[p] = "idle"
    /\ pc[p] = "lockall" ~> pc[p] = "idle"

\* The cache keeps the promises of SnapshotStore: one download at a time, none
\* of a published snapshot, pins only on published snapshots, no eviction of a
\* pinned one.
Filling ==
  IF \E p \in Procs : temp[p] # None
  THEN key[CHOOSE p \in Procs : temp[p] # None] ELSE None

Store == INSTANCE SnapshotStore WITH
  published <- {s \in Snapshots : disk[s] = Whole},
  filling   <- Filling,
  pins      <- [p \in Procs |-> IF pc[p] = "using" THEN key[p] ELSE None]

KeepsStorePromises == Store!StoreSpec
=============================================================================
