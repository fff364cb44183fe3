----------------------------- MODULE CacheBudget -----------------------------
(***************************************************************************)
(* The byte budget of one user's cache (diskcache.Budget): how MakeRoom    *)
(* chooses what to evict and how Reserve accounts for writes before they   *)
(* happen.  The user's writer lock admits one writer at a time, so the     *)
(* model has one; readers of other entries come, touch what they use and   *)
(* go while it works, the clock advances, and the writer may die.          *)
(*                                                                         *)
(* A byte is a unit of size, a moment a natural number.  MaxTime bounds    *)
(* the clock.                                                              *)
(***************************************************************************)
EXTENDS Integers, FiniteSetsExt

CONSTANTS
  Snapshots,  \* commit directories (with their temporaries)
  Repos,      \* pull request repositories
  None,       \* no entry
  MaxBytes,   \* GOGS_MCP_CACHE_MAX_BYTES
  TTL,        \* GOGS_MCP_CACHE_TTL
  SweepAge,   \* the age at which a left temporary is swept
  Growths,    \* by how much one write may grow a file
  MaxTime     \* bound on the clock

Entries == Snapshots \cup Repos

ASSUME BudgetAssumption ==
  /\ IsFiniteSet(Snapshots) /\ IsFiniteSet(Repos)
  /\ Snapshots \cap Repos = {}
  /\ None \notin Entries
  /\ {MaxBytes, TTL, SweepAge} \subseteq Nat \ {0}
  /\ Growths \subseteq Nat \ {0}
  /\ MaxTime \in Nat

VARIABLES
  status,     \* status[e]: "absent", "temp", "published" or "junk"
  size,       \* size[e]: the bytes e has on disk
  mtime,      \* mtime[e]: the modification time of e's directory
  pinned,     \* the entries readers hold
  now,        \* the clock
  wpc,        \* where the writer is
  target,     \* the entry the writer fills
  keep,       \* Budget.Keep
  additional, \* the argument of MakeRoom, or of Reserve
  resume,     \* where the writer goes on after MakeRoom
  total,      \* MakeRoom's running total
  todo,       \* the listed entries MakeRoom has still to visit
  victim,     \* the listed entry MakeRoom is removing
  skipped,    \* the entries MakeRoom found in use
  ready,      \* Budget.ready
  free        \* Budget.free

files  == <<status, size, mtime>>
room   == <<total, todo, victim, skipped>>
budget == <<ready, free>>
vars   == <<status, size, mtime, pinned, now, wpc, target, keep, additional,
            resume, total, todo, victim, skipped, ready, free>>

-----------------------------------------------------------------------------
\* Size(root): everything on disk, listed or not.
Used == MapThenSumSet(LAMBDA e : size[e], Entries)

\* Budget.entries: junk, a commit directory that lost its metadata, has no entry.
Listed == {e \in Entries : status[e] \in {"temp", "published"}}

Expired(r) == now - r.modified > TTL

Drop(e) ==
  /\ status' = [status EXCEPT ![e] = "absent"]
  /\ size' = [size EXCEPT ![e] = 0]
  /\ UNCHANGED mtime

-----------------------------------------------------------------------------
\* Readers of snapshots: Ensure's first look touches what it finds.  A diff reads
\* its repository under the writer lock, so nobody else does.

Pin(e) ==
  /\ status[e] = "published"
  /\ e \notin pinned
  /\ e # target
  /\ \A r \in victim : r.path # e
  /\ pinned' = pinned \cup {e}
  /\ mtime' = [mtime EXCEPT ![e] = now]
  /\ UNCHANGED <<status, size, now, wpc, target, keep, additional, resume, room, budget>>

Unpin(e) ==
  /\ e \in pinned
  /\ pinned' = pinned \ {e}
  /\ UNCHANGED <<files, now, wpc, target, keep, additional, resume, room, budget>>

Tick ==
  /\ now < MaxTime
  /\ now' = now + 1
  /\ UNCHANGED <<files, pinned, wpc, target, keep, additional, resume, room, budget>>

-----------------------------------------------------------------------------
\* The writer: snapshot.Manager.Ensure and PullEngine.DiffPull.

CallMakeRoom(n, then) ==
  /\ wpc' = "size"
  /\ additional' = n
  /\ resume' = then

\* A miss (of a commit that is not junk; UserCache has those): leftovers are swept,
\* then a byte of room is asked for before there is anything to keep.
StartEnsure(s) ==
  /\ wpc = "idle"
  /\ status[s] = "absent"
  /\ LET stale == {t \in Snapshots : status[t] = "temp" /\ now - mtime[t] >= SweepAge}
     IN /\ status' = [e \in Entries |-> IF e \in stale THEN "absent" ELSE status[e]]
        /\ size' = [e \in Entries |-> IF e \in stale THEN 0 ELSE size[e]]
  /\ target' = s
  /\ CallMakeRoom(1, "create")
  /\ UNCHANGED <<mtime, pinned, now, keep, room, budget>>

StartDiff(r) ==
  /\ wpc = "idle"
  /\ target' = r
  /\ keep' = r
  /\ CallMakeRoom(0, "create")
  /\ UNCHANGED <<files, pinned, now, room, budget>>

\* MkdirTemp, or cachedRepo: from here on the target is the entry to keep.
Create ==
  /\ wpc = "create"
  /\ keep' = target
  /\ status' = [status EXCEPT ![target] = IF target \in Repos THEN "published" ELSE "temp"]
  /\ mtime' = [mtime EXCEPT ![target] = IF status[target] = "absent" THEN now ELSE @]
  /\ wpc' = "work"
  /\ UNCHANGED <<size, pinned, now, target, additional, resume, room, budget>>

\* Mutant: what a write takes is not subtracted.
ReserveForgets(n) ==
  /\ wpc = "work"
  /\ IF ready /\ n <= free
     THEN /\ UNCHANGED free
          /\ wpc' = "write"
          /\ additional' = n
          /\ UNCHANGED resume
     ELSE CallMakeRoom(n, "account") /\ UNCHANGED free
  /\ UNCHANGED <<files, pinned, now, target, keep, room, ready>>

\* Budget.Reserve: room is made only when the last measurement does not suffice.
Reserve(n) ==
  /\ wpc = "work"
  /\ IF ready /\ n <= free
     THEN /\ free' = free - n
          /\ wpc' = "write"
          /\ additional' = n
          /\ UNCHANGED resume
     ELSE CallMakeRoom(n, "account") /\ UNCHANGED free
  /\ UNCHANGED <<files, pinned, now, target, keep, room, ready>>

Account ==
  /\ wpc = "account"
  /\ ready' = TRUE
  /\ LET left == MaxBytes - Used
     IN IF additional > left
        THEN free' = left /\ wpc' = "full"
        ELSE free' = left - additional /\ wpc' = "write"
  /\ UNCHANGED <<files, pinned, now, target, keep, additional, resume, room>>

\* The write itself may fall short; the budget does not hear of it.
Write ==
  /\ wpc = "write"
  /\ \E n \in 0..additional : size' = [size EXCEPT ![target] = @ + n]
  /\ wpc' = "work"
  /\ UNCHANGED <<status, mtime, pinned, now, target, keep, additional, resume, room, budget>>

Reset ==
  /\ wpc' = "idle"
  /\ target' = None
  /\ keep' = None
  /\ additional' = 0
  /\ resume' = "idle"
  /\ total' = 0
  /\ todo' = {}
  /\ victim' = {}
  /\ skipped' = {}
  /\ ready' = FALSE
  /\ free' = 0

\* os.Rename, or the diff, which touches its repository once more.
Finish ==
  /\ wpc = "finish" \/ (wpc = "work" /\ target \in Snapshots)
  /\ status' = [status EXCEPT ![target] = "published"]
  /\ mtime' = [mtime EXCEPT ![target] = now]
  /\ Reset
  /\ UNCHANGED <<size, pinned, now>>

\* DiffPull trims the cache between the fetch and the diff.
Trim ==
  /\ wpc = "work"
  /\ target \in Repos
  /\ mtime' = [mtime EXCEPT ![target] = now]
  /\ CallMakeRoom(0, "finish")
  /\ UNCHANGED <<status, size, pinned, now, target, keep, room, budget>>

\* The download or the fetch fails for a reason of its own.
Abort ==
  /\ wpc = "work"
  /\ wpc' = "error"
  /\ UNCHANGED <<files, pinned, now, target, keep, additional, resume, room, budget>>

\* The way out after an error: the temporary goes; the repository goes when the
\* fetch found no room or when trimming failed.
Discards ==
  IF target \in Snapshots THEN keep = target
  ELSE resume = "finish" \/ (wpc = "full" /\ resume = "account")

Fail ==
  /\ wpc \in {"full", "error"}
  /\ IF Discards THEN Drop(target) ELSE UNCHANGED files
  /\ Reset
  /\ UNCHANGED <<pinned, now>>

-----------------------------------------------------------------------------
\* Budget.MakeRoom.

MeasureSize ==
  /\ wpc = "size"
  /\ IF additional > MaxBytes
     THEN wpc' = "full" /\ UNCHANGED total
     ELSE wpc' = "list" /\ total' = Used
  /\ skipped' = {}
  /\ UNCHANGED <<files, pinned, now, target, keep, additional, resume, todo, victim, budget>>

\* The times are read once; readers go on touching their entries.
List ==
  /\ wpc = "list"
  /\ todo' = {[path |-> e, modified |-> mtime[e]] : e \in Listed}
  /\ wpc' = "visit"
  /\ UNCHANGED <<files, pinned, now, target, keep, additional, resume, total, victim, skipped, budget>>

\* sort.Slice by time, ties in any order.
Oldest(r) == r \in todo /\ \A o \in todo : r.modified <= o.modified

Needed(r) == total + additional > MaxBytes \/ Expired(r)

\* Mutant: TryLock's answer "in use" ends the walk.
VisitStops(r) ==
  /\ wpc = "visit"
  /\ Oldest(r)
  /\ \/ /\ ~Needed(r) \/ r.path = keep
        /\ todo' = todo \ {r}
        /\ UNCHANGED <<wpc, victim, skipped>>
     \/ /\ Needed(r) /\ r.path # keep
        /\ r.path \in pinned
        /\ todo' = {}
        /\ skipped' = skipped \cup {r.path}
        /\ UNCHANGED <<wpc, victim>>
     \/ /\ Needed(r) /\ r.path # keep
        /\ r.path \notin pinned
        /\ todo' = todo \ {r}
        /\ victim' = {r}
        /\ wpc' = "evict"
        /\ UNCHANGED skipped
  /\ UNCHANGED <<files, pinned, now, target, keep, additional, resume, total, budget>>

Visit(r) ==
  /\ wpc = "visit"
  /\ Oldest(r)
  /\ todo' = todo \ {r}
  /\ \/ /\ ~Needed(r) \/ r.path = keep
        /\ UNCHANGED <<wpc, victim, skipped>>
     \/ /\ Needed(r) /\ r.path # keep
        /\ r.path \in pinned
        /\ skipped' = skipped \cup {r.path}
        /\ UNCHANGED <<wpc, victim>>
     \/ /\ Needed(r) /\ r.path # keep
        /\ r.path \notin pinned
        /\ victim' = {r}
        /\ wpc' = "evict"
        /\ UNCHANGED skipped
  /\ UNCHANGED <<files, pinned, now, target, keep, additional, resume, total, budget>>

\* Mutant: the running total stays.
EvictUncounted ==
  /\ wpc = "evict"
  /\ \E r \in victim : Drop(r.path)
  /\ victim' = {}
  /\ wpc' = "visit"
  /\ UNCHANGED <<pinned, now, target, keep, additional, resume, total, todo, skipped, budget>>

Evict ==
  /\ wpc = "evict"
  /\ \E r \in victim : Drop(r.path) /\ total' = total - size[r.path]
  /\ victim' = {}
  /\ wpc' = "visit"
  /\ UNCHANGED <<pinned, now, target, keep, additional, resume, todo, skipped, budget>>

Visited ==
  /\ wpc = "visit"
  /\ todo = {}
  /\ wpc' = IF total + additional > MaxBytes THEN "full" ELSE resume
  /\ UNCHANGED <<files, pinned, now, target, keep, additional, resume, room, budget>>

-----------------------------------------------------------------------------
\* os.RemoveAll leaves some bytes of e, and of a snapshot perhaps no metadata.
RemovedPartly(e) ==
  /\ \E n \in 0..size[e] : size' = [size EXCEPT ![e] = n]
  /\ \E left \in {status[e]} \cup (IF e \in Snapshots /\ status[e] = "published"
                                   THEN {"junk"} ELSE {}) :
       status' = [status EXCEPT ![e] = left]
  /\ UNCHANGED mtime

RemoveError ==
  /\ wpc = "evict"
  /\ \E r \in victim : RemovedPartly(r.path)
  /\ victim' = {}
  /\ wpc' = "error"
  /\ UNCHANGED <<pinned, now, target, keep, additional, resume, total, todo, skipped, budget>>

\* The process dies; nothing is cleaned up.
Crash ==
  /\ wpc # "idle"
  /\ IF victim = {} THEN UNCHANGED files ELSE \E r \in victim : RemovedPartly(r.path)
  /\ Reset
  /\ UNCHANGED <<pinned, now>>

\* "cache clean" takes junk along.
CacheClean ==
  /\ wpc = "idle"
  /\ pinned = {}
  /\ status' = [e \in Entries |-> "absent"]
  /\ size' = [e \in Entries |-> 0]
  /\ UNCHANGED <<mtime, pinned, now, wpc, target, keep, additional, resume, room, budget>>

-----------------------------------------------------------------------------
Init ==
  /\ status = [e \in Entries |-> "absent"]
  /\ size = [e \in Entries |-> 0]
  /\ mtime = [e \in Entries |-> 0]
  /\ pinned = {}
  /\ now = 0
  /\ wpc = "idle"
  /\ target = None
  /\ keep = None
  /\ additional = 0
  /\ resume = "idle"
  /\ total = 0
  /\ todo = {}
  /\ victim = {}
  /\ skipped = {}
  /\ ready = FALSE
  /\ free = 0

Reader == \E s \in Snapshots : Pin(s) \/ Unpin(s)

WriterStep ==
  \/ \E s \in Snapshots : StartEnsure(s)
  \/ \E r \in Repos : StartDiff(r)
  \/ \E n \in Growths : Reserve(n)
  \/ \E r \in todo : Visit(r)
  \/ Create \/ Account \/ Write \/ Trim \/ Finish \/ Abort \/ Fail
  \/ MeasureSize \/ List \/ Evict \/ Visited

Fault == RemoveError \/ Crash

Next == Reader \/ WriterStep \/ Fault \/ CacheClean \/ Tick

Spec == Init /\ [][Next]_vars
-----------------------------------------------------------------------------
\* Properties.

\* "Cache size per Gogs user" (README.md:191): whatever is written, evicted,
\* abandoned or left behind by a crash, the files never exceed the budget.
BytesBounded == Used <= MaxBytes

\* MakeRoom removes nothing for nothing: when an entry goes, it is too old by the
\* time it was listed with, or the cache without its removal is too full.
EvictionHasReason ==
  [][\A r \in victim : wpc = "evict" /\ wpc' = "visit" =>
       Expired(r) \/ Used + additional > MaxBytes]_vars

\* ErrCapacity means that everything else that is listed was in use when its turn
\* came; only the leftovers of a failed removal are there and cannot be evicted.
CapacityMeansInUse ==
  wpc = "full" /\ additional <= MaxBytes =>
    \A e \in Entries : status[e] # "absent" =>
      e \in skipped \cup {keep} \/ status[e] = "junk"

\* "How long a snapshot or pull request cache entry may stay untouched before it
\* expires" (README.md:192): what is not removed for room has not been touched for
\* a TTL.  The listed time is stale when a reader came and went since.
ExpiresUntouched ==
  [][\A r \in victim : wpc = "evict" /\ wpc' = "visit" =>
       now - mtime[r.path] > TTL \/ Used + additional > MaxBytes]_vars
=============================================================================
