---------------------------- MODULE SnapshotStore ----------------------------
(***************************************************************************)
(* What the snapshot cache promises its callers (snapshot.Manager.Ensure): *)
(* a snapshot is published once, by one download at a time; a caller pins  *)
(* only a published snapshot; a pinned snapshot is never taken away.       *)
(* UserCache implements this with files and flock(2) locks.                *)
(***************************************************************************)

CONSTANTS Procs,      \* requests that use the cache
          Snapshots,  \* the commits a user may ask for
          None        \* no snapshot

VARIABLES published,  \* the snapshots that are complete on disk
          filling,    \* the snapshot being downloaded, or None
          pins        \* pins[p]: the snapshot p is reading, or None

storeVars == <<published, filling, pins>>

StoreInit ==
  /\ published = {}
  /\ filling = None
  /\ pins = [p \in Procs |-> None]

\* A download starts only when no other runs and no complete copy exists.
StartFill(s) ==
  /\ filling = None
  /\ s \notin published
  /\ filling' = s
  /\ UNCHANGED <<published, pins>>

\* The download under way becomes visible as a whole.
Publish ==
  /\ filling # None
  /\ published' = published \cup {filling}
  /\ filling' = None
  /\ UNCHANGED pins

AbandonFill ==
  /\ filling # None
  /\ filling' = None
  /\ UNCHANGED <<published, pins>>

Pin(p, s) ==
  /\ pins[p] = None
  /\ s \in published
  /\ pins' = [pins EXCEPT ![p] = s]
  /\ UNCHANGED <<published, filling>>

Unpin(p) ==
  /\ pins[p] # None
  /\ pins' = [pins EXCEPT ![p] = None]
  /\ UNCHANGED <<published, filling>>

\* Eviction and cache cleaning take only what nobody reads.
Evict(s) ==
  /\ s \in published
  /\ \A p \in Procs : pins[p] # s
  /\ published' = published \ {s}
  /\ UNCHANGED <<filling, pins>>

StoreNext ==
  \/ \E s \in Snapshots : StartFill(s) \/ Evict(s)
  \/ \E p \in Procs : Unpin(p) \/ \E s \in Snapshots : Pin(p, s)
  \/ Publish
  \/ AbandonFill

StoreSpec == StoreInit /\ [][StoreNext]_storeVars
=============================================================================
