------------------------- MODULE UserCacheDiskProofs -------------------------
(***************************************************************************)
(* Proofs about UserCache while nothing crashes and no removal fails       *)
(* (Spec): what is on disk follows from who holds which lock, so readers   *)
(* and diffs find what they are promised.                                  *)
(*                                                                         *)
(* UserCache implements SnapshotStore then: from SafeInv, every step of a  *)
(* request starts, publishes or gives up the one download, pins or unpins  *)
(* a published snapshot, takes one away that nobody has pinned, or shows   *)
(* nothing of itself.                                                      *)
(***************************************************************************)
EXTENDS UserCacheProofs

\* A step writes to an entry only under the writer lock and, unless the entry
\* is a temporary, under the lock of the entry.
LEMMA WriteNeedsLocks ==
  ASSUME TypeOK, JobInv, LockInv, DiskInv,
         NEW p \in Procs, Start(p) \/ Step(p),
         NEW e \in Entries, disk'[e] # disk[e]
  PROVE  p \in excl[Writer] /\ (p \in excl[e] \/ e \in Temps)
<1> JobOK(p)
  BY DEF JobInv
<1> USE DEF TypeOK, JobOK, LockInv, WriterHeldBy, EntryHeldBy, DiskInv,
            RemovalLocked, Entries, Labels, WriterLabels, EntryLabels,
            EnsureLabels, TempLabels, DiffLabels, RoomLabels, RemoveLabels
<1>1. ASSUME NEW s \in Snapshots, StartEnsure(p, s) PROVE p \in excl[Writer] /\ (p \in excl[e] \/ e \in Temps)
  BY <1>1 DEF StartEnsure, job, locks
<1>2. ASSUME NEW r \in Repos, NEW b \in Bases, StartDiff(p, r, b) PROVE p \in excl[Writer] /\ (p \in excl[e] \/ e \in Temps)
  BY <1>2 DEF StartDiff, job, locks
<1>3. ASSUME NEW root \in {Entries, Repos}, StartRemove(p, root) PROVE p \in excl[Writer] /\ (p \in excl[e] \/ e \in Temps)
  BY <1>3 DEF StartRemove, job, locks
<1>4. CASE AcquireWriter(p)
  BY <1>4 DEF AcquireWriter, job, locks
<1>5. CASE AcquireEntry(p)
  BY <1>5 DEF AcquireEntry, job, locks
<1>6. CASE Discard(p)
  BY <1>6, Distinct DEF Discard, Discarded
<1>7. CASE Cancel(p)
  BY <1>7 DEF Cancel, job, locks
<1>8. CASE AcquireRead(p)
  BY <1>8 DEF AcquireRead, job, locks
<1>9. CASE Check(p)
  BY <1>9 DEF Check, job, locks
<1>10. CASE AcquireRecheck(p)
  BY <1>10 DEF AcquireRecheck, job, locks
<1>11. CASE Restat(p)
  BY <1>11 DEF Restat, job, locks
<1>12. CASE Confirm(p)
  BY <1>12, Distinct DEF Confirm, Discarded
<1>13. CASE MakeTemp(p)
  BY <1>13, Distinct DEF MakeTemp, Discarded
<1>14. CASE Extract(p)
  BY <1>14 DEF Extract, job, locks
<1>15. CASE ExtractFile(p)
  BY <1>15, Distinct DEF ExtractFile, Discarded
<1>16. CASE ExtractFails(p)
  BY <1>16 DEF ExtractFails, job, locks
<1>17. CASE WriteMetadata(p)
  BY <1>17, Distinct DEF WriteMetadata, Discarded
<1>18. CASE Publish(p)
  BY <1>18, Distinct DEF Publish, Discarded
<1>19. CASE ShareDrop(p)
  BY <1>19 DEF ShareDrop, job, locks
<1>20. CASE ShareTake(p)
  BY <1>20 DEF ShareTake, job, locks
<1>21. CASE Release(p)
  BY <1>21 DEF Release, job, locks
<1>22. CASE OpenRepo(p)
  BY <1>22, Distinct DEF OpenRepo, Discarded
<1>23. CASE InitRepo(p)
  BY <1>23, Distinct DEF InitRepo, Discarded
<1>24. CASE Fetch(p)
  BY <1>24 DEF Fetch, job, locks
<1>25. CASE Fetched(p)
  BY <1>25 DEF Fetched, job, locks
<1>26. CASE FetchFails(p)
  BY <1>26 DEF FetchFails, job, locks
<1>27. CASE Diff(p)
  BY <1>27 DEF Diff, job, locks
<1>28. CASE LockNext(p)
  BY <1>28 DEF LockNext, job, locks
<1>29. CASE LockBusy(p)
  BY <1>29 DEF LockBusy, job, locks
<1>30. CASE AllLocked(p)
  BY <1>30 DEF AllLocked, job, locks
<1>31. CASE RemoveSome(p)
  BY <1>31, Distinct DEF RemoveSome, Discarded
<1>32. CASE RemoveDone(p)
  BY <1>32 DEF RemoveDone, job, locks
<1>33. CASE Evict(p)
  BY <1>33 DEF Evict, job, locks
<1>34. CASE EvictPartly(p)
  BY <1>34, Distinct DEF EvictPartly, Discarded
<1>35. CASE EvictDone(p)
  BY <1>35, Distinct DEF EvictDone, Discarded
<1>36. CASE RoomMade(p)
  BY <1>36 DEF RoomMade, job, locks
<1>37. CASE NoRoom(p)
  BY <1>37 DEF NoRoom, job, locks
<1> QED
  BY <1>1, <1>2, <1>3, <1>4, <1>5, <1>6, <1>7, <1>8, <1>9, <1>10, <1>11,
     <1>12, <1>13, <1>14, <1>15, <1>16, <1>17, <1>18, <1>19, <1>20, <1>21,
     <1>22, <1>23, <1>24, <1>25, <1>26, <1>27, <1>28, <1>29, <1>30, <1>31,
     <1>32, <1>33, <1>34, <1>35, <1>36, <1>37
  DEF Start, Step, EnsureStep, DiffStep, RemoveStep, RoomStep

\* Nothing of request q changes: where it is, what it works on, what it holds.
Untouched(q) ==
  /\ pc'[q] = pc[q] /\ key'[q] = key[q] /\ base'[q] = base[q]
  /\ scope'[q] = scope[q] /\ temp'[q] = temp[q] /\ victim'[q] = victim[q]
  /\ resume'[q] = resume[q]
  /\ \A l \in Locks : (q \in excl'[l] <=> q \in excl[l])
                   /\ (q \in shared'[l] <=> q \in shared[l])

\* A step of one request changes nothing of another.
LEMMA OthersUntouched ==
  ASSUME TypeOK, JobInv, NEW p \in Procs, Start(p) \/ Step(p), NEW q \in Procs \ {p}
  PROVE  Untouched(q)
<1> JobOK(p)
  BY DEF JobInv
<1> USE DEF TypeOK, JobOK, Untouched, Goto, job, locks, LockExcl, LockShared, UnlockExcl,
            UnlockShared, UnlockAll, Locks, Entries, EnsureLabels, TempLabels, RoomLabels, DiffLabels
<1>1. ASSUME NEW s \in Snapshots, StartEnsure(p, s) PROVE Untouched(q)
  BY <1>1 DEF StartEnsure
<1>2. ASSUME NEW r \in Repos, NEW b \in Bases, StartDiff(p, r, b) PROVE Untouched(q)
  BY <1>2 DEF StartDiff
<1>3. ASSUME NEW root \in {Entries, Repos}, StartRemove(p, root) PROVE Untouched(q)
  BY <1>3 DEF StartRemove
<1>4. CASE AcquireWriter(p)
  BY <1>4 DEF AcquireWriter
<1>5. CASE AcquireEntry(p)
  BY <1>5 DEF AcquireEntry
<1>6. CASE Discard(p)
  BY <1>6 DEF Discard, Return
<1>7. CASE Cancel(p)
  BY <1>7 DEF Cancel, Return
<1>8. CASE AcquireRead(p)
  BY <1>8 DEF AcquireRead
<1>9. CASE Check(p)
  BY <1>9 DEF Check
<1>10. CASE AcquireRecheck(p)
  BY <1>10 DEF AcquireRecheck
<1>11. CASE Restat(p)
  BY <1>11 DEF Restat
<1>12. CASE Confirm(p)
  BY <1>12 DEF Confirm
<1>13. CASE MakeTemp(p)
  BY <1>13 DEF MakeTemp
<1>14. CASE Extract(p)
  BY <1>14 DEF Extract, Reserve
<1>15. CASE ExtractFile(p)
  BY <1>15 DEF ExtractFile
<1>16. CASE ExtractFails(p)
  BY <1>16 DEF ExtractFails
<1>17. CASE WriteMetadata(p)
  BY <1>17 DEF WriteMetadata
<1>18. CASE Publish(p)
  BY <1>18 DEF Publish
<1>19. CASE ShareDrop(p)
  BY <1>19 DEF ShareDrop
<1>20. CASE ShareTake(p)
  BY <1>20 DEF ShareTake
<1>21. CASE Release(p)
  BY <1>21 DEF Release, Return
<1>22. CASE OpenRepo(p)
  BY <1>22 DEF OpenRepo
<1>23. CASE InitRepo(p)
  BY <1>23 DEF InitRepo, Reserve
<1>24. CASE Fetch(p)
  BY <1>24 DEF Fetch, Reserve
<1>25. CASE Fetched(p)
  BY <1>25 DEF Fetched
<1>26. CASE FetchFails(p)
  BY <1>26 DEF FetchFails, Return
<1>27. CASE Diff(p)
  BY <1>27 DEF Diff, Return
<1>28. CASE LockNext(p)
  BY <1>28 DEF LockNext, Unlocked
<1>29. CASE LockBusy(p)
  BY <1>29 DEF LockBusy, Return
<1>30. CASE AllLocked(p)
  BY <1>30 DEF AllLocked
<1>31. CASE RemoveSome(p)
  BY <1>31 DEF RemoveSome
<1>32. CASE RemoveDone(p)
  BY <1>32 DEF RemoveDone, Return
<1>33. CASE Evict(p)
  BY <1>33 DEF Evict
<1>34. CASE EvictPartly(p)
  BY <1>34 DEF EvictPartly
<1>35. CASE EvictDone(p)
  BY <1>35 DEF EvictDone
<1>36. CASE RoomMade(p)
  BY <1>36 DEF RoomMade
<1>37. CASE NoRoom(p)
  BY <1>37 DEF NoRoom
<1> QED
  BY <1>1, <1>2, <1>3, <1>4, <1>5, <1>6, <1>7, <1>8, <1>9, <1>10, <1>11,
     <1>12, <1>13, <1>14, <1>15, <1>16, <1>17, <1>18, <1>19, <1>20, <1>21,
     <1>22, <1>23, <1>24, <1>25, <1>26, <1>27, <1>28, <1>29, <1>30, <1>31,
     <1>32, <1>33, <1>34, <1>35, <1>36, <1>37
  DEF Start, Step, EnsureStep, DiffStep, RemoveStep, RoomStep

\* Who changes a mirror holds the writer lock.
LEMMA MirrorNeedsLock ==
  ASSUME TypeOK, JobInv, LockInv, NEW p \in Procs, Start(p) \/ Step(p),
         NEW r \in Repos, mirror'[r] # mirror[r]
  PROVE  p \in excl[Writer]
<1> JobOK(p)
  BY DEF JobInv
<1> USE DEF TypeOK, LockInv, WriterHeldBy, WriterLabels, Labels
<1>1. ASSUME NEW s \in Snapshots, StartEnsure(p, s) PROVE p \in excl[Writer]
  BY <1>1 DEF StartEnsure
<1>2. ASSUME NEW q \in Repos, NEW b \in Bases, StartDiff(p, q, b) PROVE p \in excl[Writer]
  BY <1>2 DEF StartDiff
<1>3. ASSUME NEW root \in {Entries, Repos}, StartRemove(p, root) PROVE p \in excl[Writer]
  BY <1>3 DEF StartRemove
<1>4. CASE AcquireWriter(p)
  BY <1>4 DEF AcquireWriter
<1>5. CASE AcquireEntry(p)
  BY <1>5 DEF AcquireEntry
<1>6. CASE Discard(p)
  BY <1>6 DEF Discard, Return
<1>7. CASE Cancel(p)
  BY <1>7 DEF Cancel, Return
<1>8. CASE AcquireRead(p)
  BY <1>8 DEF AcquireRead
<1>9. CASE Check(p)
  BY <1>9 DEF Check
<1>10. CASE AcquireRecheck(p)
  BY <1>10 DEF AcquireRecheck
<1>11. CASE Restat(p)
  BY <1>11 DEF Restat
<1>12. CASE Confirm(p)
  BY <1>12 DEF Confirm
<1>13. CASE MakeTemp(p)
  BY <1>13 DEF MakeTemp
<1>14. CASE Extract(p)
  BY <1>14 DEF Extract, Reserve
<1>15. CASE ExtractFile(p)
  BY <1>15 DEF ExtractFile
<1>16. CASE ExtractFails(p)
  BY <1>16 DEF ExtractFails
<1>17. CASE WriteMetadata(p)
  BY <1>17 DEF WriteMetadata
<1>18. CASE Publish(p)
  BY <1>18 DEF Publish
<1>19. CASE ShareDrop(p)
  BY <1>19 DEF ShareDrop
<1>20. CASE ShareTake(p)
  BY <1>20 DEF ShareTake
<1>21. CASE Release(p)
  BY <1>21 DEF Release, Return
<1>22. CASE OpenRepo(p)
  BY <1>22 DEF OpenRepo
<1>23. CASE InitRepo(p)
  BY <1>23 DEF InitRepo, Reserve
<1>24. CASE Fetch(p)
  BY <1>24 DEF Fetch, Reserve
<1>25. CASE Fetched(p)
  BY <1>25 DEF Fetched
<1>26. CASE FetchFails(p)
  BY <1>26 DEF FetchFails, Return
<1>27. CASE Diff(p)
  BY <1>27 DEF Diff, Return
<1>28. CASE LockNext(p)
  BY <1>28 DEF LockNext
<1>29. CASE LockBusy(p)
  BY <1>29 DEF LockBusy, Return
<1>30. CASE AllLocked(p)
  BY <1>30 DEF AllLocked
<1>31. CASE RemoveSome(p)
  BY <1>31 DEF RemoveSome
<1>32. CASE RemoveDone(p)
  BY <1>32 DEF RemoveDone, Return
<1>33. CASE Evict(p)
  BY <1>33 DEF Evict
<1>34. CASE EvictPartly(p)
  BY <1>34 DEF EvictPartly
<1>35. CASE EvictDone(p)
  BY <1>35 DEF EvictDone
<1>36. CASE RoomMade(p)
  BY <1>36 DEF RoomMade
<1>37. CASE NoRoom(p)
  BY <1>37 DEF NoRoom
<1> QED
  BY <1>1, <1>2, <1>3, <1>4, <1>5, <1>6, <1>7, <1>8, <1>9, <1>10, <1>11,
     <1>12, <1>13, <1>14, <1>15, <1>16, <1>17, <1>18, <1>19, <1>20, <1>21,
     <1>22, <1>23, <1>24, <1>25, <1>26, <1>27, <1>28, <1>29, <1>30, <1>31,
     <1>32, <1>33, <1>34, <1>35, <1>36, <1>37
  DEF Start, Step, EnsureStep, DiffStep, RemoveStep, RoomStep

\* What p does cannot break what DiskInv says of q.
LEMMA OthersDiskOK ==
  ASSUME TypeOK, JobInv, LockInv, DiskInv, NEW p \in Procs, Start(p) \/ Step(p),
         NEW q \in Procs \ {p}
  PROVE  DiskOK(q)'
<1>1. Untouched(q)
  BY OthersUntouched
<1>2. DiskOK(q) /\ JobOK(q)
  BY DEF DiskInv, JobInv
<1>3. CASE pc[q] \in WriterLabels
  <2>1. p \notin excl[Writer]
    BY <1>3 DEF LockInv, WriterHeldBy, OneWriter
  <2>2. \A e \in Entries : disk'[e] = disk[e]
    BY <2>1, WriteNeedsLocks
  <2>3. \A r \in Repos : mirror'[r] = mirror[r]
    BY <2>1, MirrorNeedsLock
  <2> QED
    BY <1>1, <1>2, <1>3, <2>2, <2>3 DEF DiskOK, Untouched, At, TypeOK, JobOK,
       Entries, EnsureLabels, DiffLabels, RoomLabels, TempLabels, MissLabels,
       WriterLabels, Labels
<1>4. CASE pc[q] = "using"
  <2>1. key[q] \in Snapshots
    BY <1>2, <1>4 DEF JobOK, EnsureLabels
  <2>2. q \in shared[key[q]]
    BY <1>4, <2>1 DEF LockInv, ReadHeldBy, ReaderLabels, Entries
  <2>3. excl[key[q]] = {}
    BY <2>1, <2>2 DEF LockInv, Exclusion, Locks, Entries
  <2>4. disk'[key[q]] = disk[key[q]]
    BY <2>1, <2>3, WriteNeedsLocks, Distinct DEF Entries
  <2> QED
    BY <1>1, <1>2, <1>4, <2>4 DEF DiskOK, Untouched, At, JobOK, RoomLabels,
       TempLabels, MissLabels
<1>5. CASE pc[q] \notin WriterLabels \cup {"using"}
  BY <1>1, <1>2, <1>5 DEF DiskOK, Untouched, At, JobOK, RoomLabels, TempLabels,
     MissLabels, WriterLabels, TypeOK, Labels
<1> QED BY <1>3, <1>4, <1>5

\* A reader, and a writer that has only asked for the entry, find it settled.
LEMMA SettledUnlessRemoved ==
  ASSUME TypeOK, JobInv, LockInv, DiskInv, NEW p \in Procs,
         key[p] \in Snapshots,
         pc[p] \in ReaderLabels \cup WriterLabels
  PROVE  disk[key[p]] \in {Absent, Whole} \/ victim[p] = key[p] \/ pc[p] = "remove"
<1>1. Settled(key[p]) \/ BeingRemoved(key[p])
  BY DEF DiskInv, EntriesSettled
<1>2. ASSUME BeingRemoved(key[p]) PROVE victim[p] = key[p] \/ pc[p] = "remove"
  <2>1. PICK h \in excl[key[p]] :
          victim[h] = key[p] \/ (pc[h] = "remove" /\ key[p] \in scope[h])
    BY <1>2 DEF BeingRemoved
  <2>2. h \in excl[Writer]
    BY <2>1 DEF LockInv, WriterGuardsEntries, Entries
  <2>3. p \notin shared[key[p]]
    BY <2>1 DEF LockInv, Exclusion, Locks, Entries
  <2>4. p \in excl[Writer]
    BY <2>3 DEF LockInv, ReadHeldBy, WriterHeldBy, Entries
  <2>5. h = p
    BY <2>2, <2>4 DEF LockInv, OneWriter
  <2> QED BY <2>1, <2>5
<1> QED BY <1>1, <1>2 DEF Settled

\* What p does keeps what DiskInv says of p.
LEMMA OwnDiskOK ==
  ASSUME TypeOK, JobInv, LockInv, DiskInv, NEW p \in Procs, Start(p) \/ Step(p)
  PROVE  DiskOK(p)'
<1> JobOK(p) /\ DiskOK(p)
  BY DEF JobInv, DiskInv
<1>a. key[p] \in Snapshots /\ pc[p] \in ReaderLabels \cup WriterLabels
      => disk[key[p]] \in {Absent, Whole} \/ victim[p] = key[p] \/ pc[p] = "remove"
  BY SettledUnlessRemoved
<1> USE DEF TypeOK, JobOK, DiskOK, At, MissLabels, Goto, job, Labels, EnsureLabels,
            TempLabels, DiffLabels, RoomLabels, RemoveLabels, Entries
<1>1. ASSUME NEW s \in Snapshots, StartEnsure(p, s) PROVE DiskOK(p)'
  BY <1>1, <1>a, Distinct DEF StartEnsure, HasSnapshot, Absent, Whole,
     ReaderLabels, WriterLabels
<1>2. ASSUME NEW r \in Repos, NEW b \in Bases, StartDiff(p, r, b) PROVE DiskOK(p)'
  BY <1>2, <1>a, Distinct DEF StartDiff, HasSnapshot, Absent, Whole,
     ReaderLabels, WriterLabels
<1>3. ASSUME NEW root \in {Entries, Repos}, StartRemove(p, root) PROVE DiskOK(p)'
  BY <1>3, <1>a, Distinct DEF StartRemove, HasSnapshot, Absent, Whole,
     ReaderLabels, WriterLabels
<1>4. CASE AcquireWriter(p)
  BY <1>4, <1>a, Distinct DEF AcquireWriter, HasSnapshot, Absent, Whole,
     ReaderLabels, WriterLabels
<1>5. CASE AcquireEntry(p)
  BY <1>5, <1>a, Distinct DEF AcquireEntry, HasSnapshot, Absent, Whole,
     ReaderLabels, WriterLabels
<1>6. CASE Discard(p)
  BY <1>6, <1>a, Distinct DEF Discard, Return, HasSnapshot, Absent, Whole,
     ReaderLabels, WriterLabels
<1>7. CASE Cancel(p)
  BY <1>7, <1>a, Distinct DEF Cancel, Return, HasSnapshot, Absent, Whole,
     ReaderLabels, WriterLabels
<1>8. CASE AcquireRead(p)
  BY <1>8, <1>a, Distinct DEF AcquireRead, HasSnapshot, Absent, Whole,
     ReaderLabels, WriterLabels
<1>9. CASE Check(p)
  <2>1. key[p] \in Snapshots /\ disk[key[p]] \in {Absent, Whole}
    BY <1>9, <1>a, Distinct DEF Check, ReaderLabels, Locks
  <2>2. CASE HasSnapshot(key[p])
    BY <1>9, <2>1, <2>2, Distinct DEF Check, HasSnapshot, Absent
  <2>3. CASE ~HasSnapshot(key[p])
    BY <1>9, <2>1, <2>3, Distinct DEF Check, HasSnapshot, Whole
  <2> QED BY <2>2, <2>3
<1>10. CASE AcquireRecheck(p)
  BY <1>10, <1>a, Distinct DEF AcquireRecheck, HasSnapshot, Absent, Whole,
     ReaderLabels, WriterLabels
<1>11. CASE Restat(p)
  <2>1. key[p] \in Snapshots /\ disk[key[p]] \in {Absent, Whole}
    BY <1>11, <1>a, Distinct DEF Restat, ReaderLabels, Locks
  <2>2. CASE HasSnapshot(key[p])
    BY <1>11, <2>1, <2>2, Distinct DEF Restat, HasSnapshot, Absent
  <2>3. CASE ~HasSnapshot(key[p])
    BY <1>11, <2>1, <2>3, Distinct DEF Restat, HasSnapshot, Whole
  <2> QED BY <2>2, <2>3
<1>12. CASE Confirm(p)
  <2>1. key[p] \in Snapshots /\ disk[key[p]] = Absent /\ temp[p] = None
    BY <1>12 DEF Confirm
  <2>2. ~HasSnapshot(key[p])
    BY <2>1 DEF HasSnapshot, Absent
  <2>3. disk'[key[p]] = disk[key[p]]
    BY <1>12, <2>1, <2>2, Distinct DEF Confirm
  <2> QED BY <1>12, <2>1, <2>2, <2>3, Distinct DEF Confirm
<1>13. CASE MakeTemp(p)
  <2>1. key[p] \in Snapshots /\ disk[key[p]] = Absent
    BY <1>13 DEF MakeTemp
  <2>2. PICK t \in Temps : /\ temp' = [temp EXCEPT ![p] = t]
                          /\ disk' = [disk EXCEPT ![t] = [Absent EXCEPT !.dir = TRUE]]
    BY <1>13 DEF MakeTemp
  <2>3. disk'[key[p]] = Absent /\ disk'[t].dir
    BY <2>1, <2>2, Distinct DEF Absent
  <2> QED BY <1>13, <2>1, <2>2, <2>3, Distinct DEF MakeTemp
<1>14. CASE Extract(p)
  BY <1>14, <1>a, Distinct DEF Extract, Reserve, HasSnapshot, Absent, Whole,
     ReaderLabels, WriterLabels
<1>15. CASE ExtractFile(p)
  <2>1. key[p] \in Snapshots /\ temp[p] \in Temps /\ disk[key[p]] = Absent
    BY <1>15 DEF ExtractFile
  <2>2. disk'[key[p]] = Absent /\ disk'[temp[p]].dir = disk[temp[p]].dir
    BY <1>15, <2>1, Distinct DEF ExtractFile, Contents
  <2> QED BY <1>15, <2>1, <2>2, Distinct DEF ExtractFile
<1>16. CASE ExtractFails(p)
  BY <1>16, <1>a, Distinct DEF ExtractFails, HasSnapshot, Absent, Whole,
     ReaderLabels, WriterLabels
<1>17. CASE WriteMetadata(p)
  <2>1. key[p] \in Snapshots /\ temp[p] \in Temps /\ disk[key[p]] = Absent
    BY <1>17 DEF WriteMetadata
  <2>2. disk[temp[p]] \in Contents /\ disk[temp[p]].dir /\ disk[temp[p]].tree = "all"
    BY <1>17, <2>1 DEF WriteMetadata
  <2>3. disk'[key[p]] = Absent /\ disk'[temp[p]] = Whole
    BY <1>17, <2>1, <2>2, Distinct DEF WriteMetadata, Contents, Whole
  <2>4. disk'[temp[p]].dir
    BY <2>3 DEF Whole
  <2> QED BY <1>17, <2>1, <2>3, <2>4, Distinct DEF WriteMetadata
<1>18. CASE Publish(p)
  BY <1>18, <1>a, Distinct DEF Publish, HasSnapshot, Absent, Whole,
     ReaderLabels, WriterLabels
<1>19. CASE ShareDrop(p)
  BY <1>19, <1>a, Distinct DEF ShareDrop, HasSnapshot, Absent, Whole,
     ReaderLabels, WriterLabels
<1>20. CASE ShareTake(p)
  BY <1>20, <1>a, Distinct DEF ShareTake, HasSnapshot, Absent, Whole,
     ReaderLabels, WriterLabels
<1>21. CASE Release(p)
  BY <1>21, <1>a, Distinct DEF Release, Return, HasSnapshot, Absent, Whole,
     ReaderLabels, WriterLabels
<1>22. CASE OpenRepo(p)
  <2>1. key[p] \in Repos /\ temp[p] = None
    BY <1>22, Distinct DEF OpenRepo
  <2>2. Settled(key[p]) \/ BeingRemoved(key[p])
    BY <2>1 DEF DiskInv, EntriesSettled
  <2>3. ~BeingRemoved(key[p])
    <3> SUFFICES ASSUME NEW h \in excl[key[p]],
                        victim[h] = key[p] \/ pc[h] = "remove"
                 PROVE  FALSE
      BY DEF BeingRemoved
    <3>1. h \in excl[Writer] /\ p \in excl[Writer]
      BY <1>22, <2>1 DEF OpenRepo, LockInv, WriterGuardsEntries, WriterHeldBy,
         WriterLabels
    <3>2. h = p
      BY <3>1 DEF LockInv, OneWriter
    <3> QED BY <1>22, <2>1, <3>2, Distinct DEF OpenRepo, Locks
  <2>4. disk[key[p]].tree # "part"
    BY <2>1, <2>2, <2>3, Distinct DEF Settled
  <2>5. CASE pc'[p] = "fetch"
    <3>1. disk[key[p]].tree = "all" /\ disk' = disk
      BY <1>22, <2>1, <2>4, <2>5 DEF OpenRepo, Contents, Trees
    <3> QED BY <1>22, <2>1, <2>5, <3>1, Distinct DEF OpenRepo
  <2>6. CASE pc'[p] = "init"
    BY <1>22, <2>1, <2>6, Distinct DEF OpenRepo
  <2> QED BY <1>22, <2>5, <2>6 DEF OpenRepo
<1>23. CASE InitRepo(p)
  BY <1>23, <1>a, Distinct DEF InitRepo, Reserve, HasSnapshot, Absent, Whole,
     ReaderLabels, WriterLabels
<1>24. CASE Fetch(p)
  BY <1>24, <1>a, Distinct DEF Fetch, Reserve, HasSnapshot, Absent, Whole,
     ReaderLabels, WriterLabels
<1>25. CASE Fetched(p)
  BY <1>25, <1>a, Distinct DEF Fetched, HasSnapshot, Absent, Whole,
     ReaderLabels, WriterLabels
<1>26. CASE FetchFails(p)
  BY <1>26, <1>a, Distinct DEF FetchFails, Return, HasSnapshot, Absent, Whole,
     ReaderLabels, WriterLabels
<1>27. CASE Diff(p)
  BY <1>27, <1>a, Distinct DEF Diff, Return, HasSnapshot, Absent, Whole,
     ReaderLabels, WriterLabels
<1>28. CASE LockNext(p)
  BY <1>28, <1>a, Distinct DEF LockNext, HasSnapshot, Absent, Whole,
     ReaderLabels, WriterLabels
<1>29. CASE LockBusy(p)
  BY <1>29, <1>a, Distinct DEF LockBusy, Return, HasSnapshot, Absent, Whole,
     ReaderLabels, WriterLabels
<1>30. CASE AllLocked(p)
  BY <1>30, <1>a, Distinct DEF AllLocked, HasSnapshot, Absent, Whole,
     ReaderLabels, WriterLabels
<1>31. CASE RemoveSome(p)
  BY <1>31, <1>a, Distinct DEF RemoveSome, HasSnapshot, Absent, Whole,
     ReaderLabels, WriterLabels
<1>32. CASE RemoveDone(p)
  BY <1>32, <1>a, Distinct DEF RemoveDone, Return, HasSnapshot, Absent, Whole,
     ReaderLabels, WriterLabels
<1>33. CASE Evict(p)
  BY <1>33, <1>a, Distinct DEF Evict, HasSnapshot, Absent, Whole,
     ReaderLabels, WriterLabels
<1>34. CASE EvictPartly(p)
  <2>1. victim[p] \in Entries /\ victim[p] # key[p] /\ key[p] \in Entries
    BY <1>34, Distinct DEF EvictPartly, LockInv, VictimApart
  <2>2. victim[p] # temp[p]
    BY <1>34 DEF EvictPartly
  <2>3. \A e \in Entries : e # victim[p] => disk'[e] = disk[e]
    BY <1>34, <2>1 DEF EvictPartly
  <2>4. temp[p] # None => disk'[temp[p]] = disk[temp[p]]
    BY <2>2, <2>3
  <2>5. disk'[key[p]] = disk[key[p]]
    BY <2>1, <2>3
  <2> QED BY <1>34, <2>1, <2>4, <2>5, Distinct DEF EvictPartly
<1>35. CASE EvictDone(p)
  <2>1. victim[p] \in Entries /\ victim[p] # key[p] /\ key[p] \in Entries
    BY <1>35, Distinct DEF EvictDone, LockInv, VictimApart
  <2>2. victim[p] # temp[p]
    BY <1>35 DEF EvictDone
  <2>3. \A e \in Entries : e # victim[p] => disk'[e] = disk[e]
    BY <1>35, <2>1 DEF EvictDone
  <2>4. temp[p] # None => disk'[temp[p]] = disk[temp[p]]
    BY <2>2, <2>3
  <2>5. disk'[key[p]] = disk[key[p]]
    BY <2>1, <2>3
  <2> QED BY <1>35, <2>1, <2>4, <2>5, Distinct DEF EvictDone
<1>36. CASE RoomMade(p)
  BY <1>36, <1>a, Distinct DEF RoomMade, HasSnapshot, Absent, Whole,
     ReaderLabels, WriterLabels
<1>37. CASE NoRoom(p)
  BY <1>37, <1>a, Distinct DEF NoRoom, HasSnapshot, Absent, Whole,
     ReaderLabels, WriterLabels
<1> QED
  BY <1>1, <1>2, <1>3, <1>4, <1>5, <1>6, <1>7, <1>8, <1>9, <1>10, <1>11,
     <1>12, <1>13, <1>14, <1>15, <1>16, <1>17, <1>18, <1>19, <1>20, <1>21,
     <1>22, <1>23, <1>24, <1>25, <1>26, <1>27, <1>28, <1>29, <1>30, <1>31,
     <1>32, <1>33, <1>34, <1>35, <1>36, <1>37
  DEF Start, Step, EnsureStep, DiffStep, RemoveStep, RoomStep

\* RemoveTree never stands before an entry it has not locked.
LEMMA RemovalLockedPreserved ==
  ASSUME TypeOK, JobInv, LockInv, DiskInv, NEW p \in Procs, Start(p) \/ Step(p)
  PROVE  RemovalLocked'
<1> SUFFICES ASSUME NEW q \in Procs, pc'[q] = "remove",
                    NEW e \in scope'[q], disk'[e].dir
             PROVE  q \in excl'[e]
  BY DEF RemovalLocked
<1>1. CASE q # p
  <2>1. Untouched(q)
    BY <1>1, OthersUntouched
  <2>2. e \in Entries
    BY <2>1 DEF Untouched, TypeOK
  <2>3. p \notin excl[Writer]
    BY <1>1, <2>1 DEF Untouched, LockInv, WriterHeldBy, OneWriter, WriterLabels, Labels
  <2>4. disk'[e] = disk[e]
    BY <2>2, <2>3, WriteNeedsLocks
  <2> QED BY <2>1, <2>2, <2>4 DEF Untouched, DiskInv, RemovalLocked, Locks
<1>2. CASE q = p
  <2>1. AllLocked(p) \/ RemoveSome(p)
    <3> JobOK(p)
      BY DEF JobInv
    <3> USE <1>2 DEF TypeOK, JobOK, Goto, job, RoomLabels
    <3>1. ASSUME NEW s \in Snapshots, StartEnsure(p, s) PROVE AllLocked(p) \/ RemoveSome(p)
      BY <3>1 DEF StartEnsure
    <3>2. ASSUME NEW r \in Repos, NEW b \in Bases, StartDiff(p, r, b) PROVE AllLocked(p) \/ RemoveSome(p)
      BY <3>2 DEF StartDiff
    <3>3. ASSUME NEW root \in {Entries, Repos}, StartRemove(p, root) PROVE AllLocked(p) \/ RemoveSome(p)
      BY <3>3 DEF StartRemove
    <3>4. CASE AcquireWriter(p)
      BY <3>4 DEF AcquireWriter
    <3>5. CASE AcquireEntry(p)
      BY <3>5 DEF AcquireEntry
    <3>6. CASE Discard(p)
      BY <3>6 DEF Discard, Return
    <3>7. CASE Cancel(p)
      BY <3>7 DEF Cancel, Return
    <3>8. CASE AcquireRead(p)
      BY <3>8 DEF AcquireRead
    <3>9. CASE Check(p)
      BY <3>9 DEF Check
    <3>10. CASE AcquireRecheck(p)
      BY <3>10 DEF AcquireRecheck
    <3>11. CASE Restat(p)
      BY <3>11 DEF Restat
    <3>12. CASE Confirm(p)
      BY <3>12 DEF Confirm
    <3>13. CASE MakeTemp(p)
      BY <3>13 DEF MakeTemp
    <3>14. CASE Extract(p)
      BY <3>14 DEF Extract, Reserve
    <3>15. CASE ExtractFile(p)
      BY <3>15 DEF ExtractFile
    <3>16. CASE ExtractFails(p)
      BY <3>16 DEF ExtractFails
    <3>17. CASE WriteMetadata(p)
      BY <3>17 DEF WriteMetadata
    <3>18. CASE Publish(p)
      BY <3>18 DEF Publish
    <3>19. CASE ShareDrop(p)
      BY <3>19 DEF ShareDrop
    <3>20. CASE ShareTake(p)
      BY <3>20 DEF ShareTake
    <3>21. CASE Release(p)
      BY <3>21 DEF Release, Return
    <3>22. CASE OpenRepo(p)
      BY <3>22 DEF OpenRepo
    <3>23. CASE InitRepo(p)
      BY <3>23 DEF InitRepo, Reserve
    <3>24. CASE Fetch(p)
      BY <3>24 DEF Fetch, Reserve
    <3>25. CASE Fetched(p)
      BY <3>25 DEF Fetched
    <3>26. CASE FetchFails(p)
      BY <3>26 DEF FetchFails, Return
    <3>27. CASE Diff(p)
      BY <3>27 DEF Diff, Return
    <3>28. CASE LockNext(p)
      BY <3>28 DEF LockNext
    <3>29. CASE LockBusy(p)
      BY <3>29 DEF LockBusy, Return
    <3>30. CASE AllLocked(p)
      BY <3>30 DEF AllLocked
    <3>31. CASE RemoveSome(p)
      BY <3>31 DEF RemoveSome
    <3>32. CASE RemoveDone(p)
      BY <3>32 DEF RemoveDone, Return
    <3>33. CASE Evict(p)
      BY <3>33 DEF Evict
    <3>34. CASE EvictPartly(p)
      BY <3>34 DEF EvictPartly
    <3>35. CASE EvictDone(p)
      BY <3>35 DEF EvictDone
    <3>36. CASE RoomMade(p)
      BY <3>36 DEF RoomMade
    <3>37. CASE NoRoom(p)
      BY <3>37 DEF NoRoom
    <3> QED
      BY <3>1, <3>2, <3>3, <3>4, <3>5, <3>6, <3>7, <3>8, <3>9, <3>10, <3>11,
         <3>12, <3>13, <3>14, <3>15, <3>16, <3>17, <3>18, <3>19, <3>20, <3>21,
         <3>22, <3>23, <3>24, <3>25, <3>26, <3>27, <3>28, <3>29, <3>30, <3>31,
         <3>32, <3>33, <3>34, <3>35, <3>36, <3>37
      DEF Start, Step, EnsureStep, DiffStep, RemoveStep, RoomStep
  <2>2. CASE AllLocked(p)
    <3>1. e \in scope[p] /\ disk[e].dir /\ e \in Entries /\ pc[p] = "lockall"
      BY <1>2, <2>2 DEF AllLocked, job, TypeOK
    <3>2. excl' = excl
      BY <2>2 DEF AllLocked, locks
    <3>3. SUFFICES ASSUME p \notin excl[e] PROVE FALSE
      BY <1>2, <3>2
    <3>4. ~Listed(e)
      BY <2>2, <3>1, <3>3 DEF AllLocked, Unlocked
    <3>5. e \in Snapshots /\ ~disk[e].meta
      BY <3>1, <3>4 DEF Listed
    <3>6. BeingRemoved(e)
      BY <3>1, <3>5 DEF DiskInv, EntriesSettled, Settled, Absent, Whole
    <3>7. PICK h \in excl[e] : TRUE
      BY <3>6 DEF BeingRemoved
    <3>8. h \in excl[Writer] /\ p \in excl[Writer]
      BY <3>1, <3>7 DEF LockInv, WriterGuardsEntries, WriterHeldBy, WriterLabels, Labels
    <3> QED BY <3>3, <3>7, <3>8 DEF LockInv, OneWriter
  <2>3. CASE RemoveSome(p)
    <3>1. e \in scope[p] /\ excl' = excl /\ pc[p] = "remove"
      BY <1>2, <2>3 DEF RemoveSome, job, locks
    <3>2. disk[e].dir
      BY <2>3, <3>1 DEF RemoveSome, TypeOK
    <3> QED BY <1>2, <3>1, <3>2 DEF DiskInv, RemovalLocked
  <2> QED BY <2>1, <2>2, <2>3
<1> QED BY <1>1, <1>2

\* A partial tree is seen only while its remover holds the entry.
LEMMA SettledPreserved ==
  ASSUME TypeOK, JobInv, LockInv, DiskInv, NEW p \in Procs, Start(p) \/ Step(p)
  PROVE  EntriesSettled'
<1> SUFFICES ASSUME NEW e \in Snapshots \cup Repos
             PROVE  (Settled(e) \/ BeingRemoved(e))'
  BY DEF EntriesSettled
<1> JobOK(p) /\ DiskOK(p)
  BY DEF JobInv, DiskInv
<1>0. e \in Entries /\ e \in Locks /\ (Settled(e) \/ BeingRemoved(e))
  BY DEF DiskInv, EntriesSettled, Entries, Locks
<1>1. CASE disk'[e] = disk[e] /\ Settled(e)
  BY <1>1 DEF Settled
<1>2. CASE disk'[e] = disk[e] /\ BeingRemoved(e)
  <2>1. PICK h \in excl[e] : victim[h] = e \/ (pc[h] = "remove" /\ e \in scope[h])
    BY <1>2 DEF BeingRemoved
  <2>2. h \in Procs
    BY <1>0 DEF TypeOK
  <2>3. CASE h # p
    <3>1. Untouched(h)
      BY <2>2, <2>3, OthersUntouched
    <3> QED BY <1>0, <1>2, <2>1, <3>1 DEF Untouched, BeingRemoved
  <2>4. CASE h = p
    <3>1. pc[p] \in {"evicting", "remove"} /\ e # None
      BY <1>0, <2>1, <2>4, Distinct DEF JobOK
    <3>2. EvictPartly(p) \/ EvictDone(p) \/ RemoveSome(p) \/ RemoveDone(p)
      <4> USE <3>1
      <4>1. ASSUME NEW s \in Snapshots, StartEnsure(p, s) PROVE EvictPartly(p) \/ EvictDone(p) \/ RemoveSome(p) \/ RemoveDone(p)
        BY <4>1 DEF StartEnsure
      <4>2. ASSUME NEW r \in Repos, NEW b \in Bases, StartDiff(p, r, b) PROVE EvictPartly(p) \/ EvictDone(p) \/ RemoveSome(p) \/ RemoveDone(p)
        BY <4>2 DEF StartDiff
      <4>3. ASSUME NEW root \in {Entries, Repos}, StartRemove(p, root) PROVE EvictPartly(p) \/ EvictDone(p) \/ RemoveSome(p) \/ RemoveDone(p)
        BY <4>3 DEF StartRemove
      <4>4. CASE AcquireWriter(p)
        BY <4>4 DEF AcquireWriter
      <4>5. CASE AcquireEntry(p)
        BY <4>5 DEF AcquireEntry
      <4>6. CASE Discard(p)
        BY <4>6 DEF Discard, Return
      <4>7. CASE Cancel(p)
        BY <4>7 DEF Cancel, Return
      <4>8. CASE AcquireRead(p)
        BY <4>8 DEF AcquireRead
      <4>9. CASE Check(p)
        BY <4>9 DEF Check
      <4>10. CASE AcquireRecheck(p)
        BY <4>10 DEF AcquireRecheck
      <4>11. CASE Restat(p)
        BY <4>11 DEF Restat
      <4>12. CASE Confirm(p)
        BY <4>12 DEF Confirm
      <4>13. CASE MakeTemp(p)
        BY <4>13 DEF MakeTemp
      <4>14. CASE Extract(p)
        BY <4>14 DEF Extract, Reserve
      <4>15. CASE ExtractFile(p)
        BY <4>15 DEF ExtractFile
      <4>16. CASE ExtractFails(p)
        BY <4>16 DEF ExtractFails
      <4>17. CASE WriteMetadata(p)
        BY <4>17 DEF WriteMetadata
      <4>18. CASE Publish(p)
        BY <4>18 DEF Publish
      <4>19. CASE ShareDrop(p)
        BY <4>19 DEF ShareDrop
      <4>20. CASE ShareTake(p)
        BY <4>20 DEF ShareTake
      <4>21. CASE Release(p)
        BY <4>21 DEF Release, Return
      <4>22. CASE OpenRepo(p)
        BY <4>22 DEF OpenRepo
      <4>23. CASE InitRepo(p)
        BY <4>23 DEF InitRepo, Reserve
      <4>24. CASE Fetch(p)
        BY <4>24 DEF Fetch, Reserve
      <4>25. CASE Fetched(p)
        BY <4>25 DEF Fetched
      <4>26. CASE FetchFails(p)
        BY <4>26 DEF FetchFails, Return
      <4>27. CASE Diff(p)
        BY <4>27 DEF Diff, Return
      <4>28. CASE LockNext(p)
        BY <4>28 DEF LockNext
      <4>29. CASE LockBusy(p)
        BY <4>29 DEF LockBusy, Return
      <4>30. CASE AllLocked(p)
        BY <4>30 DEF AllLocked
      <4>31. CASE RemoveSome(p)
        BY <4>31 DEF RemoveSome
      <4>32. CASE RemoveDone(p)
        BY <4>32 DEF RemoveDone, Return
      <4>33. CASE Evict(p)
        BY <4>33 DEF Evict
      <4>34. CASE EvictPartly(p)
        BY <4>34 DEF EvictPartly
      <4>35. CASE EvictDone(p)
        BY <4>35 DEF EvictDone
      <4>36. CASE RoomMade(p)
        BY <4>36 DEF RoomMade
      <4>37. CASE NoRoom(p)
        BY <4>37 DEF NoRoom
      <4> QED
        BY <4>1, <4>2, <4>3, <4>4, <4>5, <4>6, <4>7, <4>8, <4>9, <4>10, <4>11,
           <4>12, <4>13, <4>14, <4>15, <4>16, <4>17, <4>18, <4>19, <4>20, <4>21,
           <4>22, <4>23, <4>24, <4>25, <4>26, <4>27, <4>28, <4>29, <4>30, <4>31,
           <4>32, <4>33, <4>34, <4>35, <4>36, <4>37
        DEF Start, Step, EnsureStep, DiffStep, RemoveStep, RoomStep
    <3>3. CASE EvictPartly(p) \/ RemoveSome(p)
      BY <1>0, <1>2, <2>1, <2>4, <3>3 DEF EvictPartly, RemoveSome, job, locks, BeingRemoved
    <3>4. CASE EvictDone(p)
      <4>1. victim[p] = e
        BY <2>1, <2>4, <3>4 DEF EvictDone
      <4> QED BY <1>0, <3>4, <4>1 DEF EvictDone, Settled, TypeOK, Absent
    <3>5. CASE RemoveDone(p)
      BY <1>2, <2>1, <2>4, <3>5, <1>0, Distinct DEF RemoveDone, BeingRemoved, JobOK
    <3> QED BY <3>2, <3>3, <3>4, <3>5
  <2> QED BY <2>3, <2>4
<1>3. CASE disk'[e] # disk[e]
  <2>a. p \in excl[e]
    BY <1>0, <1>3, WriteNeedsLocks, Distinct
  <2> USE <1>0, <1>3, <2>a, Distinct DEF TypeOK, JobOK, DiskOK, Settled, Locks, Entries,
                                        TempLabels, DiffLabels, RoomLabels, EnsureLabels
  <2>1. ASSUME NEW s \in Snapshots, StartEnsure(p, s) PROVE (Settled(e) \/ BeingRemoved(e))'
    BY <2>1 DEF StartEnsure, job, locks
  <2>2. ASSUME NEW r \in Repos, NEW b \in Bases, StartDiff(p, r, b) PROVE (Settled(e) \/ BeingRemoved(e))'
    BY <2>2 DEF StartDiff, job, locks
  <2>3. ASSUME NEW root \in {Entries, Repos}, StartRemove(p, root) PROVE (Settled(e) \/ BeingRemoved(e))'
    BY <2>3 DEF StartRemove, job, locks
  <2>4. CASE AcquireWriter(p)
    BY <2>4 DEF AcquireWriter, job, locks
  <2>5. CASE AcquireEntry(p)
    BY <2>5 DEF AcquireEntry, job, locks
  <2>6. CASE Discard(p)
    BY <2>6 DEF Discard, Discarded, Absent, Whole, job, At, Contents
  <2>7. CASE Cancel(p)
    BY <2>7 DEF Cancel, job, locks
  <2>8. CASE AcquireRead(p)
    BY <2>8 DEF AcquireRead, job, locks
  <2>9. CASE Check(p)
    BY <2>9 DEF Check, job, locks
  <2>10. CASE AcquireRecheck(p)
    BY <2>10 DEF AcquireRecheck, job, locks
  <2>11. CASE Restat(p)
    BY <2>11 DEF Restat, job, locks
  <2>12. CASE Confirm(p)
    BY <2>12 DEF Confirm, Discarded, Absent, Whole, job, At, Contents
  <2>13. CASE MakeTemp(p)
    BY <2>13 DEF MakeTemp, Discarded, Absent, Whole, job, At, Contents
  <2>14. CASE Extract(p)
    BY <2>14 DEF Extract, job, locks
  <2>15. CASE ExtractFile(p)
    BY <2>15 DEF ExtractFile, Discarded, Absent, Whole, job, At, Contents
  <2>16. CASE ExtractFails(p)
    BY <2>16 DEF ExtractFails, job, locks
  <2>17. CASE WriteMetadata(p)
    BY <2>17 DEF WriteMetadata, Discarded, Absent, Whole, job, At, Contents
  <2>18. CASE Publish(p)
    BY <2>18 DEF Publish, Discarded, Absent, Whole, job, At, Contents
  <2>19. CASE ShareDrop(p)
    BY <2>19 DEF ShareDrop, job, locks
  <2>20. CASE ShareTake(p)
    BY <2>20 DEF ShareTake, job, locks
  <2>21. CASE Release(p)
    BY <2>21 DEF Release, job, locks
  <2>22. CASE OpenRepo(p)
    BY <2>22 DEF OpenRepo, Discarded, Absent, Whole, job, At, Contents
  <2>23. CASE InitRepo(p)
    BY <2>23 DEF InitRepo, Discarded, Absent, Whole, job, At, Contents
  <2>24. CASE Fetch(p)
    BY <2>24 DEF Fetch, job, locks
  <2>25. CASE Fetched(p)
    BY <2>25 DEF Fetched, job, locks
  <2>26. CASE FetchFails(p)
    BY <2>26 DEF FetchFails, job, locks
  <2>27. CASE Diff(p)
    BY <2>27 DEF Diff, job, locks
  <2>28. CASE LockNext(p)
    BY <2>28 DEF LockNext, job, locks
  <2>29. CASE LockBusy(p)
    BY <2>29 DEF LockBusy, job, locks
  <2>30. CASE AllLocked(p)
    BY <2>30 DEF AllLocked, job, locks
  <2>31. CASE RemoveSome(p)
    <3>1. disk'[e] \in Remains(disk[e]) \cup {Absent} /\ UNCHANGED <<excl, victim, pc, scope>>
      BY <2>31 DEF RemoveSome, job, locks
    <3>2. victim[p] = e \/ (pc[p] = "remove" /\ e \in scope[p])
      BY <2>31 DEF RemoveSome
    <3>3. CASE disk'[e] = Absent
      BY <3>3 DEF Absent
    <3> QED BY <3>1, <3>2, <3>3 DEF Remains, BeingRemoved
  <2>32. CASE RemoveDone(p)
    BY <2>32 DEF RemoveDone, job, locks
  <2>33. CASE Evict(p)
    BY <2>33 DEF Evict, job, locks
  <2>34. CASE EvictPartly(p)
    <3>1. disk'[e] \in Remains(disk[e]) \cup {Absent} /\ UNCHANGED <<excl, victim, pc, scope>>
      BY <2>34 DEF EvictPartly, job, locks
    <3>2. victim[p] = e \/ (pc[p] = "remove" /\ e \in scope[p])
      BY <2>34 DEF EvictPartly
    <3>3. CASE disk'[e] = Absent
      BY <3>3 DEF Absent
    <3> QED BY <3>1, <3>2, <3>3 DEF Remains, BeingRemoved
  <2>35. CASE EvictDone(p)
    BY <2>35 DEF EvictDone, Discarded, Absent, Whole, job, At, Contents
  <2>36. CASE RoomMade(p)
    BY <2>36 DEF RoomMade, job, locks
  <2>37. CASE NoRoom(p)
    BY <2>37 DEF NoRoom, job, locks
  <2> QED
    BY <2>1, <2>2, <2>3, <2>4, <2>5, <2>6, <2>7, <2>8, <2>9, <2>10, <2>11,
       <2>12, <2>13, <2>14, <2>15, <2>16, <2>17, <2>18, <2>19, <2>20, <2>21,
       <2>22, <2>23, <2>24, <2>25, <2>26, <2>27, <2>28, <2>29, <2>30, <2>31,
       <2>32, <2>33, <2>34, <2>35, <2>36, <2>37
    DEF Start, Step, EnsureStep, DiffStep, RemoveStep, RoomStep
<1> QED BY <1>0, <1>1, <1>2, <1>3

-----------------------------------------------------------------------------
\* What is always true while nothing fails.
SafeInv == TypeOK /\ JobInv /\ LockInv /\ DiskInv

\* The invariant of the cache without faults.
LEMMA SafeInvariant == Spec => []SafeInv
<1>1. Init => SafeInv
  <2> SUFFICES ASSUME Init PROVE SafeInv
    OBVIOUS
  <2>1. TypeOK /\ JobInv /\ LockInv
    BY InitInv
  <2>2. EntriesSettled /\ RemovalLocked
    BY DEF Init, EntriesSettled, RemovalLocked, Settled, Entries, Absent
  <2>3. ASSUME NEW p \in Procs PROVE DiskOK(p)
    BY <2>3 DEF Init, DiskOK, At, MissLabels, TempLabels, RoomLabels
  <2> QED BY <2>1, <2>2, <2>3 DEF SafeInv, DiskInv
<1>2. SafeInv /\ [Next]_vars => SafeInv'
  <2> SUFFICES ASSUME SafeInv, [Next]_vars PROVE SafeInv'
    OBVIOUS
  <2>1. TypeOK' /\ JobInv' /\ LockInv'
    BY TypePreserved, JobPreserved, LockPreserved DEF SafeInv, FaultyNext
  <2>2. ASSUME NEW p \in Procs, Start(p) \/ Step(p) PROVE DiskInv'
    <3>1. EntriesSettled' /\ RemovalLocked'
      BY <2>2, SettledPreserved, RemovalLockedPreserved DEF SafeInv
    <3>2. ASSUME NEW q \in Procs PROVE DiskOK(q)'
      BY <2>2, OwnDiskOK, OthersDiskOK DEF SafeInv
    <3> QED BY <3>1, <3>2 DEF DiskInv
  <2>3. ASSUME UNCHANGED vars PROVE DiskInv'
    <3>1. EntriesSettled' /\ RemovalLocked'
      BY <2>3 DEF vars, SafeInv, DiskInv, EntriesSettled, Settled, BeingRemoved,
         RemovalLocked
    <3>2. ASSUME NEW q \in Procs PROVE DiskOK(q)'
      <4>1. DiskOK(q)
        BY DEF SafeInv, DiskInv
      <4> QED BY <2>3, <4>1 DEF vars, DiskOK, At
    <3> QED BY <3>1, <3>2 DEF DiskInv
  <2> QED BY <2>1, <2>2, <2>3 DEF Next, SafeInv
<1> QED BY <1>1, <1>2, PTL DEF Spec

\* "Publication is atomic" (snapshot.go:146): a commit directory whose lock is
\* free is complete or missing.
THEOREM PublicationIsAtomic == Spec => []PublicationAtomic
<1>1. SafeInv => PublicationAtomic
  BY DEF SafeInv, DiskInv, EntriesSettled, Settled, BeingRemoved, PublicationAtomic
<1> QED BY <1>1, SafeInvariant, PTL

\* A request that searches a snapshot finds all of it until Release
\* (snapshot.go:148).
THEOREM ReadersSeeWholeSnapshots == Spec => []PinnedIsWhole
<1>1. SafeInv => PinnedIsWhole
  BY DEF SafeInv, DiskInv, DiskOK, PinnedIsWhole
<1> QED BY <1>1, SafeInvariant, PTL

\* In the gap of Lock.Share nobody holds the entry and nobody can take it away:
\* an evictor would have the writer lock that the sharer has kept (cache.go:87).
THEOREM ShareGapIsSafe == Spec => []ShareKeepsSnapshot
<1>1. SafeInv => ShareKeepsSnapshot
  <2> SUFFICES ASSUME SafeInv, NEW p \in Procs, pc[p] = "sharing"
               PROVE  excl[key[p]] = {} /\ disk[key[p]] = Whole
    BY DEF ShareKeepsSnapshot
  <2>1. JobOK(p) /\ DiskOK(p)
    BY DEF SafeInv, JobInv, DiskInv
  <2>2. key[p] \in Snapshots /\ disk[key[p]] = Whole
    BY <2>1 DEF JobOK, DiskOK, EnsureLabels
  <2>3. ASSUME NEW h \in excl[key[p]] PROVE FALSE
    <3>1. h \in excl[Writer] /\ p \in excl[Writer]
      BY <2>2, <2>3 DEF SafeInv, LockInv, WriterGuardsEntries, WriterHeldBy, WriterLabels,
         Labels,
         Entries
    <3>2. h = p
      BY <3>1 DEF SafeInv, LockInv, OneWriter
    <3> QED
      BY <2>2, <2>3, <3>2 DEF SafeInv, LockInv, EntryHeldBy, EntryLabels, WriterLabels,
         RemoveLabels, Entries
  <2> QED
    BY <2>2, <2>3
<1> QED BY <1>1, SafeInvariant, PTL

\* os.Rename never finds the commit directory in its way, so no finished download
\* is thrown away (snapshot.go:227).
THEOREM DownloadsArePublished == Spec => []PublishFindsNoDirectory
<1>1. SafeInv => PublishFindsNoDirectory
  BY DEF SafeInv, JobInv, JobOK, DiskInv, DiskOK, EnsureLabels, MissLabels, TempLabels,
     PublishFindsNoDirectory
<1> QED BY <1>1, SafeInvariant, PTL

\* The mirror a diff reads holds the tip of the base ref of its own request,
\* although every request overwrites it (gitdiff.go:595).
THEOREM DiffsUseOwnBase == Spec => []DiffUsesOwnBase
<1>1. SafeInv => DiffUsesOwnBase
  BY DEF SafeInv, DiskInv, DiskOK, At, RoomLabels, DiffUsesOwnBase
<1> QED BY <1>1, SafeInvariant, PTL

\* RemoveTree and MakeRoom leave alone what a reader in any process holds
\* (cache.go:239).
THEOREM HeldKept == Spec => HeldEntriesKept
<1>1. SafeInv /\ [Next]_vars
      => [\A e \in Entries : shared[e] # {} => disk'[e] = disk[e]]_vars
  <2> SUFFICES ASSUME SafeInv, Next, NEW e \in Entries, shared[e] # {}
               PROVE  disk'[e] = disk[e]
    BY DEF vars
  <2>1. PICK p \in Procs : Start(p) \/ Step(p)
    BY DEF Next
  <2>2. excl[e] = {}
    BY DEF SafeInv, LockInv, Exclusion, Locks
  <2>3. e \notin Temps
    BY Distinct DEF SafeInv, TypeOK, LockInv, ReadHeldBy, Locks
  <2> QED BY <2>1, <2>2, <2>3, WriteNeedsLocks DEF SafeInv
<1> QED BY <1>1, SafeInvariant, PTL DEF Spec, HeldEntriesKept

-----------------------------------------------------------------------------
\* The abstract store.

Published == {s \in Snapshots : disk[s] = Whole}
Pins      == [p \in Procs |-> IF pc[p] = "using" THEN key[p] ELSE None]

\* Whoever has a temporary has the writer lock, so there is one download.
LEMMA OneFills ==
  ASSUME SafeInv, NEW p \in Procs, temp[p] # None
  PROVE  /\ Filling = key[p] /\ key[p] \in Snapshots /\ key[p] # None
         /\ \A q \in Procs \ {p} : temp[q] = None
<1>1. \A q \in Procs : temp[q] # None => q \in excl[Writer] /\ key[q] \in Snapshots
  BY DEF SafeInv, JobInv, JobOK, LockInv, WriterHeldBy, WriterLabels, TempLabels,
     RoomLabels, Labels
<1>2. \A q \in Procs \ {p} : temp[q] = None
  BY <1>1 DEF SafeInv, LockInv, OneWriter
<1> QED
  BY <1>1, <1>2, Distinct DEF Filling, Locks, Entries

\* Whoever has the writer lock and no temporary knows that nobody downloads.
LEMMA NobodyFills ==
  ASSUME SafeInv, NEW p \in Procs, p \in excl[Writer], temp[p] = None
  PROVE  Filling = None
<1>1. \A q \in Procs : temp[q] # None => q \in excl[Writer]
  BY DEF SafeInv, JobInv, JobOK, LockInv, WriterHeldBy, WriterLabels, TempLabels,
     RoomLabels, Labels
<1> QED
  BY <1>1 DEF SafeInv, LockInv, OneWriter, Filling

\* What an entry held exclusively holds of readers.
LEMMA NobodyPins ==
  ASSUME SafeInv, NEW p \in Procs, NEW s \in Snapshots, p \in excl[s]
  PROVE  \A q \in Procs : Pins[q] # s
<1>1. shared[s] = {} /\ s # None
  BY Distinct DEF SafeInv, LockInv, Exclusion, Locks, Entries
<1> QED
  BY <1>1 DEF SafeInv, LockInv, ReadHeldBy, ReaderLabels, Pins, Entries

\* Unless a temporary, or the key of one, changes, what is downloaded does not.
LEMMA SameFilling ==
  ASSUME temp' = temp, \A q \in Procs : key'[q] = key[q] \/ temp[q] = None
  PROVE  Filling' = Filling
BY DEF Filling

\* Neither the download nor the pins change in a step of this shape.
LEMMA QuietStep ==
  ASSUME temp' = temp,
         \A q \in Procs : pc'[q] = "using" <=> pc[q] = "using",
         \A q \in Procs : key'[q] = key[q] \/ (temp[q] = None /\ pc[q] # "using")
  PROVE  Filling' = Filling /\ Pins' = Pins
BY DEF Filling, Pins

\* A hit: a snapshot found under the shared lock is a whole one.
LEMMA FoundIsWhole ==
  ASSUME SafeInv, NEW p \in Procs, pc[p] \in {"check", "restat"}, HasSnapshot(key[p])
  PROVE  key[p] \in Published
<1>1. key[p] \in Snapshots /\ victim[p] = None
  BY DEF SafeInv, JobInv, JobOK, EnsureLabels
<1>2. disk[key[p]] \in {Absent, Whole}
  BY <1>1, SettledUnlessRemoved, Distinct DEF SafeInv, ReaderLabels, Locks, Entries
<1> QED
  BY <1>1, <1>2 DEF HasSnapshot, Absent, Published

\* A removal under way makes no snapshot whole.
LEMMA RemainsOfSnapshot ==
  ASSUME SafeInv, NEW s \in Snapshots, NEW left \in Remains(disk[s])
  PROVE  left # Whole
<1> SUFFICES ASSUME left = Whole PROVE FALSE
  OBVIOUS
<1>1. left.tree = "all" /\ left.meta /\ left.dir /\ disk[s] \in Contents
  BY DEF Whole, SafeInv, TypeOK, Entries
<1>2. disk[s].tree = "all" /\ disk[s].meta /\ disk[s] # Whole
  BY <1>1 DEF Remains
<1>3. disk[s].dir
  BY <1>2 DEF SafeInv, DiskInv, EntriesSettled, Settled, BeingRemoved, Absent
<1> QED
  BY <1>1, <1>2, <1>3 DEF Contents, Whole

-----------------------------------------------------------------------------
\* What a step of p does to a snapshot on disk that is no publication.
LEMMA RemovalStep ==
  ASSUME SafeInv, NEW p \in Procs, EvictPartly(p) \/ EvictDone(p) \/ RemoveSome(p)
  PROVE  /\ UNCHANGED <<Filling, Pins>>
         /\ \/ UNCHANGED Published
            \/ \E s \in Snapshots : s \in Published /\ p \in excl[s] /\ Published' = Published \ {s}
<1>1. PICK e \in Entries :
         /\ p \in excl[e]
         /\ \E left \in Remains(disk[e]) \cup {Absent} : disk' = [disk EXCEPT ![e] = left]
  <2>1. CASE EvictPartly(p) \/ EvictDone(p)
    <3>1. victim[p] \in Entries /\ p \in excl[victim[p]]
      BY <2>1 DEF EvictPartly, EvictDone, SafeInv, TypeOK, JobInv, JobOK, LockInv, EntryHeldBy,
                  EntryLabels, WriterLabels, RemoveLabels, Labels
    <3> QED
      BY <2>1, <3>1 DEF EvictPartly, EvictDone
  <2>2. CASE RemoveSome(p)
    BY <2>2 DEF RemoveSome, SafeInv, TypeOK, DiskInv, RemovalLocked
  <2> QED
    BY <2>1, <2>2
<1>2. Filling' = Filling /\ Pins' = Pins
  <2>1. temp' = temp /\ key' = key /\ \A q \in Procs : pc'[q] = "using" <=> pc[q] = "using"
    BY DEF EvictPartly, EvictDone, RemoveSome, job, Goto, SafeInv, TypeOK
  <2> QED
    BY <2>1, QuietStep
<1>3. CASE e \in Published
  <2>1. e \in Snapshots /\ disk'[e] # Whole /\ \A s \in Snapshots \ {e} : disk'[s] = disk[s]
    BY <1>1, <1>3, RemainsOfSnapshot DEF Published, Absent, Whole, SafeInv, TypeOK, Entries
  <2> QED
    BY <1>1, <1>2, <1>3, <2>1 DEF Published
<1>4. CASE e \notin Published
  <2>1. \A s \in Snapshots : disk'[s] = Whole <=> disk[s] = Whole
    <3>1. CASE e \in Snapshots
      BY <1>1, <1>4, <3>1, RemainsOfSnapshot DEF Published, Absent, Whole, SafeInv, TypeOK
    <3>2. CASE e \notin Snapshots
      BY <1>1, <3>2
    <3> QED
      BY <3>1, <3>2
  <2> QED
    BY <1>2, <2>1 DEF Published
<1> QED
  BY <1>3, <1>4

\* A step that writes to no snapshot but, perhaps, temporaries and repositories.
LEMMA SnapshotsKept ==
  ASSUME SafeInv, NEW p \in Procs, Start(p) \/ Step(p),
         ~Publish(p), ~EvictPartly(p), ~EvictDone(p), ~RemoveSome(p)
  PROVE  Published' = Published
<1> JobOK(p) /\ temp[p] \in Temps \cup {None} /\ key[p] \in Snapshots \cup Repos \cup {None}
  BY DEF SafeInv, JobInv, TypeOK
<1> SUFFICES ASSUME NEW s \in Snapshots PROVE disk'[s] = disk[s]
  BY DEF Published
<1> USE Distinct DEF SafeInv, TypeOK, Entries, Locks
<1>1. CASE Discard(p)
  <2>1. s \notin Discarded(p)
    BY DEF Discarded
  <2> QED
    BY <1>1, <2>1 DEF Discard
<1>2. CASE Confirm(p)
  BY <1>2 DEF Confirm
<1>3. CASE MakeTemp(p)
  BY <1>3 DEF MakeTemp
<1>4. CASE ExtractFile(p) \/ WriteMetadata(p)
  BY <1>4 DEF ExtractFile, WriteMetadata, JobOK, TempLabels
<1>5. CASE OpenRepo(p) \/ InitRepo(p)
  BY <1>5 DEF OpenRepo, InitRepo, JobOK, DiffLabels
<1>6. CASE UNCHANGED disk
  BY <1>6
<1> QED
  BY <1>1, <1>2, <1>3, <1>4, <1>5, <1>6
     DEF Start, StartEnsure, StartDiff, StartRemove, Step, AcquireWriter, AcquireEntry, Cancel,
         EnsureStep, AcquireRead, Check, AcquireRecheck, Restat, Extract, ExtractFails, ShareDrop,
         ShareTake, Release, DiffStep, Fetch, Fetched, FetchFails, Diff, RemoveStep, LockNext,
         LockBusy, AllLocked, RemoveDone, RoomStep, Evict, RoomMade, NoRoom

-----------------------------------------------------------------------------
\* The steps that show, each as a step of the store.

\* A download starts.
LEMMA FillStep ==
  ASSUME SafeInv, SafeInv', NEW p \in Procs, MakeTemp(p)
  PROVE  /\ Filling = None /\ key[p] \in Snapshots \ Published /\ Filling' = key[p]
         /\ Pins' = Pins
<1>1. p \in excl[Writer] /\ temp[p] = None /\ key[p] \in Snapshots /\ disk[key[p]] = Absent
  BY DEF SafeInv, JobInv, JobOK, LockInv, WriterHeldBy, DiskInv, DiskOK, MakeTemp,
     WriterLabels,
         MissLabels, EnsureLabels, TempLabels, RoomLabels, Labels
<1>2. temp'[p] # None /\ key' = key /\ pc'[p] # "using" /\ pc[p] # "using"
      /\ \A q \in Procs \ {p} : pc'[q] = pc[q]
  BY Distinct DEF MakeTemp, Goto, SafeInv, TypeOK, Locks, Entries
<1>3. Filling' = key'[p]
  <2>1. \A q \in Procs : temp'[q] # None => q \in excl'[Writer]
    BY DEF SafeInv, JobInv, JobOK, LockInv, WriterHeldBy, WriterLabels, TempLabels,
       RoomLabels, Labels
  <2>2. \A q \in Procs \ {p} : temp'[q] = None
    BY <1>2, <2>1 DEF SafeInv, LockInv, OneWriter
  <2> QED
    BY <1>2, <2>2 DEF Filling
<1>4. Pins' = Pins
  BY <1>2 DEF Pins
<1> QED
  BY <1>1, <1>2, <1>3, <1>4, NobodyFills DEF Published, Absent, Whole

\* A download becomes a snapshot.
LEMMA PublishStep ==
  ASSUME SafeInv, NEW p \in Procs, Publish(p)
  PROVE  /\ Filling # None /\ Published' = Published \cup {Filling} /\ Filling' = None
         /\ Pins' = Pins
<1>1. /\ temp[p] \in Temps /\ key[p] \in Snapshots
      /\ disk[key[p]] = Absent /\ disk[temp[p]] = Whole
  BY DEF SafeInv, TypeOK, JobInv, JobOK, DiskInv, DiskOK, At, Publish, MissLabels,
     EnsureLabels,
         TempLabels, RoomLabels
<1>2. /\ disk' = [disk EXCEPT ![key[p]] = disk[temp[p]], ![temp[p]] = Absent]
      /\ temp' = [temp EXCEPT ![p] = None] /\ key' = key
      /\ pc' = [pc EXCEPT ![p] = "share"] /\ pc[p] = "publish"
  BY <1>1 DEF Publish, Absent, Goto
<1>3. Filling = key[p] /\ key[p] # None /\ \A q \in Procs \ {p} : temp[q] = None
  BY <1>1, OneFills, Distinct DEF Locks, Entries
<1>4. Published' = Published \cup {key[p]}
  BY <1>1, <1>2, Distinct DEF Published, SafeInv, TypeOK, Entries
<1>5. Filling' = None
  BY <1>2, <1>3 DEF Filling, SafeInv, TypeOK
<1>6. Pins' = Pins
  BY <1>2 DEF Pins, SafeInv, TypeOK
<1> QED
  BY <1>3, <1>4, <1>5, <1>6

\* The end of a request that may leave a temporary behind: only Discard does.
LEMMA DiscardStep ==
  ASSUME SafeInv, NEW p \in Procs, Discard(p)
  PROVE  /\ Pins' = Pins
         /\ Filling' = Filling \/ (Filling # None /\ Filling' = None)
<1>1. /\ pc[p] = "discard" /\ pc' = [pc EXCEPT ![p] = "idle"]
      /\ key' = [key EXCEPT ![p] = None] /\ temp' = [temp EXCEPT ![p] = None]
  BY DEF Discard, Return, Goto
<1>2. Pins' = Pins
  BY <1>1 DEF Pins, SafeInv, TypeOK
<1>3. CASE temp[p] # None
  <2>1. Filling # None /\ \A q \in Procs \ {p} : temp[q] = None
    BY <1>3, OneFills
  <2>2. \A q \in Procs : temp'[q] = None
    BY <1>1, <2>1 DEF SafeInv, TypeOK
  <2> QED
    BY <1>2, <2>1, <2>2 DEF Filling
<1>4. CASE temp[p] = None
  <2>1. temp' = temp /\ \A q \in Procs \ {p} : key'[q] = key[q]
    BY <1>1, <1>4 DEF SafeInv, TypeOK
  <2> QED
    BY <1>2, <1>4, <2>1, SameFilling
<1> QED
  BY <1>2, <1>3, <1>4

\* A snapshot is pinned by whoever begins to use it.
LEMMA PinStep ==
  ASSUME SafeInv, NEW p \in Procs, Check(p) \/ Restat(p) \/ ShareTake(p), pc'[p] = "using"
  PROVE  /\ key[p] \in Published /\ Pins[p] = None /\ Pins' = [Pins EXCEPT ![p] = key[p]]
         /\ Filling' = Filling
<1>1. pc[p] # "using" /\ pc' = [pc EXCEPT ![p] = "using"] /\ key' = key /\ temp' = temp
  BY DEF Check, Restat, ShareTake, Goto, job, SafeInv, TypeOK
<1>2. key[p] \in Published
  <2>1. CASE Check(p) \/ Restat(p)
    <3>1. HasSnapshot(key[p]) /\ pc[p] \in {"check", "restat"}
      BY <2>1 DEF Check, Restat, Goto, SafeInv, TypeOK
    <3> QED
      BY <3>1, FoundIsWhole
  <2>2. CASE ShareTake(p)
    BY <2>2 DEF ShareTake, SafeInv, JobInv, JobOK, DiskInv, DiskOK, EnsureLabels, Published
  <2> QED
    BY <2>1, <2>2
<1>3. Pins[p] = None /\ Pins' = [Pins EXCEPT ![p] = key[p]]
  BY <1>1 DEF Pins, SafeInv, TypeOK
<1>4. Filling' = Filling
  BY <1>1 DEF Filling
<1> QED
  BY <1>2, <1>3, <1>4

\* A snapshot is unpinned by whoever used it.
LEMMA ReleaseStep ==
  ASSUME SafeInv, NEW p \in Procs, Release(p)
  PROVE  Pins[p] # None /\ Pins' = [Pins EXCEPT ![p] = None] /\ Filling' = Filling
<1>1. /\ pc[p] = "using" /\ pc' = [pc EXCEPT ![p] = "idle"] /\ key[p] \in Snapshots
      /\ key' = [key EXCEPT ![p] = None] /\ temp' = [temp EXCEPT ![p] = None] /\ temp[p] = None
  BY DEF Release, Return, Goto, SafeInv, JobInv, JobOK, EnsureLabels, TempLabels, RoomLabels
<1>2. Pins[p] # None /\ Pins' = [Pins EXCEPT ![p] = None]
  BY <1>1, Distinct DEF Pins, SafeInv, TypeOK, Locks, Entries
<1>3. temp' = temp /\ \A q \in Procs \ {p} : key'[q] = key[q]
  BY <1>1 DEF SafeInv, TypeOK
<1> QED
  BY <1>1, <1>2, <1>3, SameFilling

\* Everything else changes neither the download nor the pins.
LEMMA OtherStep ==
  ASSUME SafeInv, NEW p \in Procs, Start(p) \/ Step(p),
         ~MakeTemp(p), ~Publish(p), ~Discard(p), ~Release(p),
         ~((Check(p) \/ Restat(p) \/ ShareTake(p)) /\ pc'[p] = "using")
  PROVE  Filling' = Filling /\ Pins' = Pins
<1> JobOK(p)
  BY DEF SafeInv, JobInv
<1> USE DEF SafeInv, TypeOK, Goto, job
<1> SUFFICES /\ temp' = temp
             /\ \A q \in Procs : pc'[q] = "using" <=> pc[q] = "using"
             /\ \A q \in Procs : key'[q] = key[q] \/ (temp[q] = None /\ pc[q] # "using")
  BY QuietStep
<1>1. CASE Start(p)
  BY <1>1 DEF Start, StartEnsure, StartDiff, StartRemove, JobOK, TempLabels, RoomLabels
<1>2. CASE AcquireWriter(p) \/ AcquireEntry(p)
  BY <1>2 DEF AcquireWriter, AcquireEntry
<1>3. CASE Cancel(p) \/ FetchFails(p) \/ Diff(p) \/ LockBusy(p) \/ RemoveDone(p)
  BY <1>3 DEF Cancel, FetchFails, Diff, LockBusy, RemoveDone, Return, JobOK, TempLabels,
     RoomLabels
<1>4. CASE AcquireRead(p) \/ Check(p) \/ AcquireRecheck(p) \/ Restat(p) \/ Confirm(p) \/ Extract(p)
  BY <1>4 DEF AcquireRead, Check, AcquireRecheck, Restat, Confirm, Extract, Reserve
<1>5. CASE \/ ExtractFile(p) \/ ExtractFails(p) \/ WriteMetadata(p) \/ ShareDrop(p)
           \/ ShareTake(p)
  BY <1>5 DEF ExtractFile, ExtractFails, WriteMetadata, ShareDrop, ShareTake
<1>6. CASE OpenRepo(p) \/ InitRepo(p) \/ Fetch(p) \/ Fetched(p)
  BY <1>6 DEF OpenRepo, InitRepo, Fetch, Fetched, Reserve
<1>7. CASE LockNext(p) \/ AllLocked(p) \/ RemoveSome(p)
  BY <1>7 DEF LockNext, AllLocked, RemoveSome
<1>8. CASE Evict(p) \/ EvictPartly(p) \/ EvictDone(p) \/ RoomMade(p) \/ NoRoom(p)
  BY <1>8 DEF Evict, EvictPartly, EvictDone, RoomMade, NoRoom, JobOK, RoomLabels
<1> QED
  BY <1>1, <1>2, <1>3, <1>4, <1>5, <1>6, <1>7, <1>8 DEF Step, EnsureStep, DiffStep,
     RemoveStep, RoomStep

-----------------------------------------------------------------------------

\* Every step of UserCache is one of the store, or shows nothing of itself.
LEMMA StoreStep ==
  ASSUME SafeInv, SafeInv', [Next]_vars
  PROVE  [Store!StoreNext]_(Store!storeVars)
<1> USE DEF Store!storeVars
<1>1. CASE UNCHANGED vars
  BY <1>1 DEF vars, Filling
<1>2. ASSUME NEW p \in Procs, Start(p) \/ Step(p)
      PROVE  [Store!StoreNext]_(Store!storeVars)
  <2>1. CASE EvictPartly(p) \/ EvictDone(p) \/ RemoveSome(p)
    <3>1. CASE UNCHANGED Published
      BY <2>1, <3>1, RemovalStep DEF Published, Pins
    <3>2. ASSUME NEW s \in Snapshots, s \in Published, p \in excl[s], Published' = Published \ {s}
          PROVE  Store!Evict(s)
      <4>1. \A q \in Procs : Pins[q] # s
        BY <3>2, NobodyPins
      <4> QED
        BY <2>1, <3>2, <4>1, RemovalStep DEF Store!Evict, Published, Pins
    <3> QED
      BY <2>1, <3>1, <3>2, RemovalStep DEF Store!StoreNext
  <2>2. CASE Publish(p)
    BY <2>2, PublishStep DEF Store!StoreNext, Store!Publish, Published, Pins
  <2>3. CASE ~(EvictPartly(p) \/ EvictDone(p) \/ RemoveSome(p) \/ Publish(p))
    <3>0. Published' = Published
      BY <1>2, <2>3, SnapshotsKept
    <3>1. CASE MakeTemp(p)
      <4>1. Store!StartFill(key[p])
        BY <3>0, <3>1, FillStep DEF Store!StartFill, Published, Pins
      <4> QED
        BY <3>1, <4>1, FillStep DEF Store!StoreNext
    <3>2. CASE Discard(p)
      BY <3>0, <3>2, DiscardStep DEF Store!StoreNext, Store!AbandonFill, Published, Pins
    <3>3. CASE (Check(p) \/ Restat(p) \/ ShareTake(p)) /\ pc'[p] = "using"
      <4>1. PICK s \in Snapshots : s = key[p]
        BY <3>3, PinStep DEF Published
      <4>2. Store!Pin(p, s)
        BY <3>0, <3>3, <4>1, PinStep DEF Store!Pin, Published, Pins
      <4> QED
        BY <4>2 DEF Store!StoreNext
    <3>4. CASE Release(p)
      <4>1. Store!Unpin(p)
        BY <3>0, <3>4, ReleaseStep DEF Store!Unpin, Published, Pins
      <4> QED
        BY <4>1 DEF Store!StoreNext
    <3>5. CASE ~(\/ MakeTemp(p) \/ Discard(p) \/ Release(p)
                 \/ (Check(p) \/ Restat(p) \/ ShareTake(p)) /\ pc'[p] = "using")
      BY <1>2, <2>3, <3>0, <3>5, OtherStep DEF Published, Pins
    <3> QED
      BY <3>1, <3>2, <3>3, <3>4, <3>5
  <2> QED
    BY <2>1, <2>2, <2>3
<1> QED
  BY <1>1, <1>2 DEF Next

\* The cache is a SnapshotStore: one download at a time and never of a snapshot
\* that is there, whole publication, pins only on what is published, and no
\* eviction or cleaning of what is pinned (Ensure, MakeRoom and RemoveTree).
THEOREM StoreImplemented == Spec => KeepsStorePromises
<1>1. Init => Store!StoreInit
  BY DEF Init, Store!StoreInit, Filling, Entries, Absent, Whole
<1>2. SafeInv /\ SafeInv' /\ [Next]_vars => [Store!StoreNext]_(Store!storeVars)
  BY StoreStep
<1> QED
  BY <1>1, <1>2, SafeInvariant, PTL DEF Spec, KeepsStorePromises, Store!StoreSpec
=============================================================================
