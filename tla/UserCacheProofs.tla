--------------------------- MODULE UserCacheProofs ---------------------------
(***************************************************************************)
(* Proofs about UserCache, for any number of requests, commits and         *)
(* repositories, with crashes and failing removals (FaultySpec): what a    *)
(* request works on and which locks it holds follow from where it stands.  *)
(***************************************************************************)
EXTENDS UserCache, TLAPS

\* The contents an action puts on disk are contents.
LEMMA ContentsFacts ==
  /\ Absent \in Contents
  /\ [Absent EXCEPT !.dir = TRUE] \in Contents
  /\ \A d : Remains(d) \subseteq Contents
  /\ \A d \in Contents :
       /\ [d EXCEPT !.meta = TRUE] \in Contents
       /\ \A t \in Trees : [d EXCEPT !.tree = t] \in Contents
BY DEF Absent, Contents, Trees, Remains

\* Where a request stands keeps saying what it works on.
LEMMA JobPreserved == ASSUME TypeOK, JobInv, [FaultyNext]_vars PROVE JobInv'
<1> SUFFICES ASSUME NEW q \in Procs PROVE JobOK(q)'
  BY DEF JobInv
<1> JobOK(q)
  BY DEF JobInv
<1> USE DEF JobOK, Goto, EnsureLabels, TempLabels, DiffLabels, RoomLabels,
            RemoveLabels, Entries, Locks, job
<1>1. ASSUME NEW p \in Procs, NEW s \in Snapshots, StartEnsure(p, s) PROVE JobOK(q)'
  <2> JobOK(p) BY DEF JobInv
  <2> QED BY <1>1, Distinct DEF TypeOK, StartEnsure
<1>2. ASSUME NEW p \in Procs, NEW r \in Repos, NEW b \in Bases, StartDiff(p, r, b) PROVE JobOK(q)'
  <2> JobOK(p) BY DEF JobInv
  <2> QED BY <1>2, Distinct DEF TypeOK, StartDiff
<1>3. ASSUME NEW p \in Procs, NEW root \in {Entries, Repos}, StartRemove(p, root) PROVE JobOK(q)'
  <2> JobOK(p) BY DEF JobInv
  <2> QED BY <1>3, Distinct DEF TypeOK, StartRemove
<1>4. ASSUME NEW p \in Procs, AcquireWriter(p) PROVE JobOK(q)'
  <2> JobOK(p) BY DEF JobInv
  <2> QED BY <1>4, Distinct DEF TypeOK, AcquireWriter
<1>5. ASSUME NEW p \in Procs, AcquireEntry(p) PROVE JobOK(q)'
  <2> JobOK(p) BY DEF JobInv
  <2> QED BY <1>5, Distinct DEF TypeOK, AcquireEntry
<1>6. ASSUME NEW p \in Procs, Discard(p) PROVE JobOK(q)'
  <2> JobOK(p) BY DEF JobInv
  <2> QED BY <1>6, Distinct DEF TypeOK, Discard, Return
<1>7. ASSUME NEW p \in Procs, Cancel(p) PROVE JobOK(q)'
  <2> JobOK(p) BY DEF JobInv
  <2> QED BY <1>7, Distinct DEF TypeOK, Cancel, Return
<1>8. ASSUME NEW p \in Procs, AcquireRead(p) PROVE JobOK(q)'
  <2> JobOK(p) BY DEF JobInv
  <2> QED BY <1>8, Distinct DEF TypeOK, AcquireRead
<1>9. ASSUME NEW p \in Procs, Check(p) PROVE JobOK(q)'
  <2> JobOK(p) BY DEF JobInv
  <2> QED BY <1>9, Distinct DEF TypeOK, Check
<1>10. ASSUME NEW p \in Procs, AcquireRecheck(p) PROVE JobOK(q)'
  <2> JobOK(p) BY DEF JobInv
  <2> QED BY <1>10, Distinct DEF TypeOK, AcquireRecheck
<1>11. ASSUME NEW p \in Procs, Restat(p) PROVE JobOK(q)'
  <2> JobOK(p) BY DEF JobInv
  <2> QED BY <1>11, Distinct DEF TypeOK, Restat
<1>12. ASSUME NEW p \in Procs, Confirm(p) PROVE JobOK(q)'
  <2> JobOK(p) BY DEF JobInv
  <2> QED BY <1>12, Distinct DEF TypeOK, Confirm
<1>13. ASSUME NEW p \in Procs, MakeTemp(p) PROVE JobOK(q)'
  <2> JobOK(p) BY DEF JobInv
  <2> QED BY <1>13, Distinct DEF TypeOK, MakeTemp
<1>14. ASSUME NEW p \in Procs, Extract(p) PROVE JobOK(q)'
  <2> JobOK(p) BY DEF JobInv
  <2> QED BY <1>14, Distinct DEF TypeOK, Extract, Reserve
<1>15. ASSUME NEW p \in Procs, ExtractFile(p) PROVE JobOK(q)'
  <2> JobOK(p) BY DEF JobInv
  <2> QED BY <1>15, Distinct DEF TypeOK, ExtractFile
<1>16. ASSUME NEW p \in Procs, ExtractFails(p) PROVE JobOK(q)'
  <2> JobOK(p) BY DEF JobInv
  <2> QED BY <1>16, Distinct DEF TypeOK, ExtractFails
<1>17. ASSUME NEW p \in Procs, WriteMetadata(p) PROVE JobOK(q)'
  <2> JobOK(p) BY DEF JobInv
  <2> QED BY <1>17, Distinct DEF TypeOK, WriteMetadata
<1>18. ASSUME NEW p \in Procs, Publish(p) PROVE JobOK(q)'
  <2> JobOK(p) BY DEF JobInv
  <2> QED BY <1>18, Distinct DEF TypeOK, Publish
<1>19. ASSUME NEW p \in Procs, ShareDrop(p) PROVE JobOK(q)'
  <2> JobOK(p) BY DEF JobInv
  <2> QED BY <1>19, Distinct DEF TypeOK, ShareDrop
<1>20. ASSUME NEW p \in Procs, ShareTake(p) PROVE JobOK(q)'
  <2> JobOK(p) BY DEF JobInv
  <2> QED BY <1>20, Distinct DEF TypeOK, ShareTake
<1>21. ASSUME NEW p \in Procs, Release(p) PROVE JobOK(q)'
  <2> JobOK(p) BY DEF JobInv
  <2> QED BY <1>21, Distinct DEF TypeOK, Release, Return
<1>22. ASSUME NEW p \in Procs, OpenRepo(p) PROVE JobOK(q)'
  <2> JobOK(p) BY DEF JobInv
  <2> QED BY <1>22, Distinct DEF TypeOK, OpenRepo
<1>23. ASSUME NEW p \in Procs, InitRepo(p) PROVE JobOK(q)'
  <2> JobOK(p) BY DEF JobInv
  <2> QED BY <1>23, Distinct DEF TypeOK, InitRepo, Reserve
<1>24. ASSUME NEW p \in Procs, Fetch(p) PROVE JobOK(q)'
  <2> JobOK(p) BY DEF JobInv
  <2> QED BY <1>24, Distinct DEF TypeOK, Fetch, Reserve
<1>25. ASSUME NEW p \in Procs, Fetched(p) PROVE JobOK(q)'
  <2> JobOK(p) BY DEF JobInv
  <2> QED BY <1>25, Distinct DEF TypeOK, Fetched
<1>26. ASSUME NEW p \in Procs, FetchFails(p) PROVE JobOK(q)'
  <2> JobOK(p) BY DEF JobInv
  <2> QED BY <1>26, Distinct DEF TypeOK, FetchFails, Return
<1>27. ASSUME NEW p \in Procs, Diff(p) PROVE JobOK(q)'
  <2> JobOK(p) BY DEF JobInv
  <2> QED BY <1>27, Distinct DEF TypeOK, Diff, Return
<1>28. ASSUME NEW p \in Procs, LockNext(p) PROVE JobOK(q)'
  <2> JobOK(p) BY DEF JobInv
  <2> QED BY <1>28, Distinct DEF TypeOK, LockNext
<1>29. ASSUME NEW p \in Procs, LockBusy(p) PROVE JobOK(q)'
  <2> JobOK(p) BY DEF JobInv
  <2> QED BY <1>29, Distinct DEF TypeOK, LockBusy, Return
<1>30. ASSUME NEW p \in Procs, AllLocked(p) PROVE JobOK(q)'
  <2> JobOK(p) BY DEF JobInv
  <2> QED BY <1>30, Distinct DEF TypeOK, AllLocked
<1>31. ASSUME NEW p \in Procs, RemoveSome(p) PROVE JobOK(q)'
  <2> JobOK(p) BY DEF JobInv
  <2> QED BY <1>31, Distinct DEF TypeOK, RemoveSome
<1>32. ASSUME NEW p \in Procs, RemoveDone(p) PROVE JobOK(q)'
  <2> JobOK(p) BY DEF JobInv
  <2> QED BY <1>32, Distinct DEF TypeOK, RemoveDone, Return
<1>33. ASSUME NEW p \in Procs, Evict(p) PROVE JobOK(q)'
  <2> JobOK(p) BY DEF JobInv
  <2> QED BY <1>33, Distinct DEF TypeOK, Evict, Kept
<1>34. ASSUME NEW p \in Procs, EvictPartly(p) PROVE JobOK(q)'
  <2> JobOK(p) BY DEF JobInv
  <2> QED BY <1>34, Distinct DEF TypeOK, EvictPartly
<1>35. ASSUME NEW p \in Procs, EvictDone(p) PROVE JobOK(q)'
  <2> JobOK(p) BY DEF JobInv
  <2> QED BY <1>35, Distinct DEF TypeOK, EvictDone
<1>36. ASSUME NEW p \in Procs, RoomMade(p) PROVE JobOK(q)'
  <2> JobOK(p) BY DEF JobInv
  <2> QED BY <1>36, Distinct DEF TypeOK, RoomMade
<1>37. ASSUME NEW p \in Procs, NoRoom(p) PROVE JobOK(q)'
  <2> JobOK(p) BY DEF JobInv
  <2> QED BY <1>37, Distinct DEF TypeOK, NoRoom
<1>38. ASSUME NEW p \in Procs, Crash(p) PROVE JobOK(q)'
  <2> JobOK(p) BY DEF JobInv
  <2> QED BY <1>38, Distinct DEF TypeOK, Crash, Return
<1>39. ASSUME NEW p \in Procs, RemoveError(p) PROVE JobOK(q)'
  <2> JobOK(p) BY DEF JobInv
  <2> QED BY <1>39, Distinct DEF TypeOK, RemoveError, Return
<1>40. CASE UNCHANGED vars
  BY <1>40 DEF vars, JobOK
<1> QED
  BY <1>1, <1>2, <1>3, <1>4, <1>5, <1>6, <1>7, <1>8, <1>9, <1>10, <1>11,
     <1>12, <1>13, <1>14, <1>15, <1>16, <1>17, <1>18, <1>19, <1>20, <1>21,
     <1>22, <1>23, <1>24, <1>25, <1>26, <1>27, <1>28, <1>29, <1>30, <1>31,
     <1>32, <1>33, <1>34, <1>35, <1>36, <1>37, <1>38, <1>39, <1>40
  DEF FaultyNext, Next, Start, Step, EnsureStep, DiffStep, RemoveStep, RoomStep

\* The part of TypeOK about what requests work on.
JobTypes ==
  /\ key \in [Procs -> Snapshots \cup Repos \cup {None}]
  /\ scope \in [Procs -> SUBSET Entries]
  /\ base \in [Procs -> Bases \cup {None}]
  /\ temp \in [Procs -> Temps \cup {None}]
  /\ victim \in [Procs -> Entries \cup {None}]
  /\ resume \in [Procs -> Labels]

\* Every step keeps the types.
LEMMA TypePreserved == ASSUME TypeOK, JobInv, [FaultyNext]_vars PROVE TypeOK'
<1> USE DEF Goto, job, locks, LockExcl, LockShared, UnlockExcl, UnlockShared,
            UnlockAll, JobOK, EnsureLabels, TempLabels, DiffLabels, RoomLabels,
            Labels, Entries, Locks
<1>1. ASSUME NEW p \in Procs, NEW s \in Snapshots, StartEnsure(p, s) PROVE TypeOK'
  <2> JobOK(p) BY DEF JobInv
  <2> QED BY <1>1, ContentsFacts, Distinct DEF TypeOK, StartEnsure
<1>2. ASSUME NEW p \in Procs, NEW r \in Repos, NEW b \in Bases, StartDiff(p, r, b) PROVE TypeOK'
  <2> JobOK(p) BY DEF JobInv
  <2> QED BY <1>2, ContentsFacts, Distinct DEF TypeOK, StartDiff
<1>3. ASSUME NEW p \in Procs, NEW root \in {Entries, Repos}, StartRemove(p, root) PROVE TypeOK'
  <2> JobOK(p) BY DEF JobInv
  <2> QED BY <1>3, ContentsFacts, Distinct DEF TypeOK, StartRemove
<1>4. ASSUME NEW p \in Procs, AcquireWriter(p) PROVE TypeOK'
  <2> JobOK(p) BY DEF JobInv
  <2> QED BY <1>4, ContentsFacts, Distinct DEF TypeOK, AcquireWriter
<1>5. ASSUME NEW p \in Procs, AcquireEntry(p) PROVE TypeOK'
  <2> JobOK(p) BY DEF JobInv
  <2> QED BY <1>5, ContentsFacts, Distinct DEF TypeOK, AcquireEntry
<1>6. ASSUME NEW p \in Procs, Discard(p) PROVE TypeOK'
  <2> JobOK(p) BY DEF JobInv
  <2> QED BY <1>6, ContentsFacts, Distinct DEF TypeOK, Discard, Return
<1>7. ASSUME NEW p \in Procs, Cancel(p) PROVE TypeOK'
  <2> JobOK(p) BY DEF JobInv
  <2> QED BY <1>7, ContentsFacts, Distinct DEF TypeOK, Cancel, Return
<1>8. ASSUME NEW p \in Procs, AcquireRead(p) PROVE TypeOK'
  <2> JobOK(p) BY DEF JobInv
  <2> QED BY <1>8, ContentsFacts, Distinct DEF TypeOK, AcquireRead
<1>9. ASSUME NEW p \in Procs, Check(p) PROVE TypeOK'
  <2> JobOK(p) BY DEF JobInv
  <2> QED BY <1>9, ContentsFacts, Distinct DEF TypeOK, Check
<1>10. ASSUME NEW p \in Procs, AcquireRecheck(p) PROVE TypeOK'
  <2> JobOK(p) BY DEF JobInv
  <2> QED BY <1>10, ContentsFacts, Distinct DEF TypeOK, AcquireRecheck
<1>11. ASSUME NEW p \in Procs, Restat(p) PROVE TypeOK'
  <2> JobOK(p) BY DEF JobInv
  <2> QED BY <1>11, ContentsFacts, Distinct DEF TypeOK, Restat
<1>12. ASSUME NEW p \in Procs, Confirm(p) PROVE TypeOK'
  <2> JobOK(p) BY DEF JobInv
  <2> QED BY <1>12, ContentsFacts, Distinct DEF TypeOK, Confirm
<1>13. ASSUME NEW p \in Procs, MakeTemp(p) PROVE TypeOK'
  <2> JobOK(p) BY DEF JobInv
  <2> QED BY <1>13, ContentsFacts, Distinct DEF TypeOK, MakeTemp
<1>14. ASSUME NEW p \in Procs, Extract(p) PROVE TypeOK'
  <2> JobOK(p) BY DEF JobInv
  <2> QED BY <1>14, ContentsFacts, Distinct DEF TypeOK, Extract, Reserve
<1>15. ASSUME NEW p \in Procs, ExtractFile(p) PROVE TypeOK'
  <2> JobOK(p) BY DEF JobInv
  <2>1. pc' \in [Procs -> Labels]
    BY <1>15 DEF TypeOK, Labels, ExtractFile
  <2>2. excl' \in [Locks -> SUBSET Procs] /\ shared' \in [Locks -> SUBSET Procs]
    BY <1>15 DEF TypeOK, ExtractFile
  <2>3. disk' \in [Entries -> Contents]
    <3>1. temp[p] \in Temps
      BY <1>15 DEF TypeOK, ExtractFile
    <3>2. disk[temp[p]] \in Contents
      BY <3>1 DEF TypeOK, Entries
    <3>3. PICK t \in Trees :
            disk' = [disk EXCEPT ![temp[p]] = [disk[temp[p]] EXCEPT !.tree = t]]
      BY <1>15 DEF ExtractFile, Trees
    <3>4. [disk[temp[p]] EXCEPT !.tree = t] \in Contents
      BY <3>2, ContentsFacts
    <3> QED BY <3>1, <3>3, <3>4 DEF TypeOK
  <2>4. mirror' \in [Repos -> Bases \cup {None}]
    BY <1>15 DEF TypeOK, ExtractFile
  <2>5. JobTypes'
    BY <1>15 DEF JobTypes, TypeOK, Labels, ExtractFile
  <2> QED BY <2>1, <2>2, <2>3, <2>4, <2>5 DEF TypeOK, JobTypes
<1>16. ASSUME NEW p \in Procs, ExtractFails(p) PROVE TypeOK'
  <2> JobOK(p) BY DEF JobInv
  <2> QED BY <1>16, ContentsFacts, Distinct DEF TypeOK, ExtractFails
<1>17. ASSUME NEW p \in Procs, WriteMetadata(p) PROVE TypeOK'
  <2> JobOK(p) BY DEF JobInv
  <2> QED BY <1>17, ContentsFacts, Distinct DEF TypeOK, WriteMetadata
<1>18. ASSUME NEW p \in Procs, Publish(p) PROVE TypeOK'
  <2> JobOK(p) BY DEF JobInv
  <2> QED BY <1>18, ContentsFacts, Distinct DEF TypeOK, Publish
<1>19. ASSUME NEW p \in Procs, ShareDrop(p) PROVE TypeOK'
  <2> JobOK(p) BY DEF JobInv
  <2> QED BY <1>19, ContentsFacts, Distinct DEF TypeOK, ShareDrop
<1>20. ASSUME NEW p \in Procs, ShareTake(p) PROVE TypeOK'
  <2> JobOK(p) BY DEF JobInv
  <2> QED BY <1>20, ContentsFacts, Distinct DEF TypeOK, ShareTake
<1>21. ASSUME NEW p \in Procs, Release(p) PROVE TypeOK'
  <2> JobOK(p) BY DEF JobInv
  <2> QED BY <1>21, ContentsFacts, Distinct DEF TypeOK, Release, Return
<1>22. ASSUME NEW p \in Procs, OpenRepo(p) PROVE TypeOK'
  <2> JobOK(p) BY DEF JobInv
  <2>1. pc' \in [Procs -> Labels]
    BY <1>22 DEF TypeOK, Labels, OpenRepo
  <2>2. excl' \in [Locks -> SUBSET Procs] /\ shared' \in [Locks -> SUBSET Procs]
    BY <1>22 DEF TypeOK, OpenRepo
  <2>3. disk' \in [Entries -> Contents]
    BY <1>22, ContentsFacts, Distinct DEF TypeOK, OpenRepo
  <2>4. mirror' \in [Repos -> Bases \cup {None}]
    BY <1>22 DEF TypeOK, OpenRepo
  <2>5. JobTypes'
    BY <1>22 DEF JobTypes, TypeOK, Labels, OpenRepo
  <2> QED BY <2>1, <2>2, <2>3, <2>4, <2>5 DEF TypeOK, JobTypes
<1>23. ASSUME NEW p \in Procs, InitRepo(p) PROVE TypeOK'
  <2> JobOK(p) BY DEF JobInv
  <2>1. pc' \in [Procs -> Labels]
    BY <1>23 DEF TypeOK, Labels, InitRepo, Reserve
  <2>2. excl' \in [Locks -> SUBSET Procs] /\ shared' \in [Locks -> SUBSET Procs]
    BY <1>23 DEF TypeOK, InitRepo, Reserve
  <2>3. disk' \in [Entries -> Contents]
    <3>1. disk[key[p]] \in Contents
      BY <1>23 DEF TypeOK, InitRepo, Entries
    <3>2. "all" \in Trees
      BY DEF Trees
    <3> QED BY <1>23, <3>1, <3>2, ContentsFacts DEF TypeOK, InitRepo
  <2>4. mirror' \in [Repos -> Bases \cup {None}]
    BY <1>23 DEF TypeOK, InitRepo, Reserve
  <2>5. JobTypes'
    BY <1>23 DEF JobTypes, TypeOK, Labels, InitRepo, Reserve
  <2> QED BY <2>1, <2>2, <2>3, <2>4, <2>5 DEF TypeOK, JobTypes
<1>24. ASSUME NEW p \in Procs, Fetch(p) PROVE TypeOK'
  <2> JobOK(p) BY DEF JobInv
  <2> QED BY <1>24, ContentsFacts, Distinct DEF TypeOK, Fetch, Reserve
<1>25. ASSUME NEW p \in Procs, Fetched(p) PROVE TypeOK'
  <2> JobOK(p) BY DEF JobInv
  <2> QED BY <1>25, ContentsFacts, Distinct DEF TypeOK, Fetched
<1>26. ASSUME NEW p \in Procs, FetchFails(p) PROVE TypeOK'
  <2> JobOK(p) BY DEF JobInv
  <2> QED BY <1>26, ContentsFacts, Distinct DEF TypeOK, FetchFails, Return
<1>27. ASSUME NEW p \in Procs, Diff(p) PROVE TypeOK'
  <2> JobOK(p) BY DEF JobInv
  <2> QED BY <1>27, ContentsFacts, Distinct DEF TypeOK, Diff, Return
<1>28. ASSUME NEW p \in Procs, LockNext(p) PROVE TypeOK'
  <2> JobOK(p) BY DEF JobInv
  <2> QED BY <1>28, ContentsFacts, Distinct DEF TypeOK, LockNext, Unlocked
<1>29. ASSUME NEW p \in Procs, LockBusy(p) PROVE TypeOK'
  <2> JobOK(p) BY DEF JobInv
  <2> QED BY <1>29, ContentsFacts, Distinct DEF TypeOK, LockBusy, Return
<1>30. ASSUME NEW p \in Procs, AllLocked(p) PROVE TypeOK'
  <2> JobOK(p) BY DEF JobInv
  <2> QED BY <1>30, ContentsFacts, Distinct DEF TypeOK, AllLocked
<1>31. ASSUME NEW p \in Procs, RemoveSome(p) PROVE TypeOK'
  <2> JobOK(p) BY DEF JobInv
  <2> QED BY <1>31, ContentsFacts, Distinct DEF TypeOK, RemoveSome
<1>32. ASSUME NEW p \in Procs, RemoveDone(p) PROVE TypeOK'
  <2> JobOK(p) BY DEF JobInv
  <2> QED BY <1>32, ContentsFacts, Distinct DEF TypeOK, RemoveDone, Return
<1>33. ASSUME NEW p \in Procs, Evict(p) PROVE TypeOK'
  <2> JobOK(p) BY DEF JobInv
  <2> QED BY <1>33, ContentsFacts, Distinct DEF TypeOK, Evict
<1>34. ASSUME NEW p \in Procs, EvictPartly(p) PROVE TypeOK'
  <2> JobOK(p) BY DEF JobInv
  <2> QED BY <1>34, ContentsFacts, Distinct DEF TypeOK, EvictPartly
<1>35. ASSUME NEW p \in Procs, EvictDone(p) PROVE TypeOK'
  <2> JobOK(p) BY DEF JobInv
  <2> QED BY <1>35, ContentsFacts, Distinct DEF TypeOK, EvictDone
<1>36. ASSUME NEW p \in Procs, RoomMade(p) PROVE TypeOK'
  <2> JobOK(p) BY DEF JobInv
  <2> QED BY <1>36, ContentsFacts, Distinct DEF TypeOK, RoomMade
<1>37. ASSUME NEW p \in Procs, NoRoom(p) PROVE TypeOK'
  <2> JobOK(p) BY DEF JobInv
  <2> QED BY <1>37, ContentsFacts, Distinct DEF TypeOK, NoRoom
<1>38. ASSUME NEW p \in Procs, Crash(p) PROVE TypeOK'
  <2> JobOK(p) BY DEF JobInv
  <2> QED BY <1>38, ContentsFacts, Distinct DEF TypeOK, Crash, Return
<1>39. ASSUME NEW p \in Procs, RemoveError(p) PROVE TypeOK'
  <2> JobOK(p) BY DEF JobInv
  <2>1. pc' \in [Procs -> Labels]
    BY <1>39 DEF TypeOK, Labels, RemoveError, Return
  <2>2. excl' \in [Locks -> SUBSET Procs] /\ shared' \in [Locks -> SUBSET Procs]
    BY <1>39 DEF TypeOK, RemoveError, Return
  <2>3. disk' \in [Entries -> Contents]
    BY <1>39, ContentsFacts, Distinct DEF TypeOK, RemoveError, Return
  <2>4. mirror' \in [Repos -> Bases \cup {None}]
    BY <1>39 DEF TypeOK, RemoveError, Return
  <2>5. key' \in [Procs -> Snapshots \cup Repos \cup {None}]
    BY <1>39 DEF TypeOK, RemoveError, Return
  <2>6. scope' \in [Procs -> SUBSET Entries]
    BY <1>39 DEF TypeOK, RemoveError, Return
  <2>7. base' \in [Procs -> Bases \cup {None}] /\ temp' \in [Procs -> Temps \cup {None}]
    BY <1>39 DEF TypeOK, RemoveError, Return
  <2>8. victim' \in [Procs -> Entries \cup {None}]
    BY <1>39 DEF TypeOK, RemoveError, Return
  <2>9. resume' \in [Procs -> Labels]
    BY <1>39 DEF TypeOK, Labels, RemoveError, Return
  <2> QED BY <2>1, <2>2, <2>3, <2>4, <2>5, <2>6, <2>7, <2>8, <2>9 DEF TypeOK
<1>40. CASE UNCHANGED vars
  BY <1>40 DEF vars, TypeOK
<1> QED
  BY <1>1, <1>2, <1>3, <1>4, <1>5, <1>6, <1>7, <1>8, <1>9, <1>10, <1>11,
     <1>12, <1>13, <1>14, <1>15, <1>16, <1>17, <1>18, <1>19, <1>20, <1>21,
     <1>22, <1>23, <1>24, <1>25, <1>26, <1>27, <1>28, <1>29, <1>30, <1>31,
     <1>32, <1>33, <1>34, <1>35, <1>36, <1>37, <1>38, <1>39, <1>40
  DEF FaultyNext, Next, Start, Step, EnsureStep, DiffStep, RemoveStep, RoomStep

\* A return drops the locks of one request and touches those of no other.
LEMMA ReturnKeepsLockInv ==
  ASSUME TypeOK, LockInv, NEW p \in Procs, Return(p) PROVE LockInv'
<1> USE DEF TypeOK, LockInv, Return, UnlockAll, Goto, Labels, WriterLabels,
            EntryLabels, ReaderLabels, RemoveLabels, Locks
<1>1. shared[Writer]' = {}
  BY Distinct
<1>2. WriterHeldBy'
  BY Distinct DEF WriterHeldBy
<1>3. OneWriter'
  BY Distinct DEF OneWriter, WriterHeldBy
<1>4. WriterGuardsEntries'
  BY Distinct DEF WriterGuardsEntries
<1>5. Exclusion'
  BY Distinct DEF Exclusion
<1>6. ReadHeldBy'
  BY Distinct DEF ReadHeldBy
<1>7. EntryHeldBy'
  BY Distinct DEF EntryHeldBy
<1>8. VictimApart'
  BY Distinct DEF VictimApart
<1> QED BY <1>1, <1>2, <1>3, <1>4, <1>5, <1>6, <1>7, <1>8

\* Dropping the lock of the entry MakeRoom was removing.
LEMMA VictimFreedKeepsLockInv ==
  ASSUME TypeOK, LockInv, NEW p \in Procs, JobOK(p), pc[p] = "evicting",
         NEW l \in {"evict", "discard"}, Goto(p, l), UnlockExcl(p, victim[p]),
         victim' = [victim EXCEPT ![p] = None], UNCHANGED key
  PROVE  LockInv'
<1> USE DEF LockInv, TypeOK, UnlockExcl, Goto, Labels, WriterLabels,
            EntryLabels, ReaderLabels, RemoveLabels, Locks, Entries, JobOK,
            RoomLabels
<1>1. shared[Writer]' = {}
  BY Distinct
<1>2. WriterHeldBy'
  BY Distinct DEF WriterHeldBy
<1>3. OneWriter'
  BY Distinct DEF OneWriter, WriterHeldBy
<1>4. WriterGuardsEntries'
  BY Distinct DEF WriterGuardsEntries
<1>5. Exclusion'
  BY Distinct DEF Exclusion
<1>6. ReadHeldBy'
  BY Distinct DEF ReadHeldBy
<1>7. EntryHeldBy'
  <2> SUFFICES ASSUME NEW q \in Procs, NEW e \in Entries,
                      pc'[q] \notin RemoveLabels
               PROVE  q \in excl'[e] <=>
                        pc'[q] \in EntryLabels /\ e \in {key'[q], victim'[q]}
    BY DEF EntryHeldBy
  <2>1. CASE q # p
    BY <2>1, Distinct DEF EntryHeldBy
  <2>2. CASE q = p
    <3>1. e # None /\ victim[p] # None
      BY Distinct
    <3>2. victim[p] # key[p]
      BY <3>1 DEF VictimApart
    <3> QED BY <2>2, <3>1, <3>2, Distinct DEF EntryHeldBy
  <2> QED BY <2>1, <2>2
<1>8. VictimApart'
  BY DEF VictimApart
<1> QED BY <1>1, <1>2, <1>3, <1>4, <1>5, <1>6, <1>7, <1>8

\* The locks keep following where the requests stand.
LEMMA LockPreserved ==
  ASSUME TypeOK, JobInv, LockInv, [FaultyNext]_vars PROVE LockInv'
<1> USE DEF LockInv, TypeOK, Goto, job, locks, Labels, WriterLabels, EntryLabels,
            ReaderLabels, RemoveLabels, Locks, Entries, JobOK, RoomLabels,
            EnsureLabels, DiffLabels, TempLabels, WriterHeldBy, OneWriter,
            WriterGuardsEntries, Exclusion, ReadHeldBy, EntryHeldBy, VictimApart
<1>1. ASSUME NEW p \in Procs, NEW s \in Snapshots, StartEnsure(p, s) PROVE LockInv'
  <2> JobOK(p) BY DEF JobInv
  <2> QED BY <1>1, Distinct, SMTT(30) DEF StartEnsure, CanExclude, CanShare, LockExcl,
     LockShared, UnlockExcl, UnlockShared, UnlockAll
<1>2. ASSUME NEW p \in Procs, NEW r \in Repos, NEW b \in Bases, StartDiff(p, r, b) PROVE LockInv'
  <2> JobOK(p) BY DEF JobInv
  <2> QED BY <1>2, Distinct, SMTT(30) DEF StartDiff, CanExclude, CanShare, LockExcl,
     LockShared, UnlockExcl, UnlockShared, UnlockAll
<1>3. ASSUME NEW p \in Procs, NEW root \in {Entries, Repos}, StartRemove(p, root) PROVE LockInv'
  <2> JobOK(p) BY DEF JobInv
  <2> QED BY <1>3, Distinct, SMTT(30) DEF StartRemove, CanExclude, CanShare, LockExcl,
     LockShared, UnlockExcl, UnlockShared, UnlockAll
<1>4. ASSUME NEW p \in Procs, AcquireWriter(p) PROVE LockInv'
  <2> JobOK(p) BY DEF JobInv
  <2> QED BY <1>4, Distinct, SMTT(30) DEF AcquireWriter, CanExclude, CanShare, LockExcl,
     LockShared, UnlockExcl, UnlockShared, UnlockAll
<1>5. ASSUME NEW p \in Procs, AcquireEntry(p) PROVE LockInv'
  <2> JobOK(p) BY DEF JobInv
  <2> QED BY <1>5, Distinct, SMTT(30) DEF AcquireEntry, CanExclude, CanShare, LockExcl,
     LockShared, UnlockExcl, UnlockShared, UnlockAll
<1>6. ASSUME NEW p \in Procs, Discard(p) PROVE LockInv'
  BY <1>6, ReturnKeepsLockInv DEF Discard
<1>7. ASSUME NEW p \in Procs, Cancel(p) PROVE LockInv'
  BY <1>7, ReturnKeepsLockInv DEF Cancel
<1>8. ASSUME NEW p \in Procs, AcquireRead(p) PROVE LockInv'
  <2> JobOK(p) BY DEF JobInv
  <2> QED BY <1>8, Distinct, SMTT(30) DEF AcquireRead, CanExclude, CanShare, LockExcl,
     LockShared, UnlockExcl, UnlockShared, UnlockAll
<1>9. ASSUME NEW p \in Procs, Check(p) PROVE LockInv'
  <2> JobOK(p) BY DEF JobInv
  <2>1. CASE HasSnapshot(key[p])
    BY <1>9, <2>1, Distinct, SMTT(30) DEF Check, UnlockExcl
  <2>2. CASE ~HasSnapshot(key[p])
    BY <1>9, <2>2, Distinct, SMTT(30) DEF Check, UnlockShared
  <2> QED BY <2>1, <2>2
<1>10. ASSUME NEW p \in Procs, AcquireRecheck(p) PROVE LockInv'
  <2> JobOK(p) BY DEF JobInv
  <2> QED BY <1>10, Distinct, SMTT(30) DEF AcquireRecheck, CanExclude, CanShare,
     LockExcl, LockShared, UnlockExcl, UnlockShared, UnlockAll
<1>11. ASSUME NEW p \in Procs, Restat(p) PROVE LockInv'
  <2> JobOK(p) BY DEF JobInv
  <2>1. CASE HasSnapshot(key[p])
    BY <1>11, <2>1, Distinct, SMTT(30) DEF Restat, UnlockExcl
  <2>2. CASE ~HasSnapshot(key[p])
    BY <1>11, <2>2, Distinct, SMTT(30) DEF Restat, UnlockShared
  <2> QED BY <2>1, <2>2
<1>12. ASSUME NEW p \in Procs, Confirm(p) PROVE LockInv'
  <2> JobOK(p) BY DEF JobInv
  <2> QED BY <1>12, Distinct, SMTT(30) DEF Confirm, CanExclude, CanShare, LockExcl,
     LockShared, UnlockExcl, UnlockShared, UnlockAll
<1>13. ASSUME NEW p \in Procs, MakeTemp(p) PROVE LockInv'
  <2> JobOK(p) BY DEF JobInv
  <2> QED BY <1>13, Distinct, SMTT(30) DEF MakeTemp, CanExclude, CanShare, LockExcl,
     LockShared, UnlockExcl, UnlockShared, UnlockAll
<1>14. ASSUME NEW p \in Procs, Extract(p) PROVE LockInv'
  <2> JobOK(p) BY DEF JobInv
  <2> QED BY <1>14, Distinct, SMTT(30) DEF Extract, Reserve, CanExclude, CanShare,
     LockExcl, LockShared, UnlockExcl, UnlockShared, UnlockAll
<1>15. ASSUME NEW p \in Procs, ExtractFile(p) PROVE LockInv'
  <2> JobOK(p) BY DEF JobInv
  <2> QED BY <1>15, Distinct, SMTT(30) DEF ExtractFile, CanExclude, CanShare, LockExcl,
     LockShared, UnlockExcl, UnlockShared, UnlockAll
<1>16. ASSUME NEW p \in Procs, ExtractFails(p) PROVE LockInv'
  <2> JobOK(p) BY DEF JobInv
  <2> QED BY <1>16, Distinct, SMTT(30) DEF ExtractFails, CanExclude, CanShare, LockExcl,
     LockShared, UnlockExcl, UnlockShared, UnlockAll
<1>17. ASSUME NEW p \in Procs, WriteMetadata(p) PROVE LockInv'
  <2> JobOK(p) BY DEF JobInv
  <2> QED BY <1>17, Distinct, SMTT(30) DEF WriteMetadata, CanExclude, CanShare,
     LockExcl, LockShared, UnlockExcl, UnlockShared, UnlockAll
<1>18. ASSUME NEW p \in Procs, Publish(p) PROVE LockInv'
  <2> JobOK(p) BY DEF JobInv
  <2> QED BY <1>18, Distinct, SMTT(30) DEF Publish, CanExclude, CanShare, LockExcl,
     LockShared, UnlockExcl, UnlockShared, UnlockAll
<1>19. ASSUME NEW p \in Procs, ShareDrop(p) PROVE LockInv'
  <2> JobOK(p) BY DEF JobInv
  <2> QED BY <1>19, Distinct, SMTT(30) DEF ShareDrop, CanExclude, CanShare, LockExcl,
     LockShared, UnlockExcl, UnlockShared, UnlockAll
<1>20. ASSUME NEW p \in Procs, ShareTake(p) PROVE LockInv'
  <2> JobOK(p) BY DEF JobInv
  <2> QED BY <1>20, Distinct, SMTT(30) DEF ShareTake, CanExclude, CanShare, LockExcl,
     LockShared, UnlockExcl, UnlockShared, UnlockAll
<1>21. ASSUME NEW p \in Procs, Release(p) PROVE LockInv'
  BY <1>21, ReturnKeepsLockInv DEF Release
<1>22. ASSUME NEW p \in Procs, OpenRepo(p) PROVE LockInv'
  <2> JobOK(p) BY DEF JobInv
  <2> QED BY <1>22, Distinct, SMTT(30) DEF OpenRepo, CanExclude, CanShare, LockExcl,
     LockShared, UnlockExcl, UnlockShared, UnlockAll
<1>23. ASSUME NEW p \in Procs, InitRepo(p) PROVE LockInv'
  <2> JobOK(p) BY DEF JobInv
  <2>1. CASE Goto(p, "fetch")
    BY <1>23, <2>1, Distinct, SMTT(30) DEF InitRepo
  <2>2. CASE Goto(p, "evict")
    BY <1>23, <2>2, Distinct, SMTT(30) DEF InitRepo
  <2> QED BY <1>23, <2>1, <2>2 DEF InitRepo, Reserve
<1>24. ASSUME NEW p \in Procs, Fetch(p) PROVE LockInv'
  <2> JobOK(p) BY DEF JobInv
  <2> QED BY <1>24, Distinct, SMTT(30) DEF Fetch, Reserve, CanExclude, CanShare,
     LockExcl, LockShared, UnlockExcl, UnlockShared, UnlockAll
<1>25. ASSUME NEW p \in Procs, Fetched(p) PROVE LockInv'
  <2> JobOK(p) BY DEF JobInv
  <2> QED BY <1>25, Distinct, SMTT(30) DEF Fetched, CanExclude, CanShare, LockExcl,
     LockShared, UnlockExcl, UnlockShared, UnlockAll
<1>26. ASSUME NEW p \in Procs, FetchFails(p) PROVE LockInv'
  BY <1>26, ReturnKeepsLockInv DEF FetchFails
<1>27. ASSUME NEW p \in Procs, Diff(p) PROVE LockInv'
  BY <1>27, ReturnKeepsLockInv DEF Diff
<1>28. ASSUME NEW p \in Procs, LockNext(p) PROVE LockInv'
  <2> JobOK(p) BY DEF JobInv
  <2> QED BY <1>28, Distinct, SMTT(30) DEF LockNext, Unlocked, CanExclude, CanShare,
     LockExcl, LockShared, UnlockExcl, UnlockShared, UnlockAll
<1>29. ASSUME NEW p \in Procs, LockBusy(p) PROVE LockInv'
  BY <1>29, ReturnKeepsLockInv DEF LockBusy
<1>30. ASSUME NEW p \in Procs, AllLocked(p) PROVE LockInv'
  <2> JobOK(p) BY DEF JobInv
  <2> QED BY <1>30, Distinct, SMTT(30) DEF AllLocked, CanExclude, CanShare, LockExcl,
     LockShared, UnlockExcl, UnlockShared, UnlockAll
<1>31. ASSUME NEW p \in Procs, RemoveSome(p) PROVE LockInv'
  <2>1. UNCHANGED <<pc, key, victim, excl, shared>>
    BY <1>31 DEF RemoveSome
  <2> QED BY <2>1
<1>32. ASSUME NEW p \in Procs, RemoveDone(p) PROVE LockInv'
  BY <1>32, ReturnKeepsLockInv DEF RemoveDone
<1>33. ASSUME NEW p \in Procs, Evict(p) PROVE LockInv'
  <2> JobOK(p) BY DEF JobInv
  <2> QED BY <1>33, Distinct, SMTT(30) DEF Evict, CanExclude, CanShare, LockExcl,
     LockShared, UnlockExcl, UnlockShared, UnlockAll
<1>34. ASSUME NEW p \in Procs, EvictPartly(p) PROVE LockInv'
  <2> JobOK(p) BY DEF JobInv
  <2> QED BY <1>34, Distinct, SMTT(30) DEF EvictPartly, CanExclude, CanShare, LockExcl,
     LockShared, UnlockExcl, UnlockShared, UnlockAll
<1>35. ASSUME NEW p \in Procs, EvictDone(p) PROVE LockInv'
  <2> JobOK(p) BY DEF JobInv
  <2> QED BY <1>35, VictimFreedKeepsLockInv DEF EvictDone
<1>36. ASSUME NEW p \in Procs, RoomMade(p) PROVE LockInv'
  <2> JobOK(p) BY DEF JobInv
  <2> QED BY <1>36, Distinct, SMTT(30) DEF RoomMade, CanExclude, CanShare, LockExcl,
     LockShared, UnlockExcl, UnlockShared, UnlockAll
<1>37. ASSUME NEW p \in Procs, NoRoom(p) PROVE LockInv'
  <2> JobOK(p) BY DEF JobInv
  <2> QED BY <1>37, Distinct, SMTT(30) DEF NoRoom, CanExclude, CanShare, LockExcl,
     LockShared, UnlockExcl, UnlockShared, UnlockAll
<1>38. ASSUME NEW p \in Procs, Crash(p) PROVE LockInv'
  BY <1>38, ReturnKeepsLockInv DEF Crash
<1>39. ASSUME NEW p \in Procs, RemoveError(p) PROVE LockInv'
  <2> JobOK(p) BY DEF JobInv
  <2>1. CASE pc[p] = "remove"
    BY <1>39, <2>1, ReturnKeepsLockInv DEF RemoveError
  <2>2. CASE pc[p] = "evicting" /\ resume[p] \in {"fetch", "fetched"}
    BY <1>39, <2>2, ReturnKeepsLockInv DEF RemoveError
  <2>3. CASE pc[p] = "evicting" /\ resume[p] \notin {"fetch", "fetched"}
    <3> DEFINE Freed == /\ Goto(p, "discard")
                        /\ UnlockExcl(p, victim[p])
                        /\ victim' = [victim EXCEPT ![p] = None]
                        /\ UNCHANGED <<key, scope, base, temp, resume>>
    <3> Freed
      BY <1>39, <2>3 DEF RemoveError
    <3> QED BY <2>3, VictimFreedKeepsLockInv
  <2> QED BY <1>39, <2>1, <2>2, <2>3 DEF RemoveError
<1>40. CASE UNCHANGED vars
  BY <1>40 DEF vars
<1> HIDE DEF LockInv, TypeOK, Goto, job, locks, Labels, WriterLabels, EntryLabels,
             ReaderLabels, RemoveLabels, Locks, Entries, JobOK, RoomLabels,
             EnsureLabels, DiffLabels, TempLabels, WriterHeldBy, OneWriter,
             WriterGuardsEntries, Exclusion, ReadHeldBy, EntryHeldBy, VictimApart
<1> QED
  BY <1>1, <1>2, <1>3, <1>4, <1>5, <1>6, <1>7, <1>8, <1>9, <1>10, <1>11,
     <1>12, <1>13, <1>14, <1>15, <1>16, <1>17, <1>18, <1>19, <1>20, <1>21,
     <1>22, <1>23, <1>24, <1>25, <1>26, <1>27, <1>28, <1>29, <1>30, <1>31,
     <1>32, <1>33, <1>34, <1>35, <1>36, <1>37, <1>38, <1>39, <1>40
  DEF FaultyNext, Next, Start, Step, EnsureStep, DiffStep, RemoveStep, RoomStep

-----------------------------------------------------------------------------
\* The initial state has the types, the jobs and the locks in order.
\* The initial state has the types, the jobs and the locks in order.
LEMMA InitInv == Init => TypeOK /\ JobInv /\ LockInv
<1> SUFFICES ASSUME Init PROVE TypeOK /\ JobInv /\ LockInv
  OBVIOUS
<1>1. TypeOK
  BY Distinct DEF Init, TypeOK, Labels, Absent, Contents, Trees
<1>2. JobInv
  BY Distinct DEF Init, JobInv, JobOK, EnsureLabels, TempLabels, DiffLabels,
     RoomLabels, RemoveLabels
<1>3. LockInv
  BY Distinct DEF Init, LockInv, WriterHeldBy, OneWriter, WriterGuardsEntries,
     Exclusion, ReadHeldBy, EntryHeldBy, VictimApart, Locks, WriterLabels, Labels,
     EntryLabels, ReaderLabels
<1> QED BY <1>1, <1>2, <1>3

\* The variables keep their types, and where a request stands keeps saying which
\* operation it is in and what it works on (JobInv), whatever dies or fails.
THEOREM TypeCorrect == FaultySpec => [](TypeOK /\ JobInv /\ LockInv)
<1>1. Init => TypeOK /\ JobInv /\ LockInv
  BY InitInv
<1>2. TypeOK /\ JobInv /\ LockInv /\ [FaultyNext]_vars
      => (TypeOK /\ JobInv /\ LockInv)'
  BY TypePreserved, JobPreserved, LockPreserved
<1> QED BY <1>1, <1>2, PTL DEF FaultySpec

\* The lock discipline behind Lock.Share and Budget (cache.go:87, 111): only the
\* holder of the writer lock holds entries exclusively, in any interleaving.
THEOREM LockDiscipline == FaultySpec => []WriterGuardsEntries
<1>1. LockInv => WriterGuardsEntries
  BY DEF LockInv
<1> QED BY <1>1, TypeCorrect, PTL

-----------------------------------------------------------------------------
\* A temporary in use has its directory.
LEMMA TemporaryPreserved ==
  ASSUME TypeOK, JobInv, LockInv, LiveTemporaryKept, [FaultyNext]_vars
  PROVE  \A q \in Procs : temp'[q] # None => disk'[temp'[q]].dir
<1> SUFFICES ASSUME NEW q \in Procs, temp'[q] # None PROVE disk'[temp'[q]].dir
  OBVIOUS
<1> JobOK(q) /\ (temp[q] # None => disk[temp[q]].dir)
  BY DEF JobInv, LiveTemporaryKept
<1> USE DEF TypeOK, JobOK, Goto, job, locks, Labels, WriterLabels, TempLabels,
            RoomLabels, EnsureLabels, DiffLabels, RemoveLabels, Entries, Contents
<1>1. ASSUME NEW p \in Procs, NEW s \in Snapshots, StartEnsure(p, s) PROVE disk'[temp'[q]].dir
  <2> JobOK(p)
    BY DEF JobInv
  <2>1. temp[q] # None /\ q # p => pc[p] \notin WriterLabels
    BY DEF LockInv, WriterHeldBy, OneWriter
  <2> QED BY <1>1, <2>1, Distinct, ContentsFacts DEF StartEnsure, Discarded, Kept
<1>2. ASSUME NEW p \in Procs, NEW r \in Repos, NEW b \in Bases, StartDiff(p, r, b) PROVE disk'[temp'[q]].dir
  <2> JobOK(p)
    BY DEF JobInv
  <2>1. temp[q] # None /\ q # p => pc[p] \notin WriterLabels
    BY DEF LockInv, WriterHeldBy, OneWriter
  <2> QED BY <1>2, <2>1, Distinct, ContentsFacts DEF StartDiff, Discarded, Kept
<1>3. ASSUME NEW p \in Procs, NEW root \in {Entries, Repos}, StartRemove(p, root) PROVE disk'[temp'[q]].dir
  <2> JobOK(p)
    BY DEF JobInv
  <2>1. temp[q] # None /\ q # p => pc[p] \notin WriterLabels
    BY DEF LockInv, WriterHeldBy, OneWriter
  <2> QED BY <1>3, <2>1, Distinct, ContentsFacts DEF StartRemove, Discarded, Kept
<1>4. ASSUME NEW p \in Procs, AcquireWriter(p) PROVE disk'[temp'[q]].dir
  <2> JobOK(p)
    BY DEF JobInv
  <2>1. temp[q] # None /\ q # p => pc[p] \notin WriterLabels
    BY DEF LockInv, WriterHeldBy, OneWriter
  <2> QED BY <1>4, <2>1, Distinct, ContentsFacts DEF AcquireWriter, Discarded, Kept
<1>5. ASSUME NEW p \in Procs, AcquireEntry(p) PROVE disk'[temp'[q]].dir
  <2> JobOK(p)
    BY DEF JobInv
  <2>1. temp[q] # None /\ q # p => pc[p] \notin WriterLabels
    BY DEF LockInv, WriterHeldBy, OneWriter
  <2> QED BY <1>5, <2>1, Distinct, ContentsFacts DEF AcquireEntry, Discarded, Kept
<1>6. ASSUME NEW p \in Procs, Discard(p) PROVE disk'[temp'[q]].dir
  <2> JobOK(p)
    BY DEF JobInv
  <2>1. temp[q] # None /\ q # p => pc[p] \notin WriterLabels
    BY DEF LockInv, WriterHeldBy, OneWriter
  <2> QED BY <1>6, <2>1, Distinct, ContentsFacts DEF Discard, Return, Discarded, Kept
<1>7. ASSUME NEW p \in Procs, Cancel(p) PROVE disk'[temp'[q]].dir
  <2> JobOK(p)
    BY DEF JobInv
  <2>1. temp[q] # None /\ q # p => pc[p] \notin WriterLabels
    BY DEF LockInv, WriterHeldBy, OneWriter
  <2> QED BY <1>7, <2>1, Distinct, ContentsFacts DEF Cancel, Return, Discarded, Kept
<1>8. ASSUME NEW p \in Procs, AcquireRead(p) PROVE disk'[temp'[q]].dir
  <2> JobOK(p)
    BY DEF JobInv
  <2>1. temp[q] # None /\ q # p => pc[p] \notin WriterLabels
    BY DEF LockInv, WriterHeldBy, OneWriter
  <2> QED BY <1>8, <2>1, Distinct, ContentsFacts DEF AcquireRead, Discarded, Kept
<1>9. ASSUME NEW p \in Procs, Check(p) PROVE disk'[temp'[q]].dir
  <2> JobOK(p)
    BY DEF JobInv
  <2>1. temp[q] # None /\ q # p => pc[p] \notin WriterLabels
    BY DEF LockInv, WriterHeldBy, OneWriter
  <2> QED BY <1>9, <2>1, Distinct, ContentsFacts DEF Check, Discarded, Kept
<1>10. ASSUME NEW p \in Procs, AcquireRecheck(p) PROVE disk'[temp'[q]].dir
  <2> JobOK(p)
    BY DEF JobInv
  <2>1. temp[q] # None /\ q # p => pc[p] \notin WriterLabels
    BY DEF LockInv, WriterHeldBy, OneWriter
  <2> QED BY <1>10, <2>1, Distinct, ContentsFacts DEF AcquireRecheck, Discarded, Kept
<1>11. ASSUME NEW p \in Procs, Restat(p) PROVE disk'[temp'[q]].dir
  <2> JobOK(p)
    BY DEF JobInv
  <2>1. temp[q] # None /\ q # p => pc[p] \notin WriterLabels
    BY DEF LockInv, WriterHeldBy, OneWriter
  <2> QED BY <1>11, <2>1, Distinct, ContentsFacts DEF Restat, Discarded, Kept
<1>12. ASSUME NEW p \in Procs, Confirm(p) PROVE disk'[temp'[q]].dir
  <2> JobOK(p)
    BY DEF JobInv
  <2>1. temp[q] # None /\ q # p => pc[p] \notin WriterLabels
    BY DEF LockInv, WriterHeldBy, OneWriter
  <2> QED BY <1>12, <2>1, Distinct, ContentsFacts DEF Confirm, Discarded, Kept
<1>13. ASSUME NEW p \in Procs, MakeTemp(p) PROVE disk'[temp'[q]].dir
  <2> JobOK(p)
    BY DEF JobInv
  <2>1. temp[q] # None /\ q # p => pc[p] \notin WriterLabels
    BY DEF LockInv, WriterHeldBy, OneWriter
  <2> QED BY <1>13, <2>1, Distinct, ContentsFacts DEF MakeTemp, Discarded, Kept
<1>14. ASSUME NEW p \in Procs, Extract(p) PROVE disk'[temp'[q]].dir
  <2> JobOK(p)
    BY DEF JobInv
  <2>1. temp[q] # None /\ q # p => pc[p] \notin WriterLabels
    BY DEF LockInv, WriterHeldBy, OneWriter
  <2> QED BY <1>14, <2>1, Distinct, ContentsFacts DEF Extract, Reserve, Discarded, Kept
<1>15. ASSUME NEW p \in Procs, ExtractFile(p) PROVE disk'[temp'[q]].dir
  <2> JobOK(p)
    BY DEF JobInv
  <2>1. temp[q] # None /\ q # p => pc[p] \notin WriterLabels
    BY DEF LockInv, WriterHeldBy, OneWriter
  <2> QED BY <1>15, <2>1, Distinct, ContentsFacts DEF ExtractFile, Discarded, Kept
<1>16. ASSUME NEW p \in Procs, ExtractFails(p) PROVE disk'[temp'[q]].dir
  <2> JobOK(p)
    BY DEF JobInv
  <2>1. temp[q] # None /\ q # p => pc[p] \notin WriterLabels
    BY DEF LockInv, WriterHeldBy, OneWriter
  <2> QED BY <1>16, <2>1, Distinct, ContentsFacts DEF ExtractFails, Discarded, Kept
<1>17. ASSUME NEW p \in Procs, WriteMetadata(p) PROVE disk'[temp'[q]].dir
  <2> JobOK(p)
    BY DEF JobInv
  <2>1. temp[q] # None /\ q # p => pc[p] \notin WriterLabels
    BY DEF LockInv, WriterHeldBy, OneWriter
  <2> QED BY <1>17, <2>1, Distinct, ContentsFacts DEF WriteMetadata, Discarded, Kept
<1>18. ASSUME NEW p \in Procs, Publish(p) PROVE disk'[temp'[q]].dir
  <2> JobOK(p)
    BY DEF JobInv
  <2>1. temp[q] # None /\ q # p => pc[p] \notin WriterLabels
    BY DEF LockInv, WriterHeldBy, OneWriter
  <2> QED BY <1>18, <2>1, Distinct, ContentsFacts DEF Publish, Discarded, Kept
<1>19. ASSUME NEW p \in Procs, ShareDrop(p) PROVE disk'[temp'[q]].dir
  <2> JobOK(p)
    BY DEF JobInv
  <2>1. temp[q] # None /\ q # p => pc[p] \notin WriterLabels
    BY DEF LockInv, WriterHeldBy, OneWriter
  <2> QED BY <1>19, <2>1, Distinct, ContentsFacts DEF ShareDrop, Discarded, Kept
<1>20. ASSUME NEW p \in Procs, ShareTake(p) PROVE disk'[temp'[q]].dir
  <2> JobOK(p)
    BY DEF JobInv
  <2>1. temp[q] # None /\ q # p => pc[p] \notin WriterLabels
    BY DEF LockInv, WriterHeldBy, OneWriter
  <2> QED BY <1>20, <2>1, Distinct, ContentsFacts DEF ShareTake, Discarded, Kept
<1>21. ASSUME NEW p \in Procs, Release(p) PROVE disk'[temp'[q]].dir
  <2> JobOK(p)
    BY DEF JobInv
  <2>1. temp[q] # None /\ q # p => pc[p] \notin WriterLabels
    BY DEF LockInv, WriterHeldBy, OneWriter
  <2> QED BY <1>21, <2>1, Distinct, ContentsFacts DEF Release, Return, Discarded, Kept
<1>22. ASSUME NEW p \in Procs, OpenRepo(p) PROVE disk'[temp'[q]].dir
  <2> JobOK(p)
    BY DEF JobInv
  <2>1. temp[q] # None /\ q # p => pc[p] \notin WriterLabels
    BY DEF LockInv, WriterHeldBy, OneWriter
  <2> QED BY <1>22, <2>1, Distinct, ContentsFacts DEF OpenRepo, Discarded, Kept
<1>23. ASSUME NEW p \in Procs, InitRepo(p) PROVE disk'[temp'[q]].dir
  <2> JobOK(p)
    BY DEF JobInv
  <2>1. temp[q] # None /\ q # p => pc[p] \notin WriterLabels
    BY DEF LockInv, WriterHeldBy, OneWriter
  <2> QED BY <1>23, <2>1, Distinct, ContentsFacts DEF InitRepo, Reserve, Discarded, Kept
<1>24. ASSUME NEW p \in Procs, Fetch(p) PROVE disk'[temp'[q]].dir
  <2> JobOK(p)
    BY DEF JobInv
  <2>1. temp[q] # None /\ q # p => pc[p] \notin WriterLabels
    BY DEF LockInv, WriterHeldBy, OneWriter
  <2> QED BY <1>24, <2>1, Distinct, ContentsFacts DEF Fetch, Reserve, Discarded, Kept
<1>25. ASSUME NEW p \in Procs, Fetched(p) PROVE disk'[temp'[q]].dir
  <2> JobOK(p)
    BY DEF JobInv
  <2>1. temp[q] # None /\ q # p => pc[p] \notin WriterLabels
    BY DEF LockInv, WriterHeldBy, OneWriter
  <2> QED BY <1>25, <2>1, Distinct, ContentsFacts DEF Fetched, Discarded, Kept
<1>26. ASSUME NEW p \in Procs, FetchFails(p) PROVE disk'[temp'[q]].dir
  <2> JobOK(p)
    BY DEF JobInv
  <2>1. temp[q] # None /\ q # p => pc[p] \notin WriterLabels
    BY DEF LockInv, WriterHeldBy, OneWriter
  <2> QED BY <1>26, <2>1, Distinct, ContentsFacts DEF FetchFails, Return, Discarded, Kept
<1>27. ASSUME NEW p \in Procs, Diff(p) PROVE disk'[temp'[q]].dir
  <2> JobOK(p)
    BY DEF JobInv
  <2>1. temp[q] # None /\ q # p => pc[p] \notin WriterLabels
    BY DEF LockInv, WriterHeldBy, OneWriter
  <2> QED BY <1>27, <2>1, Distinct, ContentsFacts DEF Diff, Return, Discarded, Kept
<1>28. ASSUME NEW p \in Procs, LockNext(p) PROVE disk'[temp'[q]].dir
  <2> JobOK(p)
    BY DEF JobInv
  <2>1. temp[q] # None /\ q # p => pc[p] \notin WriterLabels
    BY DEF LockInv, WriterHeldBy, OneWriter
  <2> QED BY <1>28, <2>1, Distinct, ContentsFacts DEF LockNext, Discarded, Kept
<1>29. ASSUME NEW p \in Procs, LockBusy(p) PROVE disk'[temp'[q]].dir
  <2> JobOK(p)
    BY DEF JobInv
  <2>1. temp[q] # None /\ q # p => pc[p] \notin WriterLabels
    BY DEF LockInv, WriterHeldBy, OneWriter
  <2> QED BY <1>29, <2>1, Distinct, ContentsFacts DEF LockBusy, Return, Discarded, Kept
<1>30. ASSUME NEW p \in Procs, AllLocked(p) PROVE disk'[temp'[q]].dir
  <2> JobOK(p)
    BY DEF JobInv
  <2>1. temp[q] # None /\ q # p => pc[p] \notin WriterLabels
    BY DEF LockInv, WriterHeldBy, OneWriter
  <2> QED BY <1>30, <2>1, Distinct, ContentsFacts DEF AllLocked, Discarded, Kept
<1>31. ASSUME NEW p \in Procs, RemoveSome(p) PROVE disk'[temp'[q]].dir
  <2> JobOK(p)
    BY DEF JobInv
  <2>1. temp[q] # None /\ q # p => pc[p] \notin WriterLabels
    BY DEF LockInv, WriterHeldBy, OneWriter
  <2> QED BY <1>31, <2>1, Distinct, ContentsFacts DEF RemoveSome, Discarded, Kept
<1>32. ASSUME NEW p \in Procs, RemoveDone(p) PROVE disk'[temp'[q]].dir
  <2> JobOK(p)
    BY DEF JobInv
  <2>1. temp[q] # None /\ q # p => pc[p] \notin WriterLabels
    BY DEF LockInv, WriterHeldBy, OneWriter
  <2> QED BY <1>32, <2>1, Distinct, ContentsFacts DEF RemoveDone, Return, Discarded, Kept
<1>33. ASSUME NEW p \in Procs, Evict(p) PROVE disk'[temp'[q]].dir
  <2> JobOK(p)
    BY DEF JobInv
  <2>1. temp[q] # None /\ q # p => pc[p] \notin WriterLabels
    BY DEF LockInv, WriterHeldBy, OneWriter
  <2> QED BY <1>33, <2>1, Distinct, ContentsFacts DEF Evict, Discarded, Kept
<1>34. ASSUME NEW p \in Procs, EvictPartly(p) PROVE disk'[temp'[q]].dir
  <2> JobOK(p)
    BY DEF JobInv
  <2>1. temp[q] # None /\ q # p => pc[p] \notin WriterLabels
    BY DEF LockInv, WriterHeldBy, OneWriter
  <2> QED BY <1>34, <2>1, Distinct, ContentsFacts DEF EvictPartly, Discarded, Kept
<1>35. ASSUME NEW p \in Procs, EvictDone(p) PROVE disk'[temp'[q]].dir
  <2> JobOK(p)
    BY DEF JobInv
  <2>1. temp[q] # None /\ q # p => pc[p] \notin WriterLabels
    BY DEF LockInv, WriterHeldBy, OneWriter
  <2> QED BY <1>35, <2>1, Distinct, ContentsFacts DEF EvictDone, Discarded, Kept
<1>36. ASSUME NEW p \in Procs, RoomMade(p) PROVE disk'[temp'[q]].dir
  <2> JobOK(p)
    BY DEF JobInv
  <2>1. temp[q] # None /\ q # p => pc[p] \notin WriterLabels
    BY DEF LockInv, WriterHeldBy, OneWriter
  <2> QED BY <1>36, <2>1, Distinct, ContentsFacts DEF RoomMade, Discarded, Kept
<1>37. ASSUME NEW p \in Procs, NoRoom(p) PROVE disk'[temp'[q]].dir
  <2> JobOK(p)
    BY DEF JobInv
  <2>1. temp[q] # None /\ q # p => pc[p] \notin WriterLabels
    BY DEF LockInv, WriterHeldBy, OneWriter
  <2> QED BY <1>37, <2>1, Distinct, ContentsFacts DEF NoRoom, Discarded, Kept
<1>38. ASSUME NEW p \in Procs, Crash(p) PROVE disk'[temp'[q]].dir
  <2> JobOK(p)
    BY DEF JobInv
  <2>1. temp[q] # None /\ q # p => pc[p] \notin WriterLabels
    BY DEF LockInv, WriterHeldBy, OneWriter
  <2> QED BY <1>38, <2>1, Distinct, ContentsFacts DEF Crash, Return, Discarded, Kept
<1>39. ASSUME NEW p \in Procs, RemoveError(p) PROVE disk'[temp'[q]].dir
  <2> JobOK(p)
    BY DEF JobInv
  <2>1. temp[q] # None /\ q # p => pc[p] \notin WriterLabels
    BY DEF LockInv, WriterHeldBy, OneWriter
  <2> QED BY <1>39, <2>1, Distinct, ContentsFacts DEF RemoveError, Return, Discarded, Kept
<1>40. CASE UNCHANGED vars
  BY <1>40 DEF vars
<1> QED
  BY <1>1, <1>2, <1>3, <1>4, <1>5, <1>6, <1>7, <1>8, <1>9, <1>10, <1>11,
     <1>12, <1>13, <1>14, <1>15, <1>16, <1>17, <1>18, <1>19, <1>20, <1>21,
     <1>22, <1>23, <1>24, <1>25, <1>26, <1>27, <1>28, <1>29, <1>30, <1>31,
     <1>32, <1>33, <1>34, <1>35, <1>36, <1>37, <1>38, <1>39, <1>40
  DEF FaultyNext, Next, Start, Step, EnsureStep, DiffStep, RemoveStep, RoomStep

\* RemoveTree keeps the lock of every entry it found in the list.
LEMMA ListedLockedPreserved ==
  ASSUME TypeOK, JobInv, LockInv, ListedLocked, [FaultyNext]_vars
  PROVE  ListedLocked'
<1> SUFFICES ASSUME NEW q \in Procs, pc'[q] = "remove", NEW e \in scope'[q], Listed(e)'
             PROVE  q \in excl'[e]
  BY DEF ListedLocked
<1> pc[q] = "remove" /\ e \in scope[q] /\ Listed(e) => q \in excl[e]
  BY DEF ListedLocked
<1> USE DEF TypeOK, JobOK, Goto, job, locks, Labels, WriterLabels, TempLabels,
            RoomLabels, EnsureLabels, DiffLabels, Entries, Locks, Contents, Listed,
            LockExcl, LockShared, UnlockExcl, UnlockShared, UnlockAll, Absent
<1>1. ASSUME NEW p \in Procs, NEW s \in Snapshots, StartEnsure(p, s) PROVE q \in excl'[e]
  <2>1. UNCHANGED <<excl, disk, scope>> /\ pc' = [pc EXCEPT ![p] = "read"]
    BY <1>1, SMTT(30) DEF StartEnsure
  <2> QED BY <2>1
<1>2. ASSUME NEW p \in Procs, NEW r \in Repos, NEW b \in Bases, StartDiff(p, r, b) PROVE q \in excl'[e]
  <2>1. UNCHANGED <<excl, disk, scope>> /\ pc' = [pc EXCEPT ![p] = "writer"]
    BY <1>2, SMTT(30) DEF StartDiff
  <2> QED BY <2>1
<1>3. ASSUME NEW p \in Procs, NEW root \in {Entries, Repos}, StartRemove(p, root) PROVE q \in excl'[e]
  <2> JobOK(p)
    BY DEF JobInv
  <2>1. pc[q] = "remove" /\ q # p => pc[p] \notin WriterLabels
    BY DEF LockInv, WriterHeldBy, OneWriter
  <2> QED BY <1>3, <2>1, Distinct DEF StartRemove, Discarded
<1>4. ASSUME NEW p \in Procs, AcquireWriter(p) PROVE q \in excl'[e]
  <2> JobOK(p)
    BY DEF JobInv
  <2>1. pc[q] = "remove" /\ q # p => pc[p] \notin WriterLabels
    BY DEF LockInv, WriterHeldBy, OneWriter
  <2> QED BY <1>4, <2>1, Distinct DEF AcquireWriter, Discarded
<1>5. ASSUME NEW p \in Procs, AcquireEntry(p) PROVE q \in excl'[e]
  <2> JobOK(p)
    BY DEF JobInv
  <2>1. pc[q] = "remove" /\ q # p => pc[p] \notin WriterLabels
    BY DEF LockInv, WriterHeldBy, OneWriter
  <2> QED BY <1>5, <2>1, Distinct DEF AcquireEntry, Discarded
<1>6. ASSUME NEW p \in Procs, Discard(p) PROVE q \in excl'[e]
  <2> JobOK(p)
    BY DEF JobInv
  <2>1. pc[q] = "remove" /\ q # p => pc[p] \notin WriterLabels
    BY DEF LockInv, WriterHeldBy, OneWriter
  <2> QED BY <1>6, <2>1, Distinct DEF Discard, Return, Discarded
<1>7. ASSUME NEW p \in Procs, Cancel(p) PROVE q \in excl'[e]
  <2> JobOK(p)
    BY DEF JobInv
  <2>1. pc[q] = "remove" /\ q # p => pc[p] \notin WriterLabels
    BY DEF LockInv, WriterHeldBy, OneWriter
  <2> QED BY <1>7, <2>1, Distinct DEF Cancel, Return, Discarded
<1>8. ASSUME NEW p \in Procs, AcquireRead(p) PROVE q \in excl'[e]
  <2> JobOK(p)
    BY DEF JobInv
  <2>1. pc[q] = "remove" /\ q # p => pc[p] \notin WriterLabels
    BY DEF LockInv, WriterHeldBy, OneWriter
  <2> QED BY <1>8, <2>1, Distinct DEF AcquireRead, Discarded
<1>9. ASSUME NEW p \in Procs, Check(p) PROVE q \in excl'[e]
  <2> JobOK(p)
    BY DEF JobInv
  <2>1. pc[q] = "remove" /\ q # p => pc[p] \notin WriterLabels
    BY DEF LockInv, WriterHeldBy, OneWriter
  <2> QED BY <1>9, <2>1, Distinct DEF Check, Discarded
<1>10. ASSUME NEW p \in Procs, AcquireRecheck(p) PROVE q \in excl'[e]
  <2> JobOK(p)
    BY DEF JobInv
  <2>1. pc[q] = "remove" /\ q # p => pc[p] \notin WriterLabels
    BY DEF LockInv, WriterHeldBy, OneWriter
  <2> QED BY <1>10, <2>1, Distinct DEF AcquireRecheck, Discarded
<1>11. ASSUME NEW p \in Procs, Restat(p) PROVE q \in excl'[e]
  <2> JobOK(p)
    BY DEF JobInv
  <2>1. pc[q] = "remove" /\ q # p => pc[p] \notin WriterLabels
    BY DEF LockInv, WriterHeldBy, OneWriter
  <2> QED BY <1>11, <2>1, Distinct DEF Restat, Discarded
<1>12. ASSUME NEW p \in Procs, Confirm(p) PROVE q \in excl'[e]
  <2> JobOK(p)
    BY DEF JobInv
  <2>1. pc[q] = "remove" /\ q # p => pc[p] \notin WriterLabels
    BY DEF LockInv, WriterHeldBy, OneWriter
  <2> QED BY <1>12, <2>1, Distinct DEF Confirm, Discarded
<1>13. ASSUME NEW p \in Procs, MakeTemp(p) PROVE q \in excl'[e]
  <2> JobOK(p)
    BY DEF JobInv
  <2>1. pc[q] = "remove" /\ q # p => pc[p] \notin WriterLabels
    BY DEF LockInv, WriterHeldBy, OneWriter
  <2> QED BY <1>13, <2>1, Distinct DEF MakeTemp, Discarded
<1>14. ASSUME NEW p \in Procs, Extract(p) PROVE q \in excl'[e]
  <2> JobOK(p)
    BY DEF JobInv
  <2>1. pc[q] = "remove" /\ q # p => pc[p] \notin WriterLabels
    BY DEF LockInv, WriterHeldBy, OneWriter
  <2> QED BY <1>14, <2>1, Distinct DEF Extract, Reserve, Discarded
<1>15. ASSUME NEW p \in Procs, ExtractFile(p) PROVE q \in excl'[e]
  <2> JobOK(p)
    BY DEF JobInv
  <2>1. pc[q] = "remove" /\ q # p => pc[p] \notin WriterLabels
    BY DEF LockInv, WriterHeldBy, OneWriter
  <2> QED BY <1>15, <2>1, Distinct DEF ExtractFile, Discarded
<1>16. ASSUME NEW p \in Procs, ExtractFails(p) PROVE q \in excl'[e]
  <2> JobOK(p)
    BY DEF JobInv
  <2>1. pc[q] = "remove" /\ q # p => pc[p] \notin WriterLabels
    BY DEF LockInv, WriterHeldBy, OneWriter
  <2> QED BY <1>16, <2>1, Distinct DEF ExtractFails, Discarded
<1>17. ASSUME NEW p \in Procs, WriteMetadata(p) PROVE q \in excl'[e]
  <2> JobOK(p)
    BY DEF JobInv
  <2>1. pc[q] = "remove" /\ q # p => pc[p] \notin WriterLabels
    BY DEF LockInv, WriterHeldBy, OneWriter
  <2> QED BY <1>17, <2>1, Distinct DEF WriteMetadata, Discarded
<1>18. ASSUME NEW p \in Procs, Publish(p) PROVE q \in excl'[e]
  <2> JobOK(p)
    BY DEF JobInv
  <2>1. pc[q] = "remove" /\ q # p => pc[p] \notin WriterLabels
    BY DEF LockInv, WriterHeldBy, OneWriter
  <2> QED BY <1>18, <2>1, Distinct DEF Publish, Discarded
<1>19. ASSUME NEW p \in Procs, ShareDrop(p) PROVE q \in excl'[e]
  <2> JobOK(p)
    BY DEF JobInv
  <2>1. pc[q] = "remove" /\ q # p => pc[p] \notin WriterLabels
    BY DEF LockInv, WriterHeldBy, OneWriter
  <2> QED BY <1>19, <2>1, Distinct DEF ShareDrop, Discarded
<1>20. ASSUME NEW p \in Procs, ShareTake(p) PROVE q \in excl'[e]
  <2> JobOK(p)
    BY DEF JobInv
  <2>1. pc[q] = "remove" /\ q # p => pc[p] \notin WriterLabels
    BY DEF LockInv, WriterHeldBy, OneWriter
  <2> QED BY <1>20, <2>1, Distinct DEF ShareTake, Discarded
<1>21. ASSUME NEW p \in Procs, Release(p) PROVE q \in excl'[e]
  <2> JobOK(p)
    BY DEF JobInv
  <2>1. pc[q] = "remove" /\ q # p => pc[p] \notin WriterLabels
    BY DEF LockInv, WriterHeldBy, OneWriter
  <2> QED BY <1>21, <2>1, Distinct DEF Release, Return, Discarded
<1>22. ASSUME NEW p \in Procs, OpenRepo(p) PROVE q \in excl'[e]
  <2> JobOK(p)
    BY DEF JobInv
  <2>1. pc[q] = "remove" /\ q # p => pc[p] \notin WriterLabels
    BY DEF LockInv, WriterHeldBy, OneWriter
  <2> QED BY <1>22, <2>1, Distinct DEF OpenRepo, Discarded
<1>23. ASSUME NEW p \in Procs, InitRepo(p) PROVE q \in excl'[e]
  <2> JobOK(p)
    BY DEF JobInv
  <2>1. pc[q] = "remove" /\ q # p => pc[p] \notin WriterLabels
    BY DEF LockInv, WriterHeldBy, OneWriter
  <2> QED BY <1>23, <2>1, Distinct DEF InitRepo, Reserve, Discarded
<1>24. ASSUME NEW p \in Procs, Fetch(p) PROVE q \in excl'[e]
  <2> JobOK(p)
    BY DEF JobInv
  <2>1. pc[q] = "remove" /\ q # p => pc[p] \notin WriterLabels
    BY DEF LockInv, WriterHeldBy, OneWriter
  <2> QED BY <1>24, <2>1, Distinct DEF Fetch, Reserve, Discarded
<1>25. ASSUME NEW p \in Procs, Fetched(p) PROVE q \in excl'[e]
  <2> JobOK(p)
    BY DEF JobInv
  <2>1. pc[q] = "remove" /\ q # p => pc[p] \notin WriterLabels
    BY DEF LockInv, WriterHeldBy, OneWriter
  <2> QED BY <1>25, <2>1, Distinct DEF Fetched, Discarded
<1>26. ASSUME NEW p \in Procs, FetchFails(p) PROVE q \in excl'[e]
  <2> JobOK(p)
    BY DEF JobInv
  <2>1. pc[q] = "remove" /\ q # p => pc[p] \notin WriterLabels
    BY DEF LockInv, WriterHeldBy, OneWriter
  <2> QED BY <1>26, <2>1, Distinct DEF FetchFails, Return, Discarded
<1>27. ASSUME NEW p \in Procs, Diff(p) PROVE q \in excl'[e]
  <2> JobOK(p)
    BY DEF JobInv
  <2>1. pc[q] = "remove" /\ q # p => pc[p] \notin WriterLabels
    BY DEF LockInv, WriterHeldBy, OneWriter
  <2> QED BY <1>27, <2>1, Distinct DEF Diff, Return, Discarded
<1>28. ASSUME NEW p \in Procs, LockNext(p) PROVE q \in excl'[e]
  <2> JobOK(p)
    BY DEF JobInv
  <2>1. pc[q] = "remove" /\ q # p => pc[p] \notin WriterLabels
    BY DEF LockInv, WriterHeldBy, OneWriter
  <2> QED BY <1>28, <2>1, Distinct DEF LockNext, Discarded, Unlocked
<1>29. ASSUME NEW p \in Procs, LockBusy(p) PROVE q \in excl'[e]
  <2> JobOK(p)
    BY DEF JobInv
  <2>1. pc[q] = "remove" /\ q # p => pc[p] \notin WriterLabels
    BY DEF LockInv, WriterHeldBy, OneWriter
  <2> QED BY <1>29, <2>1, Distinct DEF LockBusy, Return, Discarded
<1>30. ASSUME NEW p \in Procs, AllLocked(p) PROVE q \in excl'[e]
  <2> JobOK(p)
    BY DEF JobInv
  <2>1. pc[q] = "remove" /\ q # p => pc[p] \notin WriterLabels
    BY DEF LockInv, WriterHeldBy, OneWriter
  <2> QED BY <1>30, <2>1, Distinct DEF AllLocked, Discarded, Unlocked
<1>31. ASSUME NEW p \in Procs, RemoveSome(p) PROVE q \in excl'[e]
  <2> JobOK(p)
    BY DEF JobInv
  <2>1. pc[q] = "remove" /\ q # p => pc[p] \notin WriterLabels
    BY DEF LockInv, WriterHeldBy, OneWriter
  <2> QED BY <1>31, <2>1, Distinct DEF RemoveSome, Discarded, Remains
<1>32. ASSUME NEW p \in Procs, RemoveDone(p) PROVE q \in excl'[e]
  <2> JobOK(p)
    BY DEF JobInv
  <2>1. pc[q] = "remove" /\ q # p => pc[p] \notin WriterLabels
    BY DEF LockInv, WriterHeldBy, OneWriter
  <2> QED BY <1>32, <2>1, Distinct DEF RemoveDone, Return, Discarded
<1>33. ASSUME NEW p \in Procs, Evict(p) PROVE q \in excl'[e]
  <2> JobOK(p)
    BY DEF JobInv
  <2>1. pc[q] = "remove" /\ q # p => pc[p] \notin WriterLabels
    BY DEF LockInv, WriterHeldBy, OneWriter
  <2> QED BY <1>33, <2>1, Distinct DEF Evict, Discarded
<1>34. ASSUME NEW p \in Procs, EvictPartly(p) PROVE q \in excl'[e]
  <2> JobOK(p)
    BY DEF JobInv
  <2>1. pc[q] = "remove" /\ q # p => pc[p] \notin WriterLabels
    BY DEF LockInv, WriterHeldBy, OneWriter
  <2> QED BY <1>34, <2>1, Distinct DEF EvictPartly, Discarded
<1>35. ASSUME NEW p \in Procs, EvictDone(p) PROVE q \in excl'[e]
  <2> JobOK(p)
    BY DEF JobInv
  <2>1. pc[q] = "remove" /\ q # p => pc[p] \notin WriterLabels
    BY DEF LockInv, WriterHeldBy, OneWriter
  <2> QED BY <1>35, <2>1, Distinct DEF EvictDone, Discarded
<1>36. ASSUME NEW p \in Procs, RoomMade(p) PROVE q \in excl'[e]
  <2> JobOK(p)
    BY DEF JobInv
  <2>1. pc[q] = "remove" /\ q # p => pc[p] \notin WriterLabels
    BY DEF LockInv, WriterHeldBy, OneWriter
  <2> QED BY <1>36, <2>1, Distinct DEF RoomMade, Discarded
<1>37. ASSUME NEW p \in Procs, NoRoom(p) PROVE q \in excl'[e]
  <2> JobOK(p)
    BY DEF JobInv
  <2>1. pc[q] = "remove" /\ q # p => pc[p] \notin WriterLabels
    BY DEF LockInv, WriterHeldBy, OneWriter
  <2> QED BY <1>37, <2>1, Distinct DEF NoRoom, Discarded
<1>38. ASSUME NEW p \in Procs, Crash(p) PROVE q \in excl'[e]
  <2> JobOK(p)
    BY DEF JobInv
  <2>1. pc[q] = "remove" /\ q # p => pc[p] \notin WriterLabels
    BY DEF LockInv, WriterHeldBy, OneWriter
  <2> QED BY <1>38, <2>1, Distinct DEF Crash, Return, Discarded
<1>39. ASSUME NEW p \in Procs, RemoveError(p) PROVE q \in excl'[e]
  <2> JobOK(p)
    BY DEF JobInv
  <2>1. pc[q] = "remove" /\ q # p => pc[p] \notin WriterLabels
    BY DEF LockInv, WriterHeldBy, OneWriter
  <2> QED BY <1>39, <2>1, Distinct DEF RemoveError, Return, Discarded
<1>40. CASE UNCHANGED vars
  BY <1>40 DEF vars
<1> QED
  BY <1>1, <1>2, <1>3, <1>4, <1>5, <1>6, <1>7, <1>8, <1>9, <1>10, <1>11,
     <1>12, <1>13, <1>14, <1>15, <1>16, <1>17, <1>18, <1>19, <1>20, <1>21,
     <1>22, <1>23, <1>24, <1>25, <1>26, <1>27, <1>28, <1>29, <1>30, <1>31,
     <1>32, <1>33, <1>34, <1>35, <1>36, <1>37, <1>38, <1>39, <1>40
  DEF FaultyNext, Next, Start, Step, EnsureStep, DiffStep, RemoveStep, RoomStep

\* No step changes a listed entry whose lock somebody shares.
LEMMA ListedKept ==
  ASSUME TypeOK, JobInv, LockInv, ListedLocked, [FaultyNext]_vars,
         NEW e \in Entries, shared[e] # {}, Listed(e)
  PROVE  disk'[e] = disk[e]
<1>a. excl[e] = {}
  BY DEF LockInv, Exclusion, Locks
<1>b. e \notin Temps
  BY Distinct DEF TypeOK, LockInv, ReadHeldBy, Locks
<1> USE <1>a, <1>b DEF TypeOK, JobOK, LockInv, EntryHeldBy, ListedLocked, job, locks,
                      Labels, EntryLabels,
            WriterLabels, TempLabels, RoomLabels, EnsureLabels, DiffLabels, RemoveLabels, Entries
<1>1. ASSUME NEW p \in Procs, NEW s \in Snapshots, StartEnsure(p, s) PROVE disk'[e] = disk[e]
  <2> JobOK(p)
    BY DEF JobInv
  <2> QED BY <1>1, Distinct DEF StartEnsure, Discarded
<1>2. ASSUME NEW p \in Procs, NEW r \in Repos, NEW b \in Bases, StartDiff(p, r, b) PROVE disk'[e] = disk[e]
  <2> JobOK(p)
    BY DEF JobInv
  <2> QED BY <1>2, Distinct DEF StartDiff, Discarded
<1>3. ASSUME NEW p \in Procs, NEW root \in {Entries, Repos}, StartRemove(p, root) PROVE disk'[e] = disk[e]
  <2> JobOK(p)
    BY DEF JobInv
  <2> QED BY <1>3, Distinct DEF StartRemove, Discarded
<1>4. ASSUME NEW p \in Procs, AcquireWriter(p) PROVE disk'[e] = disk[e]
  <2> JobOK(p)
    BY DEF JobInv
  <2> QED BY <1>4, Distinct DEF AcquireWriter, Discarded
<1>5. ASSUME NEW p \in Procs, AcquireEntry(p) PROVE disk'[e] = disk[e]
  <2> JobOK(p)
    BY DEF JobInv
  <2> QED BY <1>5, Distinct DEF AcquireEntry, Discarded
<1>6. ASSUME NEW p \in Procs, Discard(p) PROVE disk'[e] = disk[e]
  <2> JobOK(p)
    BY DEF JobInv
  <2> QED BY <1>6, Distinct DEF Discard, Return, Discarded
<1>7. ASSUME NEW p \in Procs, Cancel(p) PROVE disk'[e] = disk[e]
  <2> JobOK(p)
    BY DEF JobInv
  <2> QED BY <1>7, Distinct DEF Cancel, Return, Discarded
<1>8. ASSUME NEW p \in Procs, AcquireRead(p) PROVE disk'[e] = disk[e]
  <2> JobOK(p)
    BY DEF JobInv
  <2> QED BY <1>8, Distinct DEF AcquireRead, Discarded
<1>9. ASSUME NEW p \in Procs, Check(p) PROVE disk'[e] = disk[e]
  <2> JobOK(p)
    BY DEF JobInv
  <2> QED BY <1>9, Distinct DEF Check, Discarded
<1>10. ASSUME NEW p \in Procs, AcquireRecheck(p) PROVE disk'[e] = disk[e]
  <2> JobOK(p)
    BY DEF JobInv
  <2> QED BY <1>10, Distinct DEF AcquireRecheck, Discarded
<1>11. ASSUME NEW p \in Procs, Restat(p) PROVE disk'[e] = disk[e]
  <2> JobOK(p)
    BY DEF JobInv
  <2> QED BY <1>11, Distinct DEF Restat, Discarded
<1>12. ASSUME NEW p \in Procs, Confirm(p) PROVE disk'[e] = disk[e]
  <2> JobOK(p)
    BY DEF JobInv
  <2> QED BY <1>12, Distinct DEF Confirm, Discarded
<1>13. ASSUME NEW p \in Procs, MakeTemp(p) PROVE disk'[e] = disk[e]
  <2> JobOK(p)
    BY DEF JobInv
  <2> QED BY <1>13, Distinct DEF MakeTemp, Discarded
<1>14. ASSUME NEW p \in Procs, Extract(p) PROVE disk'[e] = disk[e]
  <2> JobOK(p)
    BY DEF JobInv
  <2> QED BY <1>14, Distinct DEF Extract, Reserve, Discarded
<1>15. ASSUME NEW p \in Procs, ExtractFile(p) PROVE disk'[e] = disk[e]
  <2> JobOK(p)
    BY DEF JobInv
  <2> QED BY <1>15, Distinct DEF ExtractFile, Discarded
<1>16. ASSUME NEW p \in Procs, ExtractFails(p) PROVE disk'[e] = disk[e]
  <2> JobOK(p)
    BY DEF JobInv
  <2> QED BY <1>16, Distinct DEF ExtractFails, Discarded
<1>17. ASSUME NEW p \in Procs, WriteMetadata(p) PROVE disk'[e] = disk[e]
  <2> JobOK(p)
    BY DEF JobInv
  <2> QED BY <1>17, Distinct DEF WriteMetadata, Discarded
<1>18. ASSUME NEW p \in Procs, Publish(p) PROVE disk'[e] = disk[e]
  <2> JobOK(p)
    BY DEF JobInv
  <2> QED BY <1>18, Distinct DEF Publish, Discarded
<1>19. ASSUME NEW p \in Procs, ShareDrop(p) PROVE disk'[e] = disk[e]
  <2> JobOK(p)
    BY DEF JobInv
  <2> QED BY <1>19, Distinct DEF ShareDrop, Discarded
<1>20. ASSUME NEW p \in Procs, ShareTake(p) PROVE disk'[e] = disk[e]
  <2> JobOK(p)
    BY DEF JobInv
  <2> QED BY <1>20, Distinct DEF ShareTake, Discarded
<1>21. ASSUME NEW p \in Procs, Release(p) PROVE disk'[e] = disk[e]
  <2> JobOK(p)
    BY DEF JobInv
  <2> QED BY <1>21, Distinct DEF Release, Return, Discarded
<1>22. ASSUME NEW p \in Procs, OpenRepo(p) PROVE disk'[e] = disk[e]
  <2> JobOK(p)
    BY DEF JobInv
  <2> QED BY <1>22, Distinct DEF OpenRepo, Discarded
<1>23. ASSUME NEW p \in Procs, InitRepo(p) PROVE disk'[e] = disk[e]
  <2> JobOK(p)
    BY DEF JobInv
  <2> QED BY <1>23, Distinct DEF InitRepo, Reserve, Discarded
<1>24. ASSUME NEW p \in Procs, Fetch(p) PROVE disk'[e] = disk[e]
  <2> JobOK(p)
    BY DEF JobInv
  <2> QED BY <1>24, Distinct DEF Fetch, Reserve, Discarded
<1>25. ASSUME NEW p \in Procs, Fetched(p) PROVE disk'[e] = disk[e]
  <2> JobOK(p)
    BY DEF JobInv
  <2> QED BY <1>25, Distinct DEF Fetched, Discarded
<1>26. ASSUME NEW p \in Procs, FetchFails(p) PROVE disk'[e] = disk[e]
  <2> JobOK(p)
    BY DEF JobInv
  <2> QED BY <1>26, Distinct DEF FetchFails, Return, Discarded
<1>27. ASSUME NEW p \in Procs, Diff(p) PROVE disk'[e] = disk[e]
  <2> JobOK(p)
    BY DEF JobInv
  <2> QED BY <1>27, Distinct DEF Diff, Return, Discarded
<1>28. ASSUME NEW p \in Procs, LockNext(p) PROVE disk'[e] = disk[e]
  <2> JobOK(p)
    BY DEF JobInv
  <2> QED BY <1>28, Distinct DEF LockNext, Discarded
<1>29. ASSUME NEW p \in Procs, LockBusy(p) PROVE disk'[e] = disk[e]
  <2> JobOK(p)
    BY DEF JobInv
  <2> QED BY <1>29, Distinct DEF LockBusy, Return, Discarded
<1>30. ASSUME NEW p \in Procs, AllLocked(p) PROVE disk'[e] = disk[e]
  <2> JobOK(p)
    BY DEF JobInv
  <2> QED BY <1>30, Distinct DEF AllLocked, Discarded
<1>31. ASSUME NEW p \in Procs, RemoveSome(p) PROVE disk'[e] = disk[e]
  <2> JobOK(p)
    BY DEF JobInv
  <2> QED BY <1>31, Distinct DEF RemoveSome, Discarded
<1>32. ASSUME NEW p \in Procs, RemoveDone(p) PROVE disk'[e] = disk[e]
  <2> JobOK(p)
    BY DEF JobInv
  <2> QED BY <1>32, Distinct DEF RemoveDone, Return, Discarded
<1>33. ASSUME NEW p \in Procs, Evict(p) PROVE disk'[e] = disk[e]
  <2> JobOK(p)
    BY DEF JobInv
  <2> QED BY <1>33, Distinct DEF Evict, Discarded
<1>34. ASSUME NEW p \in Procs, EvictPartly(p) PROVE disk'[e] = disk[e]
  <2> JobOK(p)
    BY DEF JobInv
  <2> QED BY <1>34, Distinct DEF EvictPartly, Discarded
<1>35. ASSUME NEW p \in Procs, EvictDone(p) PROVE disk'[e] = disk[e]
  <2> JobOK(p)
    BY DEF JobInv
  <2> QED BY <1>35, Distinct DEF EvictDone, Discarded
<1>36. ASSUME NEW p \in Procs, RoomMade(p) PROVE disk'[e] = disk[e]
  <2> JobOK(p)
    BY DEF JobInv
  <2> QED BY <1>36, Distinct DEF RoomMade, Discarded
<1>37. ASSUME NEW p \in Procs, NoRoom(p) PROVE disk'[e] = disk[e]
  <2> JobOK(p)
    BY DEF JobInv
  <2> QED BY <1>37, Distinct DEF NoRoom, Discarded
<1>38. ASSUME NEW p \in Procs, Crash(p) PROVE disk'[e] = disk[e]
  <2> JobOK(p)
    BY DEF JobInv
  <2> QED BY <1>38, Distinct DEF Crash, Return, Discarded
<1>39. ASSUME NEW p \in Procs, RemoveError(p) PROVE disk'[e] = disk[e]
  <2> JobOK(p)
    BY DEF JobInv
  <2> QED BY <1>39, Distinct DEF RemoveError, Return, Discarded
<1>40. CASE UNCHANGED vars
  BY <1>40 DEF vars
<1> HIDE DEF TypeOK, JobOK, LockInv, EntryHeldBy, ListedLocked, job, locks, Labels,
             EntryLabels, WriterLabels, TempLabels, RoomLabels, EnsureLabels,
             DiffLabels, RemoveLabels, Entries
<1> QED
  BY <1>1, <1>2, <1>3, <1>4, <1>5, <1>6, <1>7, <1>8, <1>9, <1>10, <1>11,
     <1>12, <1>13, <1>14, <1>15, <1>16, <1>17, <1>18, <1>19, <1>20, <1>21,
     <1>22, <1>23, <1>24, <1>25, <1>26, <1>27, <1>28, <1>29, <1>30, <1>31,
     <1>32, <1>33, <1>34, <1>35, <1>36, <1>37, <1>38, <1>39, <1>40
  DEF FaultyNext, Next, Start, Step, EnsureStep, DiffStep, RemoveStep, RoomStep

\* What stays true when requests die and removals fail.
FaultInv == TypeOK /\ JobInv /\ LockInv /\ LiveTemporaryKept /\ ListedLocked

\* The invariant that crashes and failing removals leave true.
LEMMA FaultInvariant == FaultySpec => []FaultInv
<1>1. Init => FaultInv
  <2> SUFFICES ASSUME Init PROVE FaultInv
    OBVIOUS
  <2>1. TypeOK /\ JobInv /\ LockInv
    BY InitInv
  <2>2. LiveTemporaryKept /\ ListedLocked
    BY DEF Init, LiveTemporaryKept, ListedLocked
  <2> QED BY <2>1, <2>2 DEF FaultInv
<1>2. FaultInv /\ [FaultyNext]_vars => FaultInv'
  <2> SUFFICES ASSUME FaultInv, [FaultyNext]_vars PROVE FaultInv'
    OBVIOUS
  <2>1. TypeOK' /\ JobInv' /\ LockInv' /\ ListedLocked'
    BY TypePreserved, JobPreserved, LockPreserved, ListedLockedPreserved DEF FaultInv
  <2>2. ASSUME NEW p \in Procs, NEW q \in Procs \ {p}, temp'[p] # None PROVE temp'[q] = None
    BY <2>1, <2>2, Distinct DEF JobInv, JobOK, LockInv, WriterHeldBy, OneWriter, WriterLabels,
       TempLabels, RoomLabels, Labels
  <2>3. \A p \in Procs : temp'[p] # None => disk'[temp'[p]].dir
    BY TemporaryPreserved DEF FaultInv
  <2>4. LiveTemporaryKept'
    BY <2>2, <2>3 DEF LiveTemporaryKept
  <2> QED BY <2>1, <2>4 DEF FaultInv
<1> QED BY <1>1, <1>2, PTL DEF FaultySpec

\* One download at a time, and nobody removes the directory it extracts into
\* (snapshot.go:364), whatever crashes left behind.
THEOREM TemporaryOwned == FaultySpec => []LiveTemporaryKept
<1>1. FaultInv => LiveTemporaryKept
  BY DEF FaultInv
<1> QED BY <1>1, FaultInvariant, PTL

\* Eviction and cache cleaning never touch an entry in use that they can see
\* (cache.go:239), even after crashes and removals that failed.
THEOREM ListedKeptAlways == FaultySpec => ListedEntriesKept
<1>1. FaultInv /\ [FaultyNext]_vars
      => [\A e \in Entries : shared[e] # {} /\ Listed(e) => disk'[e] = disk[e]]_vars
  BY ListedKept DEF FaultInv
<1> QED BY <1>1, FaultInvariant, PTL DEF FaultySpec, ListedEntriesKept
=============================================================================
