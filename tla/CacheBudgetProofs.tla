--------------------------- MODULE CacheBudgetProofs ---------------------------
(***************************************************************************)
(* Proofs about CacheBudget: the bytes on disk stay within the budget, an  *)
(* eviction has a reason, and a cache is full only with entries in use.    *)
(***************************************************************************)
EXTENDS CacheBudget, InductionLemmas

-----------------------------------------------------------------------------
\* The inductive invariant.

Listing == [path : Entries, modified : Nat]

TypeOK ==
  /\ status \in [Entries -> {"absent", "temp", "published", "junk"}]
  /\ size \in [Entries -> Nat]
  /\ mtime \in [Entries -> Nat]
  /\ pinned \subseteq Snapshots
  /\ now \in Nat
  /\ wpc \in {"idle", "size", "list", "visit", "evict", "create", "work",
              "account", "write", "finish", "full", "error"}
  /\ target \in Entries \cup {None}
  /\ keep \in Entries \cup {None}
  /\ additional \in Nat
  /\ resume \in {"idle", "create", "account", "finish"}
  /\ total \in Nat
  /\ todo \subseteq Listing
  /\ victim \subseteq Listing
  /\ skipped \subseteq Entries
  /\ ready \in BOOLEAN
  /\ free \in Nat

\* Where MakeRoom is, and what it holds there.
Walking == wpc \in {"list", "visit", "evict"}

Control ==
  /\ wpc # "idle" => target \in Entries
  /\ Walking \/ wpc = "size" => resume # "idle"
  /\ IF wpc = "evict" THEN \E r \in Listing : victim = {r} ELSE victim = {}

\* What is written is accounted for before it is written.
Promised == IF wpc = "write" THEN additional ELSE 0

Accounts ==
  /\ Used <= MaxBytes
  /\ Walking => total = Used /\ additional <= MaxBytes
  /\ wpc = "account" => Used + additional <= MaxBytes
  /\ wpc = "write" => ready
  /\ ready => Used + free + Promised <= MaxBytes

\* As long as room is short, what is on disk is yet to be visited, in use, kept, or
\* the rest of a failed removal.
Accounted(e) ==
  \/ status[e] \in {"absent", "junk"}
  \/ e \in skipped \cup {keep}
  \/ \E r \in todo \cup victim : r.path = e

ShortMeansAccounted ==
  wpc \in {"visit", "evict"} /\ total + additional > MaxBytes =>
    \A e \in Entries : Accounted(e)

VictimNeeded == wpc = "evict" => \A r \in victim : Needed(r)

Walk == ShortMeansAccounted /\ VictimNeeded /\ CapacityMeansInUse

BudgetInv == TypeOK /\ Control /\ Accounts /\ Walk

-----------------------------------------------------------------------------
\* What the actions do to the sum of the sizes.

\* There are finitely many entries.
LEMMA EntriesFinite == IsFiniteSet(Entries)
  BY BudgetAssumption, FS_Union DEF Entries

\* What is in use is a sum over the entries, before a step and after it.
LEMMA UsedIsSum ==
  /\ Used = SumFcn(size, Entries)[Entries]
  /\ Used' = SumFcn(size', Entries)[Entries]
  BY Zenon DEF Used, SumFcn, Chosen, MapThenSumSet, MapThenFoldSet

\* What is in use is a number of bytes.
LEMMA UsedType ==
  ASSUME TypeOK PROVE Used \in Nat
  BY UsedIsSum, EntriesFinite, SumType DEF TypeOK

\* So it is after a step.
LEMMA UsedTypeNext ==
  ASSUME TypeOK' PROVE Used' \in Nat
<1>1. size' \in [Entries -> Nat]
  BY DEF TypeOK
<1>2. \A f \in [Entries -> Nat] : SumFcn(f, Entries)[Entries] \in Nat
  BY EntriesFinite, SumType
<1> QED BY <1>1, <1>2, UsedIsSum

\* A step that changes no size changes nothing in use.
LEMMA UsedSame ==
  ASSUME UNCHANGED size PROVE Used' = Used
  BY UsedIsSum

\* A change of one size changes what is in use by as much.
LEMMA UsedChange ==
  ASSUME TypeOK, NEW e \in Entries, NEW n \in Nat, size' = [size EXCEPT ![e] = n]
  PROVE  Used' = Used + n - size[e]
<1>1. /\ size' \in [Entries -> Nat]
      /\ size'[e] = n
      /\ \A x \in Entries : x # e => size'[x] = size[x]
  BY DEF TypeOK
<1>2. SumFcn(size', Entries)[Entries] = SumFcn(size, Entries)[Entries] + size'[e] - size[e]
  <2>1. size \in [Entries -> Nat]
    BY DEF TypeOK
  <2>2. \A f, g \in [Entries -> Nat] : (\A x \in Entries : x # e => g[x] = f[x]) =>
          SumFcn(g, Entries)[Entries] = SumFcn(f, Entries)[Entries] + g[e] - f[e]
    BY EntriesFinite, SumChange
  <2> QED BY <1>1, <2>1, <2>2
<1> QED BY <1>1, <1>2, UsedIsSum

\* When no size grows, what is in use does not.
LEMMA UsedShrinks ==
  ASSUME TypeOK, size' \in [Entries -> Nat], \A e \in Entries : size'[e] <= size[e]
  PROVE  Used' <= Used
<1>1. SumFcn(size', Entries)[Entries] <= SumFcn(size, Entries)[Entries]
  BY EntriesFinite, SumMonotone, Zenon DEF TypeOK
<1> QED BY <1>1, UsedIsSum

\* What a failed removal leaves is no more than what was there.
LEMMA RemovedPartlyShrinks ==
  ASSUME TypeOK, NEW e \in Entries, RemovedPartly(e)
  PROVE  /\ status' \in [Entries -> {"absent", "temp", "published", "junk"}]
         /\ size' \in [Entries -> Nat]
         /\ mtime' = mtime
         /\ \A x \in Entries : size'[x] <= size[x]
<1>1. PICK n \in 0..size[e] : size' = [size EXCEPT ![e] = n]
  BY DEF RemovedPartly
<1>2. n \in Nat /\ n <= size[e] /\ size \in [Entries -> Nat]
  BY DEF TypeOK
<1>3. size' \in [Entries -> Nat] /\ \A x \in Entries : size'[x] <= size[x]
  BY <1>1, <1>2
<1>4. PICK left \in {"temp", "published", "absent", "junk"} : status' = [status EXCEPT ![e] = left]
  BY DEF RemovedPartly, TypeOK
<1>5. status' \in [Entries -> {"absent", "temp", "published", "junk"}]
  BY <1>4 DEF TypeOK
<1> QED BY <1>3, <1>5 DEF RemovedPartly

-----------------------------------------------------------------------------
\* The steps of the specification, one case per action.

\* Every step keeps the types.
LEMMA TypeStep ==
  ASSUME BudgetInv, [Next]_vars
  PROVE  TypeOK'
<1> TypeOK /\ Control /\ Accounts /\ Walk
  BY DEF BudgetInv
<1>1. ASSUME NEW s \in Snapshots, Pin(s) PROVE TypeOK'
  BY <1>1, BudgetAssumption DEF Pin, files, room, budget, TypeOK, Control
<1>2. ASSUME NEW s \in Snapshots, Unpin(s) PROVE TypeOK'
  BY <1>2, BudgetAssumption DEF Unpin, files, room, budget, TypeOK, Control
<1>3. ASSUME NEW s \in Snapshots, StartEnsure(s) PROVE TypeOK'
  BY <1>3, BudgetAssumption DEF StartEnsure, CallMakeRoom, Entries, files, room, budget,
     TypeOK, Control
<1>4. ASSUME NEW r \in Repos, StartDiff(r) PROVE TypeOK'
  BY <1>4, BudgetAssumption DEF StartDiff, CallMakeRoom, Entries, files, room, budget,
     TypeOK, Control
<1>5. ASSUME NEW n \in Growths, Reserve(n) PROVE TypeOK'
  BY <1>5, BudgetAssumption DEF Reserve, CallMakeRoom, files, room, budget, TypeOK, Control
<1>6. ASSUME NEW r \in todo, Visit(r) PROVE TypeOK'
  BY <1>6, BudgetAssumption DEF Visit, Oldest, Listing, files, room, budget, TypeOK, Control
<1>7. ASSUME Create PROVE TypeOK'
  BY <1>7, BudgetAssumption DEF Create, files, room, budget, TypeOK, Control
<1>8. ASSUME Account PROVE TypeOK'
  <2>1. Used \in Nat /\ MaxBytes - Used \in Nat
    BY UsedType, BudgetAssumption DEF Accounts
  <2> QED BY <1>8, <2>1 DEF Account, files, room, budget, TypeOK
<1>9. ASSUME Write PROVE TypeOK'
  BY <1>9, BudgetAssumption DEF Write, files, room, budget, TypeOK, Control
<1>10. ASSUME Trim PROVE TypeOK'
  BY <1>10, BudgetAssumption DEF Trim, CallMakeRoom, files, room, budget, TypeOK, Control
<1>11. ASSUME Finish PROVE TypeOK'
  BY <1>11, BudgetAssumption DEF Finish, Reset, files, room, budget, TypeOK, Control
<1>12. ASSUME Abort PROVE TypeOK'
  BY <1>12, BudgetAssumption DEF Abort, files, room, budget, TypeOK, Control
<1>13. ASSUME Fail PROVE TypeOK'
  <2>1. /\ status' \in [Entries -> {"absent", "temp", "published", "junk"}]
        /\ size' \in [Entries -> Nat]
        /\ mtime' = mtime
    BY <1>13 DEF Fail, Drop, files, TypeOK
  <2> QED BY <1>13, <2>1 DEF Fail, Reset, TypeOK
<1>14. ASSUME MeasureSize PROVE TypeOK'
  BY <1>14, UsedType DEF MeasureSize, files, room, budget, TypeOK
<1>15. ASSUME List PROVE TypeOK'
  BY <1>15, BudgetAssumption DEF List, Listed, Listing, files, room, budget, TypeOK, Control
<1>16. ASSUME Evict PROVE TypeOK'
  <2>1. PICK r \in victim : Drop(r.path) /\ total' = total - size[r.path]
    BY <1>16 DEF Evict
  <2>2. r.path \in Entries
    BY DEF TypeOK, Listing
  <2>3. Used' = Used + 0 - size[r.path]
    BY <2>1, <2>2, UsedChange DEF Drop
  <2>4. status' \in [Entries -> {"absent", "temp", "published", "junk"}]
        /\ size' \in [Entries -> Nat]
    BY <2>1, <2>2 DEF Drop, TypeOK
  <2>5. SumFcn(size', Entries)[Entries] \in Nat
    BY <2>4, EntriesFinite, SumType
  <2>6. total' \in Nat
    BY <1>16, <2>1, <2>2, <2>3, <2>5, UsedIsSum, UsedType DEF Evict, Accounts, Walking, TypeOK
  <2> QED BY <1>16, <2>1, <2>4, <2>6 DEF Evict, Drop, budget, TypeOK
<1>17. ASSUME Visited PROVE TypeOK'
  BY <1>17, BudgetAssumption DEF Visited, files, room, budget, TypeOK, Control
<1>18. ASSUME RemoveError PROVE TypeOK'
  <2>1. PICK r \in victim : RemovedPartly(r.path)
    BY <1>18 DEF RemoveError
  <2>2. r.path \in Entries
    BY DEF TypeOK, Listing
  <2>3. /\ status' \in [Entries -> {"absent", "temp", "published", "junk"}]
        /\ size' \in [Entries -> Nat]
        /\ mtime' = mtime
    BY <2>1, <2>2, RemovedPartlyShrinks
  <2> QED BY <1>18, <2>3 DEF RemoveError, budget, TypeOK
<1>19. ASSUME Crash PROVE TypeOK'
  <2>1. /\ status' \in [Entries -> {"absent", "temp", "published", "junk"}]
        /\ size' \in [Entries -> Nat]
        /\ mtime' = mtime
    <3>1. CASE victim = {}
      BY <1>19, <3>1 DEF Crash, files, TypeOK
    <3>2. CASE victim # {}
      <4>1. PICK r \in victim : RemovedPartly(r.path)
        BY <1>19, <3>2 DEF Crash
      <4>2. r.path \in Entries
        BY DEF TypeOK, Listing
      <4> QED BY <4>1, <4>2, RemovedPartlyShrinks
    <3> QED BY <3>1, <3>2
  <2> QED BY <1>19, <2>1 DEF Crash, Reset, TypeOK
<1>20. ASSUME CacheClean PROVE TypeOK'
  BY <1>20, BudgetAssumption DEF CacheClean, files, room, budget, TypeOK, Control
<1>21. ASSUME Tick PROVE TypeOK'
  BY <1>21, BudgetAssumption DEF Tick, files, room, budget, TypeOK, Control
<1>22. ASSUME UNCHANGED vars PROVE TypeOK'
  BY <1>22, BudgetAssumption DEF vars, TypeOK, Control
<1> QED BY <1>1, <1>2, <1>3, <1>4, <1>5, <1>6, <1>7, <1>8, <1>9, <1>10, <1>11, <1>12,
           <1>13, <1>14, <1>15, <1>16, <1>17, <1>18, <1>19, <1>20, <1>21, <1>22 DEF Next,
              Reader, WriterStep, Fault

\* Every step keeps what a label says of the target, of what comes after, and of the
\* victim.
LEMMA ControlStep ==
  ASSUME BudgetInv, [Next]_vars
  PROVE  Control'
<1> TypeOK /\ Control /\ Accounts /\ Walk
  BY DEF BudgetInv
<1>1. ASSUME NEW s \in Snapshots, Pin(s) PROVE Control'
  BY <1>1, BudgetAssumption, TypeStep DEF Pin, files, room, budget, TypeOK, Control, Walking
<1>2. ASSUME NEW s \in Snapshots, Unpin(s) PROVE Control'
  BY <1>2, BudgetAssumption, TypeStep DEF Unpin, files, room, budget, TypeOK, Control, Walking
<1>3. ASSUME NEW s \in Snapshots, StartEnsure(s) PROVE Control'
  BY <1>3, BudgetAssumption, TypeStep DEF StartEnsure, CallMakeRoom, Entries, files, room,
     budget, TypeOK, Control, Walking
<1>4. ASSUME NEW r \in Repos, StartDiff(r) PROVE Control'
  BY <1>4, BudgetAssumption, TypeStep DEF StartDiff, CallMakeRoom, Entries, files, room,
     budget, TypeOK, Control, Walking
<1>5. ASSUME NEW n \in Growths, Reserve(n) PROVE Control'
  BY <1>5, BudgetAssumption, TypeStep DEF Reserve, CallMakeRoom, files, room, budget,
     TypeOK, Control, Walking
<1>6. ASSUME NEW r \in todo, Visit(r) PROVE Control'
  BY <1>6, BudgetAssumption, TypeStep DEF Visit, Oldest, Listing, files, room, budget,
     TypeOK, Control, Walking
<1>7. ASSUME Create PROVE Control'
  BY <1>7, BudgetAssumption, TypeStep DEF Create, files, room, budget, TypeOK, Control, Walking
<1>8. ASSUME Account PROVE Control'
  BY <1>8, BudgetAssumption, TypeStep DEF Account, files, room, budget, TypeOK, Control,
     Walking
<1>9. ASSUME Write PROVE Control'
  BY <1>9, BudgetAssumption, TypeStep DEF Write, files, room, budget, TypeOK, Control, Walking
<1>10. ASSUME Trim PROVE Control'
  BY <1>10, BudgetAssumption, TypeStep DEF Trim, CallMakeRoom, files, room, budget, TypeOK,
     Control, Walking
<1>11. ASSUME Finish PROVE Control'
  BY <1>11, BudgetAssumption, TypeStep DEF Finish, Reset, files, room, budget, TypeOK,
     Control, Walking
<1>12. ASSUME Abort PROVE Control'
  BY <1>12, BudgetAssumption, TypeStep DEF Abort, files, room, budget, TypeOK, Control, Walking
<1>13. ASSUME Fail PROVE Control'
  BY <1>13, BudgetAssumption, TypeStep DEF Fail, Reset, Drop, files, room, budget, TypeOK,
     Control, Walking
<1>14. ASSUME MeasureSize PROVE Control'
  BY <1>14, BudgetAssumption, TypeStep DEF MeasureSize, files, room, budget, TypeOK,
     Control, Walking
<1>15. ASSUME List PROVE Control'
  BY <1>15, BudgetAssumption, TypeStep DEF List, Listed, Listing, files, room, budget,
     TypeOK, Control, Walking
<1>16. ASSUME Evict PROVE Control'
  BY <1>16, BudgetAssumption, TypeStep DEF Evict, Drop, files, room, budget, TypeOK,
     Control, Walking
<1>17. ASSUME Visited PROVE Control'
  BY <1>17, BudgetAssumption, TypeStep DEF Visited, files, room, budget, TypeOK, Control,
     Walking
<1>18. ASSUME RemoveError PROVE Control'
  BY <1>18, BudgetAssumption, TypeStep DEF RemoveError, RemovedPartly, files, room, budget,
     TypeOK, Control, Walking
<1>19. ASSUME Crash PROVE Control'
  BY <1>19, BudgetAssumption, TypeStep DEF Crash, Reset, RemovedPartly, files, room,
     budget, TypeOK, Control, Walking
<1>20. ASSUME CacheClean PROVE Control'
  BY <1>20, BudgetAssumption, TypeStep DEF CacheClean, files, room, budget, TypeOK,
     Control, Walking
<1>21. ASSUME Tick PROVE Control'
  BY <1>21, BudgetAssumption, TypeStep DEF Tick, files, room, budget, TypeOK, Control, Walking
<1>22. ASSUME UNCHANGED vars PROVE Control'
  BY <1>22, BudgetAssumption, TypeStep DEF vars, TypeOK, Control, Walking
<1> QED BY <1>1, <1>2, <1>3, <1>4, <1>5, <1>6, <1>7, <1>8, <1>9, <1>10, <1>11, <1>12,
           <1>13, <1>14, <1>15, <1>16, <1>17, <1>18, <1>19, <1>20, <1>21, <1>22 DEF Next,
              Reader, WriterStep, Fault

\* Every step keeps the accounts: what is on disk, and what was promised, is within
\* the budget.
LEMMA AccountsStep ==
  ASSUME BudgetInv, [Next]_vars
  PROVE  Accounts'
<1> TypeOK /\ Control /\ Accounts /\ Walk
  BY DEF BudgetInv
<1>a. Used \in Nat
  BY UsedType
<1>b. Used' \in Nat
  BY TypeStep, UsedTypeNext
<1>1. ASSUME NEW s \in Snapshots, Pin(s) PROVE Accounts'
  BY <1>1, <1>a, <1>b, UsedSame, BudgetAssumption DEF Pin, files, room, budget, TypeOK,
     Accounts, Promised, Walking
<1>2. ASSUME NEW s \in Snapshots, Unpin(s) PROVE Accounts'
  BY <1>2, <1>a, <1>b, UsedSame, BudgetAssumption DEF Unpin, files, room, budget, TypeOK,
     Accounts, Promised, Walking
<1>3. ASSUME NEW s \in Snapshots, StartEnsure(s) PROVE Accounts'
  <2>1. Used' <= Used
    <3>1. /\ size' \in [Entries -> Nat]
          /\ \A e \in Entries : size'[e] <= size[e]
      BY <1>3 DEF StartEnsure, TypeOK
    <3> QED BY <3>1, UsedShrinks
  <2> QED BY <1>3, <2>1, <1>a, <1>b, BudgetAssumption DEF StartEnsure, CallMakeRoom, room,
             budget, TypeOK, Accounts, Promised, Walking
<1>4. ASSUME NEW r \in Repos, StartDiff(r) PROVE Accounts'
  BY <1>4, <1>a, <1>b, UsedSame, BudgetAssumption DEF StartDiff, CallMakeRoom, Entries,
     files, room, budget, TypeOK, Accounts, Promised, Walking
<1>5. ASSUME NEW n \in Growths, Reserve(n) PROVE Accounts'
  BY <1>5, <1>a, <1>b, UsedSame, BudgetAssumption DEF Reserve, CallMakeRoom, files, room,
     budget, TypeOK, Accounts, Promised, Walking
<1>6. ASSUME NEW r \in todo, Visit(r) PROVE Accounts'
  BY <1>6, <1>a, <1>b, UsedSame, BudgetAssumption DEF Visit, Oldest, Listing, files, room,
     budget, TypeOK, Accounts, Promised, Walking
<1>7. ASSUME Create PROVE Accounts'
  BY <1>7, <1>a, <1>b, UsedSame, BudgetAssumption DEF Create, files, room, budget, TypeOK,
     Accounts, Promised, Walking
<1>8. ASSUME Account PROVE Accounts'
  BY <1>8, <1>a, <1>b, UsedSame, BudgetAssumption DEF Account, files, room, budget, TypeOK,
     Accounts, Promised, Walking
<1>9. ASSUME Write PROVE Accounts'
  <2>1. PICK n \in 0..additional : size' = [size EXCEPT ![target] = size[target] + n]
    BY <1>9 DEF Write
  <2>2. target \in Entries /\ size[target] \in Nat /\ n \in Nat /\ n <= additional
    BY <1>9 DEF Write, Control, TypeOK
  <2>3. size' = [size EXCEPT ![target] = size[target] + n] /\ size[target] + n \in Nat
    BY <2>1, <2>2
  <2>4. Used' = Used + (size[target] + n) - size[target]
    BY <2>2, <2>3, UsedChange
  <2>5. Used' <= Used + additional
    BY <2>2, <2>4, <1>a, <1>b DEF TypeOK
  <2> QED BY <1>9, <2>5, <1>a, <1>b, BudgetAssumption
          DEF Write, room, budget, TypeOK, Accounts, Promised, Walking
<1>10. ASSUME Trim PROVE Accounts'
  BY <1>10, <1>a, <1>b, UsedSame, BudgetAssumption DEF Trim, CallMakeRoom, files, room,
     budget, TypeOK, Accounts, Promised, Walking
<1>11. ASSUME Finish PROVE Accounts'
  BY <1>11, <1>a, <1>b, UsedSame, BudgetAssumption DEF Finish, Reset, files, room, budget,
     TypeOK, Accounts, Promised, Walking
<1>12. ASSUME Abort PROVE Accounts'
  BY <1>12, <1>a, <1>b, UsedSame, BudgetAssumption DEF Abort, files, room, budget, TypeOK,
     Accounts, Promised, Walking
<1>13. ASSUME Fail PROVE Accounts'
  <2>1. Used' <= Used
    <3>1. /\ size' \in [Entries -> Nat]
          /\ \A e \in Entries : size'[e] <= size[e]
      BY <1>13 DEF Fail, Drop, files, TypeOK
    <3> QED BY <3>1, UsedShrinks
  <2> QED BY <1>13, <2>1, <1>a, <1>b, BudgetAssumption DEF Fail, Reset, TypeOK, Accounts,
             Promised, Walking
<1>14. ASSUME MeasureSize PROVE Accounts'
  BY <1>14, <1>a, <1>b, UsedSame, BudgetAssumption DEF MeasureSize, files, room, budget,
     TypeOK, Accounts, Promised, Walking
<1>15. ASSUME List PROVE Accounts'
  BY <1>15, <1>a, <1>b, UsedSame, BudgetAssumption DEF List, Listed, Listing, files, room,
     budget, TypeOK, Accounts, Promised, Walking
<1>16. ASSUME Evict PROVE Accounts'
  <2>1. PICK r \in victim : Drop(r.path) /\ total' = total - size[r.path]
    BY <1>16 DEF Evict
  <2>2. r.path \in Entries /\ size[r.path] \in Nat
    BY DEF TypeOK, Listing
  <2>3. Used' = Used + 0 - size[r.path]
    BY <2>1, <2>2, UsedChange DEF Drop
  <2> QED BY <1>16, <2>1, <2>2, <2>3, <1>a, <1>b, BudgetAssumption
          DEF Evict, budget, TypeOK, Accounts, Promised, Walking
<1>17. ASSUME Visited PROVE Accounts'
  BY <1>17, <1>a, <1>b, UsedSame, BudgetAssumption DEF Visited, files, room, budget,
     TypeOK, Accounts, Promised, Walking
<1>18. ASSUME RemoveError PROVE Accounts'
  <2>1. Used' <= Used
    <3>1. PICK r \in victim : RemovedPartly(r.path)
      BY <1>18 DEF RemoveError
    <3>2. r.path \in Entries
      BY DEF TypeOK, Listing
    <3> QED BY <3>1, <3>2, RemovedPartlyShrinks, UsedShrinks
  <2> QED BY <1>18, <2>1, <1>a, <1>b, BudgetAssumption DEF RemoveError, budget, TypeOK,
             Accounts, Promised, Walking
<1>19. ASSUME Crash PROVE Accounts'
  <2>1. Used' <= Used
    <3>1. CASE victim = {}
      <4>1. UNCHANGED size
        BY <1>19, <3>1 DEF Crash, files
      <4> QED BY <1>a, <1>b, <4>1, UsedSame
    <3>2. CASE victim # {}
      <4>1. PICK r \in victim : RemovedPartly(r.path)
        BY <1>19, <3>2 DEF Crash
      <4>2. r.path \in Entries
        BY DEF TypeOK, Listing
      <4> QED BY <4>1, <4>2, RemovedPartlyShrinks, UsedShrinks
    <3> QED BY <3>1, <3>2
  <2> QED BY <1>19, <2>1, <1>a, <1>b, BudgetAssumption DEF Crash, Reset, TypeOK, Accounts,
             Promised, Walking
<1>20. ASSUME CacheClean PROVE Accounts'
  <2>1. Used' <= Used
    <3>1. /\ size' \in [Entries -> Nat]
          /\ \A e \in Entries : size'[e] <= size[e]
      BY <1>20 DEF CacheClean, TypeOK
    <3> QED BY <3>1, UsedShrinks
  <2> QED BY <1>20, <2>1, <1>a, <1>b, BudgetAssumption DEF CacheClean, room, budget,
             TypeOK, Accounts, Promised, Walking
<1>21. ASSUME Tick PROVE Accounts'
  BY <1>21, <1>a, <1>b, UsedSame, BudgetAssumption DEF Tick, files, room, budget, TypeOK,
     Accounts, Promised, Walking
<1>22. ASSUME UNCHANGED vars PROVE Accounts'
  BY <1>22, <1>a, <1>b, UsedSame, BudgetAssumption DEF vars, TypeOK, Accounts, Promised,
     Walking
<1> QED BY <1>1, <1>2, <1>3, <1>4, <1>5, <1>6, <1>7, <1>8, <1>9, <1>10, <1>11, <1>12,
           <1>13, <1>14, <1>15, <1>16, <1>17, <1>18, <1>19, <1>20, <1>21, <1>22 DEF Next,
              Reader, WriterStep, Fault

\* While room is short, every entry is accounted for.

\* Every step keeps that, as long as room is short, no entry was overlooked.
LEMMA ShortMeansAccountedStep ==
  ASSUME BudgetInv, [Next]_vars
  PROVE  ShortMeansAccounted'
<1> TypeOK /\ Control /\ Accounts /\ Walk
  BY DEF BudgetInv
<1>a. ASSUME NEW w \in {"idle", "size", "create", "work", "account", "write", "finish", "full", "error"}, wpc' = w
      PROVE  ShortMeansAccounted'
  BY <1>a DEF ShortMeansAccounted
<1>1. ASSUME NEW s \in Snapshots, Pin(s) PROVE ShortMeansAccounted'
  BY <1>1 DEF Pin, files, room, Walk, ShortMeansAccounted, Accounted
<1>2. ASSUME NEW s \in Snapshots, Unpin(s) PROVE ShortMeansAccounted'
  BY <1>2 DEF Unpin, files, room, Walk, ShortMeansAccounted, Accounted
<1>3. ASSUME NEW s \in Snapshots, StartEnsure(s) PROVE ShortMeansAccounted'
  BY <1>3, <1>a DEF StartEnsure, CallMakeRoom
<1>4. ASSUME NEW r \in Repos, StartDiff(r) PROVE ShortMeansAccounted'
  BY <1>4, <1>a DEF StartDiff, CallMakeRoom
<1>5. ASSUME NEW n \in Growths, Reserve(n) PROVE ShortMeansAccounted'
  BY <1>5, <1>a DEF Reserve, CallMakeRoom
<1>6. ASSUME NEW r \in todo, Visit(r) PROVE ShortMeansAccounted'
  <2> SUFFICES ASSUME (total + additional > MaxBytes)', NEW e \in Entries
               PROVE  Accounted(e)'
    BY DEF ShortMeansAccounted
  <2>1. total + additional > MaxBytes /\ wpc = "visit" /\ victim = {}
    BY <1>6 DEF Visit, Control
  <2>2. Accounted(e)
    BY <2>1 DEF Walk, ShortMeansAccounted
  <2>3. ASSUME e = r.path PROVE e \in (skipped' \cup {keep}) \/ \E o \in victim' : o.path = e
    BY <1>6, <2>1, <2>3 DEF Visit, Needed
  <2>4. /\ status' = status /\ keep' = keep /\ todo' = todo \ {r}
        /\ skipped \subseteq skipped'
    BY <1>6 DEF Visit, files
  <2> QED BY <2>1, <2>2, <2>3, <2>4 DEF Accounted
<1>7. ASSUME Create PROVE ShortMeansAccounted'
  BY <1>7, <1>a DEF Create
<1>8. ASSUME Account PROVE ShortMeansAccounted'
  BY <1>8, <1>a DEF Account
<1>9. ASSUME Write PROVE ShortMeansAccounted'
  BY <1>9, <1>a DEF Write
<1>10. ASSUME Trim PROVE ShortMeansAccounted'
  BY <1>10, <1>a DEF Trim, CallMakeRoom
<1>11. ASSUME Finish PROVE ShortMeansAccounted'
  BY <1>11, <1>a DEF Finish, Reset
<1>12. ASSUME Abort PROVE ShortMeansAccounted'
  BY <1>12, <1>a DEF Abort
<1>13. ASSUME Fail PROVE ShortMeansAccounted'
  BY <1>13, <1>a DEF Fail, Reset
<1>14. ASSUME MeasureSize PROVE ShortMeansAccounted'
  BY <1>14 DEF MeasureSize, ShortMeansAccounted
<1>15. ASSUME List PROVE ShortMeansAccounted'
  <2>1. ASSUME NEW e \in Entries PROVE Accounted(e)'
    <3>1. CASE e \in Listed
      <4>1. [path |-> e, modified |-> mtime[e]] \in todo'
        BY <1>15, <3>1 DEF List
      <4> QED BY <4>1 DEF Accounted
    <3>2. CASE e \notin Listed
      BY <1>15, <3>2 DEF List, Listed, files, Accounted, TypeOK
    <3> QED BY <3>1, <3>2
  <2> QED BY <2>1 DEF ShortMeansAccounted
<1>16. ASSUME Evict PROVE ShortMeansAccounted'
  <2> SUFFICES ASSUME (total + additional > MaxBytes)', NEW e \in Entries
               PROVE  Accounted(e)'
    BY DEF ShortMeansAccounted
  <2>1. PICK r \in victim : Drop(r.path) /\ total' = total - size[r.path]
    BY <1>16 DEF Evict
  <2>2. r.path \in Entries /\ size[r.path] \in Nat /\ total \in Nat /\ additional \in Nat
    BY DEF TypeOK, Listing
  <2>3. additional' = additional /\ wpc = "evict" /\ keep' = keep /\ skipped' = skipped
        /\ todo' = todo
    BY <1>16 DEF Evict
  <2>4. total + additional > MaxBytes
    BY <2>1, <2>2, <2>3, BudgetAssumption
  <2>5. Accounted(e)
    BY <2>3, <2>4 DEF Walk, ShortMeansAccounted
  <2>6. CASE e = r.path
    <3>1. status'[e] = "absent"
      BY <2>1, <2>2, <2>6 DEF Drop, TypeOK
    <3> QED BY <3>1 DEF Accounted
  <2>7. CASE e # r.path
    <3>1. status'[e] = status[e]
      BY <2>1, <2>2, <2>7 DEF Drop, TypeOK
    <3>2. \A o \in victim : o = r
      BY <2>3 DEF Control
    <3> QED BY <2>3, <2>5, <2>7, <3>1, <3>2 DEF Accounted
  <2> QED BY <2>6, <2>7
<1>17. ASSUME Visited PROVE ShortMeansAccounted'
  <2>1. wpc' \in {"full", "create", "account", "finish"}
    BY <1>17 DEF Visited, TypeOK, Control, Walking
  <2> QED BY <2>1, <1>a
<1>18. ASSUME RemoveError PROVE ShortMeansAccounted'
  BY <1>18, <1>a DEF RemoveError
<1>19. ASSUME Crash PROVE ShortMeansAccounted'
  BY <1>19, <1>a DEF Crash, Reset
<1>20. ASSUME CacheClean PROVE ShortMeansAccounted'
  BY <1>20 DEF CacheClean, ShortMeansAccounted
<1>21. ASSUME Tick PROVE ShortMeansAccounted'
  BY <1>21 DEF Tick, files, room, Walk, ShortMeansAccounted, Accounted
<1>22. ASSUME UNCHANGED vars PROVE ShortMeansAccounted'
  BY <1>22, Zenon DEF vars, Walk, ShortMeansAccounted, Accounted
<1> QED BY <1>1, <1>2, <1>3, <1>4, <1>5, <1>6, <1>7, <1>8, <1>9, <1>10, <1>11, <1>12,
           <1>13, <1>14, <1>15, <1>16, <1>17, <1>18, <1>19, <1>20, <1>21, <1>22 DEF Next,
              Reader, WriterStep, Fault

\* What is being removed had to go.
LEMMA VictimNeededStep ==
  ASSUME BudgetInv, [Next]_vars
  PROVE  VictimNeeded'
<1> TypeOK /\ Control /\ Accounts /\ Walk
  BY DEF BudgetInv
<1>a. ASSUME wpc' # "evict" PROVE VictimNeeded'
  BY <1>a DEF VictimNeeded
<1>1. ASSUME NEW s \in Snapshots, Pin(s) PROVE VictimNeeded'
  <2>1. ASSUME NEW r \in victim', wpc' = "evict" PROVE Needed(r)'
    <3>1. Needed(r) /\ r.modified \in Nat
      BY <1>1, <2>1 DEF Pin, room, Walk, VictimNeeded, TypeOK, Listing
    <3>2. now' = now /\ total' = total /\ additional' = additional
      BY <1>1 DEF Pin, room
    <3>3. Expired(r) => Expired(r)'
      BY <3>1, <3>2, BudgetAssumption DEF Expired, TypeOK
    <3> QED BY <3>1, <3>2, <3>3 DEF Needed
  <2> QED BY <2>1 DEF VictimNeeded
<1>2. ASSUME NEW s \in Snapshots, Unpin(s) PROVE VictimNeeded'
  <2>1. ASSUME NEW r \in victim', wpc' = "evict" PROVE Needed(r)'
    <3>1. Needed(r) /\ r.modified \in Nat
      BY <1>2, <2>1 DEF Unpin, room, Walk, VictimNeeded, TypeOK, Listing
    <3>2. now' = now /\ total' = total /\ additional' = additional
      BY <1>2 DEF Unpin, room
    <3>3. Expired(r) => Expired(r)'
      BY <3>1, <3>2, BudgetAssumption DEF Expired, TypeOK
    <3> QED BY <3>1, <3>2, <3>3 DEF Needed
  <2> QED BY <2>1 DEF VictimNeeded
<1>3. ASSUME NEW s \in Snapshots, StartEnsure(s) PROVE VictimNeeded'
  BY <1>3, <1>a DEF StartEnsure, CallMakeRoom
<1>4. ASSUME NEW r \in Repos, StartDiff(r) PROVE VictimNeeded'
  BY <1>4, <1>a DEF StartDiff, CallMakeRoom
<1>5. ASSUME NEW n \in Growths, Reserve(n) PROVE VictimNeeded'
  BY <1>5, <1>a DEF Reserve, CallMakeRoom
<1>6. ASSUME NEW r \in todo, Visit(r) PROVE VictimNeeded'
  <2>1. ASSUME NEW o \in victim', wpc' = "evict" PROVE Needed(o)'
    <3>1. o = r /\ Needed(r)
      BY <1>6, <2>1 DEF Visit, Control
    <3>2. now' = now /\ total' = total /\ additional' = additional
      BY <1>6 DEF Visit
    <3> QED BY <3>1, <3>2 DEF Needed, Expired
  <2> QED BY <2>1 DEF VictimNeeded
<1>7. ASSUME Create PROVE VictimNeeded'
  BY <1>7, <1>a DEF Create
<1>8. ASSUME Account PROVE VictimNeeded'
  BY <1>8, <1>a DEF Account
<1>9. ASSUME Write PROVE VictimNeeded'
  BY <1>9, <1>a DEF Write
<1>10. ASSUME Trim PROVE VictimNeeded'
  BY <1>10, <1>a DEF Trim, CallMakeRoom
<1>11. ASSUME Finish PROVE VictimNeeded'
  BY <1>11, <1>a DEF Finish, Reset
<1>12. ASSUME Abort PROVE VictimNeeded'
  BY <1>12, <1>a DEF Abort
<1>13. ASSUME Fail PROVE VictimNeeded'
  BY <1>13, <1>a DEF Fail, Reset
<1>14. ASSUME MeasureSize PROVE VictimNeeded'
  BY <1>14, <1>a DEF MeasureSize
<1>15. ASSUME List PROVE VictimNeeded'
  BY <1>15, <1>a DEF List
<1>16. ASSUME Evict PROVE VictimNeeded'
  BY <1>16, <1>a DEF Evict
<1>17. ASSUME Visited PROVE VictimNeeded'
  BY <1>17, <1>a DEF Visited, TypeOK
<1>18. ASSUME RemoveError PROVE VictimNeeded'
  BY <1>18, <1>a DEF RemoveError
<1>19. ASSUME Crash PROVE VictimNeeded'
  BY <1>19, <1>a DEF Crash, Reset
<1>20. ASSUME CacheClean PROVE VictimNeeded'
  BY <1>20, <1>a DEF CacheClean
<1>21. ASSUME Tick PROVE VictimNeeded'
  <2>1. ASSUME NEW r \in victim', wpc' = "evict" PROVE Needed(r)'
    <3>1. Needed(r) /\ r.modified \in Nat
      BY <1>21, <2>1 DEF Tick, room, Walk, VictimNeeded, TypeOK, Listing
    <3>2. now' = now + 1 /\ total' = total /\ additional' = additional
      BY <1>21 DEF Tick, room
    <3>3. Expired(r) => Expired(r)'
      BY <3>1, <3>2, BudgetAssumption DEF Expired, TypeOK
    <3> QED BY <3>1, <3>2, <3>3 DEF Needed
  <2> QED BY <2>1 DEF VictimNeeded
<1>22. ASSUME UNCHANGED vars PROVE VictimNeeded'
  BY <1>22 DEF vars, Walk, VictimNeeded, Needed, Expired
<1> QED BY <1>1, <1>2, <1>3, <1>4, <1>5, <1>6, <1>7, <1>8, <1>9, <1>10, <1>11, <1>12,
           <1>13, <1>14, <1>15, <1>16, <1>17, <1>18, <1>19, <1>20, <1>21, <1>22 DEF Next,
              Reader, WriterStep, Fault

\* No room means that everything else is in use.
LEMMA CapacityStep ==
  ASSUME BudgetInv, [Next]_vars
  PROVE  CapacityMeansInUse'
<1> TypeOK /\ Control /\ Accounts /\ Walk
  BY DEF BudgetInv
<1>a. ASSUME wpc' # "full" PROVE CapacityMeansInUse'
  BY <1>a DEF CapacityMeansInUse
<1>1. ASSUME NEW s \in Snapshots, Pin(s) PROVE CapacityMeansInUse'
  BY <1>1 DEF Pin, files, room, Walk, CapacityMeansInUse
<1>2. ASSUME NEW s \in Snapshots, Unpin(s) PROVE CapacityMeansInUse'
  BY <1>2 DEF Unpin, files, room, Walk, CapacityMeansInUse
<1>3. ASSUME NEW s \in Snapshots, StartEnsure(s) PROVE CapacityMeansInUse'
  BY <1>3, <1>a DEF StartEnsure, CallMakeRoom
<1>4. ASSUME NEW r \in Repos, StartDiff(r) PROVE CapacityMeansInUse'
  BY <1>4, <1>a DEF StartDiff, CallMakeRoom
<1>5. ASSUME NEW n \in Growths, Reserve(n) PROVE CapacityMeansInUse'
  BY <1>5, <1>a DEF Reserve, CallMakeRoom
<1>6. ASSUME NEW r \in todo, Visit(r) PROVE CapacityMeansInUse'
  BY <1>6, <1>a DEF Visit
<1>7. ASSUME Create PROVE CapacityMeansInUse'
  BY <1>7, <1>a DEF Create
<1>8. ASSUME Account PROVE CapacityMeansInUse'
  <2>1. Used \in Nat /\ Used + additional <= MaxBytes
    BY <1>8, UsedType DEF Account, Accounts
  <2>2. ~(additional > MaxBytes - Used)
    BY <2>1, BudgetAssumption DEF TypeOK
  <2>3. wpc' = "write"
    BY <1>8, <2>2 DEF Account
  <2> QED BY <1>a, <2>3
<1>9. ASSUME Write PROVE CapacityMeansInUse'
  BY <1>9, <1>a DEF Write
<1>10. ASSUME Trim PROVE CapacityMeansInUse'
  BY <1>10, <1>a DEF Trim, CallMakeRoom
<1>11. ASSUME Finish PROVE CapacityMeansInUse'
  BY <1>11, <1>a DEF Finish, Reset
<1>12. ASSUME Abort PROVE CapacityMeansInUse'
  BY <1>12, <1>a DEF Abort
<1>13. ASSUME Fail PROVE CapacityMeansInUse'
  BY <1>13, <1>a DEF Fail, Reset
<1>14. ASSUME MeasureSize PROVE CapacityMeansInUse'
  <2>1. CASE additional > MaxBytes
    BY <1>14, <2>1, BudgetAssumption DEF MeasureSize, CapacityMeansInUse, TypeOK
  <2>2. CASE ~(additional > MaxBytes)
    BY <1>14, <2>2, <1>a DEF MeasureSize
  <2> QED BY <2>1, <2>2
<1>15. ASSUME List PROVE CapacityMeansInUse'
  BY <1>15, <1>a DEF List
<1>16. ASSUME Evict PROVE CapacityMeansInUse'
  BY <1>16, <1>a DEF Evict
<1>17. ASSUME Visited PROVE CapacityMeansInUse'
  <2>1. CASE total + additional > MaxBytes
    <3>1. ASSUME NEW e \in Entries, status[e] # "absent"
          PROVE  e \in skipped \cup {keep} \/ status[e] = "junk"
      BY <1>17, <2>1, <3>1 DEF Visited, Control, Walk, ShortMeansAccounted, Accounted
    <3> QED BY <1>17, <3>1 DEF Visited, files, room, CapacityMeansInUse
  <2>2. CASE ~(total + additional > MaxBytes)
    BY <1>17, <2>2, <1>a DEF Visited, TypeOK
  <2> QED BY <2>1, <2>2
<1>18. ASSUME RemoveError PROVE CapacityMeansInUse'
  BY <1>18, <1>a DEF RemoveError
<1>19. ASSUME Crash PROVE CapacityMeansInUse'
  BY <1>19, <1>a DEF Crash, Reset
<1>20. ASSUME CacheClean PROVE CapacityMeansInUse'
  BY <1>20, <1>a DEF CacheClean
<1>21. ASSUME Tick PROVE CapacityMeansInUse'
  BY <1>21 DEF Tick, files, room, Walk, CapacityMeansInUse
<1>22. ASSUME UNCHANGED vars PROVE CapacityMeansInUse'
  BY <1>22 DEF vars, files, Walk, CapacityMeansInUse
<1> QED BY <1>1, <1>2, <1>3, <1>4, <1>5, <1>6, <1>7, <1>8, <1>9, <1>10, <1>11, <1>12,
           <1>13, <1>14, <1>15, <1>16, <1>17, <1>18, <1>19, <1>20, <1>21, <1>22 DEF Next,
              Reader, WriterStep, Fault

-----------------------------------------------------------------------------
\* The theorems.

\* It holds before the first request.
LEMMA BudgetInit == Init => BudgetInv
<1> SUFFICES ASSUME Init PROVE BudgetInv
  OBVIOUS
<1>1. TypeOK /\ Control /\ Walk
  BY BudgetAssumption
     DEF Init, TypeOK, Control, Walking, Walk, ShortMeansAccounted, VictimNeeded,
         CapacityMeansInUse, Listing
<1>2. Used = 0
  <2>1. size \in [Entries -> Nat] /\ \A e \in Entries : size[e] = 0
    BY DEF Init
  <2> QED BY <2>1, EntriesFinite, SumZero, UsedIsSum
<1>3. Accounts
  BY <1>2, BudgetAssumption DEF Init, Accounts, Walking, Promised
<1> QED BY <1>1, <1>3 DEF BudgetInv

\* Every step keeps the invariant.
LEMMA BudgetStep == BudgetInv /\ [Next]_vars => BudgetInv'
  BY TypeStep, ControlStep, AccountsStep, ShortMeansAccountedStep, VictimNeededStep,
     CapacityStep DEF BudgetInv, Walk

\* The invariant of the budget (BudgetInv), from which the three properties follow.
THEOREM BudgetInvariant == Spec => []BudgetInv
  BY BudgetInit, BudgetStep, PTL DEF Spec

\* Whatever is written, evicted, abandoned or left by a crash, a user's files take
\* no more than GOGS_MCP_CACHE_MAX_BYTES.
THEOREM BytesAreBounded == Spec => []BytesBounded
<1>1. BudgetInv => BytesBounded
  BY DEF BudgetInv, Accounts, BytesBounded
<1> QED BY <1>1, BudgetInvariant, PTL

\* MakeRoom gives up only when every listed entry but the kept one is in use.
THEOREM CapacityIsHonest == Spec => []CapacityMeansInUse
<1>1. BudgetInv => CapacityMeansInUse
  BY DEF BudgetInv, Walk
<1> QED BY <1>1, BudgetInvariant, PTL

\* MakeRoom removes an entry only when it expired or room was short.
THEOREM EvictionIsJustified == Spec => EvictionHasReason
<1>1. BudgetInv /\ [Next]_vars =>
        [\A r \in victim : wpc = "evict" /\ wpc' = "visit" =>
            Expired(r) \/ Used + additional > MaxBytes]_vars
  BY DEF BudgetInv, Walk, VictimNeeded, Needed, Accounts, Walking
<1> QED BY <1>1, BudgetInvariant, PTL DEF Spec, EvictionHasReason
=============================================================================
