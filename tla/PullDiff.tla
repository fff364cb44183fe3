------------------------------- MODULE PullDiff -------------------------------
(***************************************************************************)
(* What DiffPull (gogs/gitdiff.go) makes of the tree changes of a pull      *)
(* request: the merge state, the selection by paths, the renames and the    *)
(* text of the diff up to a limit.                                          *)
(*                                                                         *)
(* A change is a pair of paths, from and to, None where there is no file.   *)
(* Renames are detected by go-git: it pairs deletions with additions, the   *)
(* most similar pair first, and its order of the pairs that are similar     *)
(* enough is picked at the start.  Filters are the set of the paths they    *)
(* match; of a patch only the lengths of its lines are kept.                *)
(***************************************************************************)
EXTENDS Naturals, Sequences, SequencesExt, FiniteSets, FiniteSetsExt, Functions

CONSTANTS
  Deletions, Additions, Modifications,  \* paths that may be changed
  Elsewhere,     \* a path that is not
  None,          \* the missing side of a change
  MaxChanged,    \* maxChangedFiles: 2000 in the code
  Patches,       \* lengths of the lines of a patch
  MaxDiff        \* bound on max_bytes

\* A path changes in one way.
ASSUME DiffAssumption ==
  /\ IsFiniteSet(Deletions) /\ IsFiniteSet(Additions) /\ IsFiniteSet(Modifications)
  /\ Deletions \cap Additions = {} /\ Modifications \cap (Deletions \cup Additions) = {}
  /\ None \notin Deletions \cup Additions \cup Modifications
  /\ Patches \subseteq Seq(Nat)
  /\ MaxChanged \in Nat /\ MaxDiff \in Nat

ChangePaths == Deletions \cup Additions \cup Modifications \cup {Elsewhere}

VARIABLES
  treeDiff,   \* the changes between the merge base and the head
  similar,    \* the pairs that are similar enough, the most similar first
  baseSide,   \* the paths that the base touched since the merge base
  filters,    \* the paths the filters match; {} without filters
  maxBytes,
  doing,      \* the next step of DiffPull, "done" or "tooLarge"
  work,       \* headChanges
  inConflict, \* MergeConflictPaths
  patch,      \* patch[c]: the lengths of the lines of the patch of c
  listed,     \* Files
  output      \* what limitedDiffWriter holds: the lines, their bytes, truncated

pullInput == <<treeDiff, similar, baseSide, filters, maxBytes>>
diffVars == <<pullInput, doing, work, inConflict, patch, listed, output>>

-----------------------------------------------------------------------------
Sides(c) == {c.from, c.to} \ {None}

Touched(changes) == UNION {Sides(c) : c \in changes}

\* matchAnyPath, of either side.
Matches(c) == Sides(c) \cap filters # {}

\* filterChanges.
FilterChanges(changes) == IF filters = {} THEN changes ELSE {c \in changes : Matches(c)}

\* Mutant: only what was selected can be one side of a rename.
SelectedOnly(changes) == FilterChanges(changes)

\* renameCandidates: for a selected addition every deletion, and the reverse.
RenameCandidates(changes) ==
  LET selected == FilterChanges(changes)
      needDeleted == \E c \in selected : c.from = None
      needAdded == \E c \in selected : c.to = None
  IN selected \cup {c \in changes : \/ needAdded /\ c.from = None
                                    \/ needDeleted /\ c.to = None}

\* Of the pairs of a source and a target, one after the other, those of which
\* neither side is taken.
Paired(sources, targets) ==
  LET taken[i \in 0..Len(similar)] ==
        IF i = 0 THEN {}
        ELSE taken[i - 1] \cup {p \in {similar[i]} :
               /\ p.from \in sources /\ p.to \in targets
               /\ \A q \in taken[i - 1] : q.from # p.from /\ q.to # p.to}
  IN taken[Len(similar)]

\* DetectRenames of go-git.
DetectRenames(changes) ==
  LET renames == Paired({c.from : c \in {d \in changes : d.to = None}},
                        {c.to : c \in {d \in changes : d.from = None}})
  IN {c \in changes : \/ None \notin {c.from, c.to}
                      \/ Sides(c) \cap Touched(renames) = {}} \cup renames

-----------------------------------------------------------------------------
\* mergeStateFor, before anything is selected.
CompareSides ==
  /\ doing = "compare"
  /\ inConflict' = Touched(work) \cap baseSide
  /\ doing' = "select"
  /\ UNCHANGED <<pullInput, work, patch, listed, output>>

\* validatePatchWork on the candidates.
Select ==
  /\ doing = "select"
  /\ work' = RenameCandidates(work)
  /\ doing' = IF Cardinality(work') > MaxChanged THEN "tooLarge" ELSE "detect"
  /\ UNCHANGED <<pullInput, inConflict, patch, listed, output>>

\* The renames, and of the result what the filters match.
Detect ==
  /\ doing = "detect"
  /\ work' = FilterChanges(DetectRenames(work))
  /\ patch' \in [work' -> Patches]
  /\ doing' = "render"
  /\ UNCHANGED <<pullInput, inConflict, listed, output>>

Bytes(lines) == SumFunction(lines)

\* limitedDiffWriter.Write: what does not fit is cut in the middle of a line.
Write(lines) ==
  LET room == maxBytes - output.bytes IN
  IF maxBytes = 0 \/ Bytes(lines) <= room
  THEN [lines |-> output.lines \o lines, bytes |-> output.bytes + Bytes(lines),
        partial |-> output.partial, truncated |-> output.truncated]
  ELSE LET k == Max({i \in 0..Len(lines) : Bytes(SubSeq(lines, 1, i)) <= room})
           rest == room - Bytes(SubSeq(lines, 1, k))
       IN [lines |-> output.lines \o SubSeq(lines, 1, k),
           bytes |-> maxBytes, partial |-> rest, truncated |-> TRUE]

\* buildBoundedPullDiff: every file is listed, the text up to the limit.  The
\* patches are arbitrary, so one order of the files stands for every order.
Render ==
  /\ doing = "render" /\ work # listed
  /\ LET c == CHOOSE x \in work \ listed : TRUE IN
       /\ listed' = listed \cup {c}
       /\ output' = IF output.truncated THEN output ELSE Write(patch[c])
  /\ UNCHANGED <<pullInput, doing, work, inConflict, patch>>

\* truncateToLastLine takes the partial line away.
Finish ==
  /\ doing = "render" /\ work = listed
  /\ output' = [lines |-> output.lines, bytes |-> output.bytes - output.partial,
                partial |-> 0, truncated |-> output.truncated]
  /\ doing' = "done"
  /\ UNCHANGED <<pullInput, work, inConflict, patch, listed>>

-----------------------------------------------------------------------------
Pairs == [from : Deletions, to : Additions]

DiffInit ==
  /\ \E ds \in SUBSET Deletions, as \in SUBSET Additions, ms \in SUBSET Modifications :
       treeDiff = {[from |-> d, to |-> None] : d \in ds}
              \cup {[from |-> None, to |-> a] : a \in as}
              \cup {[from |-> m, to |-> m] : m \in ms}
  /\ similar \in UNION {SetToSeqs(ps) :
                          ps \in SUBSET {p \in Pairs : Sides(p) \subseteq Touched(treeDiff)}}
  /\ baseSide \in SUBSET Modifications
  /\ filters \in SUBSET ChangePaths
  /\ maxBytes \in 1..MaxDiff
  /\ doing = "compare" /\ work = treeDiff /\ inConflict = {}
  /\ patch = <<>> /\ listed = {}
  /\ output = [lines |-> <<>>, bytes |-> 0, partial |-> 0, truncated |-> FALSE]

DiffNext == CompareSides \/ Select \/ Detect \/ Render \/ Finish

DiffSpec == DiffInit /\ [][DiffNext]_diffVars

-----------------------------------------------------------------------------
\* With a filter the diff has the file of every changed path that matches, and
\* no other: what the diff of the whole pull request calls renamed is called
\* renamed, though perhaps from or to another path, and if an addition and a
\* deletion match, it has the same files.  The conflicts are those of the whole
\* pull request, every file is listed even if its text is not shown, and the text
\* consists of whole lines, all of them unless the limit is said to be reached
\* (gitdiff.go:420, gitdiff.go:821, README.md:95).
DiffIsOfTheSelection ==
  LET all == DetectRenames(treeDiff)
      Renamed(c) == Cardinality(Sides(c)) = 2
      wanted == IF filters = {} THEN Touched(treeDiff) ELSE Touched(treeDiff) \cap filters
      text == SumFunction([c \in work |-> Bytes(patch[c])])
  IN doing = "done" =>
       /\ \A p \in wanted : Cardinality({c \in listed : p \in Sides(c)}) = 1
       /\ \A c \in listed : Sides(c) \cap wanted # {}
       /\ \A c \in all, p \in wanted :
            Renamed(c) /\ p \in Sides(c) => \E d \in listed : Renamed(d) /\ p \in Sides(d)
       /\ (\E c, d \in treeDiff : c.from = None /\ Matches(c) /\ d.to = None /\ Matches(d))
            => listed = FilterChanges(all)
       /\ inConflict = Touched(treeDiff) \cap baseSide
       /\ output.bytes = Bytes(output.lines) /\ output.bytes <= maxBytes
       /\ output.truncated <=> text > maxBytes
       /\ ~output.truncated => output.bytes = text
=============================================================================
