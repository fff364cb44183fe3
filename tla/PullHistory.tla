----------------------------- MODULE PullHistory -----------------------------
(***************************************************************************)
(* What DiffPull (internal/gogs/gitdiff.go) says about the history of a    *)
(* pull request, once head and base are fetched: the merge base, the       *)
(* commits of the pull request, how far the base has moved, and the merge  *)
(* state.  Everything is read off walks of the commit graph, each with a   *)
(* stack of commits to visit and a limit on the commits it has seen.       *)
(*                                                                         *)
(* Commits are numbered so that parents come before children.  Their       *)
(* hashes are not: where the code takes the lowest hash, any commit is     *)
(* taken.  Of the tree diffs only the set of paths each side touches is    *)
(* kept, and a side that did not move touches none.  Of the limits on a    *)
(* walk only the number of commits is kept, not that of their bytes, and   *)
(* a commit can always be read.                                            *)
(***************************************************************************)
EXTENDS Naturals, Sequences, SequencesExt, FiniteSets

CONSTANTS
  N,          \* number of commits
  Paths,      \* paths a tree may hold
  MaxHistory  \* maximumHistoryCommits: 100000 in the code

Commits == 1..N

ASSUME HistoryAssumption == N \in Nat \ {0} /\ MaxHistory \in Nat \ {0}

VARIABLES
  parents,   \* parents[c]: the parents of commit c
  head,      \* the head of the pull request
  base,      \* the tip of the base ref
  phase,     \* which walk is under way
  pending,   \* the stack of the walk
  seen,      \* what the walk has visited
  excluded,  \* what it leaves out
  history,   \* the history of head
  bases,     \* the merge bases
  commits,   \* PullDiff.Commits
  moved,     \* the commits PullDiff.BaseCommits counts
  touched,   \* touched[s]: the paths that side s touched since the merge base
  state,     \* PullDiff.MergeState
  conflicts  \* PullDiff.MergeConflictPaths

pull == <<parents, head, base>>
walk == <<phase, pending, seen, excluded>>
answer == <<history, bases, commits, moved, touched, state, conflicts>>
vars == <<pull, walk, answer>>

-----------------------------------------------------------------------------
\* reachableCommits.

Begin(next, from, without) ==
  /\ phase' = next
  /\ pending' = <<from>>
  /\ seen' = {}
  /\ excluded' = without

Walking == pending # <<>>

\* Mutant: the limit is looked at before the commit is.
VisitLimitFirst ==
  /\ Walking
  /\ LET c == Last(pending) IN
     IF Cardinality(seen) >= MaxHistory
     THEN phase' = "failed" /\ pending' = <<>> /\ UNCHANGED seen
     ELSE IF c \in seen \cup excluded
     THEN pending' = Front(pending) /\ UNCHANGED <<phase, seen>>
     ELSE /\ seen' = seen \cup {c}
          /\ pending' = Front(pending) \o SetToSeq(parents[c])
          /\ UNCHANGED phase
  /\ UNCHANGED <<pull, answer, excluded>>

\* Mutant: what is left out is listed, not skipped.
VisitExcluded ==
  /\ Walking
  /\ LET c == Last(pending) IN
     IF c \in seen
     THEN pending' = Front(pending) /\ UNCHANGED <<phase, seen>>
     ELSE IF Cardinality(seen) >= MaxHistory
     THEN phase' = "failed" /\ pending' = <<>> /\ UNCHANGED seen
     ELSE /\ seen' = seen \cup {c}
          /\ pending' = Front(pending)
                        \o IF c \in excluded THEN <<>> ELSE SetToSeq(parents[c])
          /\ UNCHANGED phase
  /\ UNCHANGED <<pull, answer, excluded>>

\* One turn of the loop.
Visit ==
  /\ Walking
  /\ LET c == Last(pending) IN
     IF c \in seen \cup excluded
     THEN pending' = Front(pending) /\ UNCHANGED <<phase, seen>>
     ELSE IF Cardinality(seen) >= MaxHistory
     THEN phase' = "failed" /\ pending' = <<>> /\ UNCHANGED seen
     ELSE /\ seen' = seen \cup {c}
          /\ pending' = Front(pending) \o SetToSeq(parents[c])
          /\ UNCHANGED phase
  /\ UNCHANGED <<pull, answer, excluded>>

-----------------------------------------------------------------------------
\* boundedMergeBases: the history of head, the history of base, and what they
\* share that is no parent of something they share.

HeadWalked ==
  /\ phase = "head" /\ ~Walking
  /\ history' = seen
  /\ Begin("base", base, {})
  /\ UNCHANGED <<pull, bases, commits, moved, touched, state, conflicts>>

\* Mutant: the common commits that have no common parent.
Oldest(common) == {c \in common : parents[c] \cap common = {}}

Best(common) == common \ UNION {parents[c] : c \in common}

BaseWalked ==
  /\ phase = "base" /\ ~Walking
  /\ bases' = Best(history \cap seen)
  /\ phase' = IF bases' = {} THEN "unrelated" ELSE "choose"
  /\ UNCHANGED <<pull, pending, seen, excluded, history, commits, moved, touched,
                 state, conflicts>>

\* DiffPull takes the merge base whose hash is lowest and forgets the others;
\* commitsSince has nothing to walk when the head is that commit.
Choose ==
  /\ phase = "choose"
  /\ \E b \in bases :
       /\ bases' = {b}
       /\ IF b = head
          THEN phase' = "changes" /\ UNCHANGED <<pending, seen, excluded>>
          ELSE Begin("exclude", b, {})
  /\ UNCHANGED <<pull, history, commits, moved, touched, state, conflicts>>

MergeBase == CHOOSE b \in bases : TRUE

Excluded ==
  /\ phase = "exclude" /\ ~Walking
  /\ Begin("commits", head, seen)
  /\ UNCHANGED <<pull, answer>>

CommitsWalked ==
  /\ phase = "commits" /\ ~Walking
  /\ commits' = seen
  /\ phase' = "changes"
  /\ UNCHANGED <<pull, pending, seen, excluded, history, bases, moved, touched,
                 state, conflicts>>

\* Mutant: the head takes the place of the base.
ChangesSwapped ==
  /\ phase = "changes"
  /\ touched' \in [{"head", "base"} -> SUBSET Paths]
  /\ MergeBase = head => touched'["head"] = {}
  /\ MergeBase = base => touched'["base"] = {}
  /\ IF MergeBase = head
     THEN /\ phase' = "done"
          /\ state' = "fast_forward"
          /\ UNCHANGED <<pending, seen, excluded>>
     ELSE /\ Begin("baseExclude", MergeBase, {})
          /\ UNCHANGED state
  /\ UNCHANGED <<pull, history, bases, commits, moved, conflicts>>

\* The tree diffs, and with the base where it was, the end of mergeStateFor.
Changes ==
  /\ phase = "changes"
  /\ touched' \in [{"head", "base"} -> SUBSET Paths]
  /\ MergeBase = head => touched'["head"] = {}
  /\ MergeBase = base => touched'["base"] = {}
  /\ IF MergeBase = base
     THEN /\ phase' = "done"
          /\ state' = "fast_forward"
          /\ UNCHANGED <<pending, seen, excluded>>
     ELSE /\ Begin("baseExclude", MergeBase, {})
          /\ UNCHANGED state
  /\ UNCHANGED <<pull, history, bases, commits, moved, conflicts>>

BaseExcluded ==
  /\ phase = "baseExclude" /\ ~Walking
  /\ Begin("moved", base, seen)
  /\ UNCHANGED <<pull, answer>>

\* mergeStateFor: conflicting if both sides touched a path, else diverged.
MergeStateFor ==
  /\ phase = "moved" /\ ~Walking
  /\ moved' = seen
  /\ conflicts' = touched["head"] \cap touched["base"]
  /\ state' = IF seen = {} THEN "fast_forward"
              ELSE IF conflicts' # {} THEN "conflicting" ELSE "diverged"
  /\ phase' = "done"
  /\ UNCHANGED <<pull, pending, seen, excluded, history, bases, commits, touched>>

-----------------------------------------------------------------------------
Init ==
  /\ parents \in {f \in [Commits -> SUBSET Commits] : \A c \in Commits : f[c] \subseteq 1..(c - 1)}
  /\ head \in Commits /\ base \in Commits
  /\ phase = "head" /\ pending = <<head>> /\ seen = {} /\ excluded = {}
  /\ history = {} /\ bases = {} /\ commits = {} /\ moved = {}
  /\ touched = [s \in {"head", "base"} |-> {}]
  /\ state = "none" /\ conflicts = {}

Next ==
  \/ Visit \/ HeadWalked \/ BaseWalked \/ Choose \/ Excluded \/ CommitsWalked
  \/ Changes \/ BaseExcluded \/ MergeStateFor

Spec == Init /\ [][Next]_vars

-----------------------------------------------------------------------------
\* Properties, against the history defined by recursion along the parents.

History[c \in Commits] == {c} \cup UNION {History[p] : p \in parents[c]}

Done == phase = "done"

\* The merge base is a common ancestor that no other common ancestor descends
\* from, and a pull request is called unrelated only if there is none.
MergeBaseIsBest ==
  LET common == History[head] \cap History[base] IN
  /\ Done => /\ MergeBase \in common
             /\ \A c \in common \ {MergeBase} : MergeBase \notin History[c]
  /\ phase = "unrelated" => common = {}

\* The commits are those that can be reached from the head and not from the
\* merge base (gitdiff.go:53), over every parent as the code walks (gitdiff.go:772),
\* not first parents only as the comment has it (gitdiff.go:54).  None of the pull
\* request's own is missing, and where there is one merge base there are no others:
\* what git log base..head lists.
CommitsAreThePullRequests ==
  Done =>
    LET own  == History[head] \ History[base]
        best == Best(History[head] \cap History[base])
    IN
    /\ commits = History[head] \ History[MergeBase]
    /\ own \subseteq commits
    /\ best = {MergeBase} => commits = own

\* The merge state is fast_forward exactly if the head has everything the base
\* has; otherwise it is conflicting exactly if both sides touched a path, and
\* those are the paths reported (gitdiff.go:67-69).  base_commits counts the
\* commits of the base that the merge base has not, all that the head lacks
\* among them.  A head that the base already contains is diverged, too: only the
\* base is compared with the merge base (gitdiff.go:469).
MergeStateIsRight ==
  Done =>
    LET both == touched["head"] \cap touched["base"] IN
    /\ state = IF base \in History[head] THEN "fast_forward"
               ELSE IF both # {} THEN "conflicting" ELSE "diverged"
    /\ conflicts = both
    /\ moved = History[base] \ History[MergeBase]
    /\ History[base] \ History[head] \subseteq moved

\* A history is refused only if it is longer than the limit: what is counted is
\* commits, not ways to reach them (gitdiff.go:741).
RefusedOnlyIfLong ==
  phase = "failed" =>
    \E c \in {head, base} : Cardinality(History[c]) > MaxHistory
=============================================================================
