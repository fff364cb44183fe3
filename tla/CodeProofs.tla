----------------------------- MODULE CodeProofs -----------------------------
(***************************************************************************)
(* What PullHistory promises about the history of a pull request, for      *)
(* every commit graph: the walks of the graph compute the sets that the    *)
(* recursive definition of a history gives.  And what CodeSearch promises  *)
(* for every tree and every limit: the snapshot is the tree, and a result  *)
(* that is not flagged has every match.  And what PullDiff promises for     *)
(* every selection and every limit: the diff has what was asked for.        *)
(***************************************************************************)
EXTENDS PullHistory, CodeSearch, PullDiff, InductionLemmas, SequenceTheorems

-----------------------------------------------------------------------------
\* The stack of a walk.

\* Pushing the parents of a commit in some order adds them and nothing else.
LEMMA SetAsSeq ==
  ASSUME NEW T, IsFiniteSet(T)
  PROVE  SetToSeq(T) \in Seq(T) /\ ToSet(SetToSeq(T)) = T
<1> DEFINE n == Cardinality(T)
<1> DEFINE f == SetToSeq(T)
<1>1. n \in Nat /\ \E g \in [1..n -> T] : IsInjective(g)
  BY FS_CardinalityType, Zenon DEF ExistsBijection, Bijection, Injection
<1>2. f \in [1..n -> T] /\ IsInjective(f)
  BY <1>1, Zenon DEF SetToSeq
<1>3. f \in Injection(1..n, T)
  BY <1>2, Zenon DEF Injection
<1>4. f \in Surjection(1..n, T)
  <2>1. IsFiniteSet(1..n) /\ Cardinality(1..n) = n
    BY <1>1, FS_Interval
  <2> QED BY <1>3, <2>1, FS_Injection, Zenon
<1>5. f \in Seq(T)
  BY <1>1, <1>2, SeqDef
<1>6. DOMAIN f = 1..n
  BY <1>2
<1>7. \A t \in T : \E i \in 1..n : f[i] = t
  BY <1>4, Zenon DEF Surjection
<1> HIDE DEF f
<1>8. ToSet(f) = T
  BY <1>2, <1>6, <1>7 DEF ToSet
<1> QED BY <1>5, <1>8 DEF f

\* What a stack holds after its last element is replaced by others.
LEMMA PopPush ==
  ASSUME NEW S, NEW s \in Seq(S), s # <<>>
  PROVE  /\ Last(s) \in ToSet(s)
         /\ ToSet(s) \subseteq S
         /\ Front(s) \in Seq(S)
         /\ ToSet(s) = ToSet(Front(s)) \cup {Last(s)}
         /\ \A t \in Seq(S) : /\ Front(s) \o t \in Seq(S)
                              /\ ToSet(Front(s) \o t) = ToSet(Front(s)) \cup ToSet(t)
<1> DEFINE n == Len(s)
<1>1. n \in Nat /\ n # 0 /\ DOMAIN s = 1..n
  BY EmptySeq, LenProperties
<1>2. \A i \in 1..n : s[i] \in S
  BY ElementOfSeq
<1> DEFINE f == Front(s)
<1>3. f \in Seq(S) /\ Len(f) = n - 1 /\ \A i \in 1..(n - 1) : f[i] = s[i]
  <2>1. \A i \in 1..(n - 1) : s[i] \in S
    BY <1>1, <1>2
  <2>2. n - 1 \in Int
    BY <1>1
  <2>3. /\ SubSeq(s, 1, n - 1) \in Seq(S)
        /\ Len(SubSeq(s, 1, n - 1)) = IF 1 <= n - 1 THEN n - 1 - 1 + 1 ELSE 0
        /\ \A i \in 1..(n - 1 - 1 + 1) : SubSeq(s, 1, n - 1)[i] = s[1 + i - 1]
    <3> HIDE DEF n
    <3> QED BY <2>1, <2>2, SubSeqProperties
  <2> QED BY <1>1, <2>3 DEF Front
<1>4. DOMAIN f = 1..(n - 1)
  BY <1>3, LenProperties
<1> HIDE DEF f
<1>5. ToSet(s) = ToSet(f) \cup {s[n]}
  <2>1. 1..n = 1..(n - 1) \cup {n}
    BY <1>1
  <2> QED BY <1>1, <1>3, <1>4, <2>1 DEF ToSet
<1>6. ASSUME NEW t \in Seq(S)
      PROVE  f \o t \in Seq(S) /\ ToSet(f \o t) = ToSet(f) \cup ToSet(t)
  <2> DEFINE k == Len(f)
  <2> DEFINE l == Len(t)
  <2> DEFINE u == f \o t
  <2>1. k \in Nat /\ l \in Nat /\ DOMAIN f = 1..k /\ DOMAIN t = 1..l
    BY <1>3, LenProperties
  <2>2. /\ u \in Seq(S) /\ Len(u) = k + l
        /\ \A i \in 1..k + l : u[i] = IF i <= k THEN f[i] ELSE t[i - k]
    BY <1>3, ConcatProperties
  <2>3. DOMAIN u = 1..(k + l)
    BY <2>2, LenProperties
  <2> HIDE DEF k, l, u
  <2>4. ASSUME NEW i \in 1..k PROVE i \in 1..(k + l) /\ u[i] = f[i]
    BY <2>1, <2>2
  <2>5. ASSUME NEW j \in 1..l PROVE k + j \in 1..(k + l) /\ u[k + j] = t[j]
    <3>1. k + j \in 1..(k + l) /\ ~(k + j <= k) /\ (k + j) - k = j
      BY <2>1
    <3> QED BY <2>2, <3>1
  <2>6. ASSUME NEW i \in 1..(k + l)
        PROVE  (i \in 1..k /\ u[i] = f[i]) \/ (i - k \in 1..l /\ u[i] = t[i - k])
    BY <2>1, <2>2
  <2>7. ToSet(u) = ToSet(f) \cup ToSet(t)
    <3>1. ToSet(u) \subseteq ToSet(f) \cup ToSet(t)
      BY <2>1, <2>3, <2>6 DEF ToSet
    <3>2. ToSet(f) \subseteq ToSet(u)
      BY <2>1, <2>3, <2>4 DEF ToSet
    <3>3. ToSet(t) \subseteq ToSet(u)
      BY <2>1, <2>3, <2>5, Zenon DEF ToSet
    <3> QED BY <3>1, <3>2, <3>3
  <2> QED BY <2>2, <2>7 DEF u
<1>7. s[n] \in ToSet(s) /\ ToSet(s) \subseteq S
  <2>1. n \in 1..n
    BY <1>1
  <2> QED BY <1>1, <1>2, <2>1 DEF ToSet
<1> QED BY <1>3, <1>5, <1>6, <1>7 DEF f, Last

-----------------------------------------------------------------------------
\* Histories: the equation that defines them has a solution, and the solution is
\* the least set closed under the parents.

HistoryFcn(p) == CHOOSE h : h = [c \in Commits |-> {c} \cup UNION {h[q] : q \in p[c]}]

Graphed(p) == \A c \in Commits : p[c] \subseteq 1..(c - 1)

\* What a function does that gives the histories of the commits up to n.
HistoriesUpTo(h, p, n) ==
  h = [c \in Commits |-> IF c > n THEN {} ELSE {c} \cup UNION {h[q] : q \in p[c]}]

\* A function that gives the histories of the first n commits has an extension.
LEMMA HistoriesUpToNext ==
  ASSUME NEW p, Graphed(p), NEW n \in Nat, NEW h, HistoriesUpTo(h, p, n)
  PROVE  \E g : HistoriesUpTo(g, p, n + 1)
<1> DEFINE g == [c \in Commits |->
     IF c > n + 1 THEN {} ELSE {c} \cup UNION {h[q] : q \in p[c]}]
<1>1. ASSUME NEW c \in Commits, c <= n PROVE g[c] = h[c]
  <2>1. h[c] = IF c > n THEN {} ELSE {c} \cup UNION {h[q] : q \in p[c]}
    BY Zenon DEF HistoriesUpTo
  <2>2. g[c] = IF c > n + 1 THEN {} ELSE {c} \cup UNION {h[q] : q \in p[c]}
    BY Zenon
  <2>3. ~(c > n) /\ ~(c > n + 1)
    BY <1>1, HistoryAssumption DEF Commits
  <2> QED BY <2>1, <2>2, <2>3, Zenon
<1>2. ASSUME NEW c \in Commits, ~(c > n + 1), NEW q \in p[c]
      PROVE  g[q] = h[q]
  <2>1. q \in Commits /\ q <= n
    BY <1>2, HistoryAssumption DEF Graphed, Commits
  <2> QED BY <1>1, <2>1
<1>3. ASSUME NEW c \in Commits, ~(c > n + 1)
      PROVE  {g[q] : q \in p[c]} = {h[q] : q \in p[c]}
  <2> HIDE DEF g
  <2> QED BY <1>2, <1>3
<1>4. HistoriesUpTo(g, p, n + 1)
  BY <1>3, Zenon DEF HistoriesUpTo
<1> QED BY <1>4, Zenon

\* The history of a commit is the commit and the histories of its parents.
LEMMA HistoryEquation ==
  ASSUME NEW p, Graphed(p)
  PROVE  \A c \in Commits :
           HistoryFcn(p)[c] = {c} \cup UNION {HistoryFcn(p)[q] : q \in p[c]}
<1> DEFINE M == {n \in Nat : \E g : HistoriesUpTo(g, p, n)}
<1>1. 0 \in M
  <2> DEFINE g == [c \in Commits |-> {}]
  <2>1. ASSUME NEW c \in Commits PROVE c > 0
    BY HistoryAssumption DEF Commits
  <2>2. HistoriesUpTo(g, p, 0)
    BY <2>1, Zenon DEF HistoriesUpTo
  <2> HIDE DEF g
  <2> QED BY <2>2
<1>2. ASSUME NEW n \in Nat, n \in M PROVE n + 1 \in M
  BY <1>2, HistoriesUpToNext
<1>3. N \in M
  <2> HIDE DEF M
  <2>1. Nat \subseteq M
    BY <1>1, <1>2, InductionOnNat
  <2> QED BY <2>1, HistoryAssumption
<1>4. PICK g : HistoriesUpTo(g, p, N)
  BY <1>3, Zenon
<1>5. ASSUME NEW c \in Commits PROVE ~(c > N)
  BY HistoryAssumption DEF Commits
<1>6. g = [c \in Commits |-> {c} \cup UNION {g[q] : q \in p[c]}]
  BY <1>4, <1>5, Zenon DEF HistoriesUpTo
<1> DEFINE H == HistoryFcn(p)
<1>7. H = [c \in Commits |-> {c} \cup UNION {H[q] : q \in p[c]}]
  BY <1>6, Zenon DEF HistoryFcn
<1> HIDE DEF H
<1>8. \A c \in Commits : H[c] = {c} \cup UNION {H[q] : q \in p[c]}
  BY <1>7, Zenon
<1> QED BY <1>8 DEF H

\* Induction on commits: what holds of a commit if it holds of its parents holds.
LEMMA InductionOnCommits ==
  ASSUME NEW p, Graphed(p), NEW Good,
         \A c \in Commits : p[c] \subseteq Good => c \in Good
  PROVE  Commits \subseteq Good
<1> DEFINE Bad == Commits \ Good
<1> SUFFICES ASSUME Bad # {} PROVE FALSE
  OBVIOUS
<1>1. PICK c \in Bad : \A d \in Bad : c <= d
  <2> Bad \in SUBSET Nat
    BY DEF Commits
  <2> HIDE DEF Bad
  <2> QED BY LeastNatural, Zenon
<1>2. ASSUME NEW q \in p[c] PROVE q \in Good
  <2>1. q \in Commits /\ ~(c <= q)
    BY HistoryAssumption DEF Graphed, Commits
  <2> QED BY <1>1, <2>1
<1> QED BY <1>2

\* A history holds its commit and no later one, and with a commit its parents; it
\* is the least such set, holds the histories of what it holds, and with a commit
\* other than the first a child of it.
LEMMA Histories ==
  ASSUME NEW p, Graphed(p), NEW c \in Commits
  PROVE  /\ c \in HistoryFcn(p)[c]
         /\ HistoryFcn(p)[c] \subseteq 1..c
         /\ \A x \in HistoryFcn(p)[c] : p[x] \subseteq HistoryFcn(p)[c]
         /\ \A x \in HistoryFcn(p)[c] : HistoryFcn(p)[x] \subseteq HistoryFcn(p)[c]
<1> DEFINE H == HistoryFcn(p)
<1>1. \A d \in Commits : H[d] = {d} \cup UNION {H[q] : q \in p[d]}
  BY HistoryEquation
<1> HIDE DEF H
<1>2. \A d \in Commits : p[d] \subseteq Commits
  BY HistoryAssumption DEF Graphed, Commits
<1>3. \A d \in Commits : d \in H[d] /\ \A q \in p[d] : q \in H[q] /\ H[q] \subseteq H[d]
  BY <1>1, <1>2
<1> DEFINE Good == {d \in Commits :
        /\ H[d] \subseteq 1..d
        /\ \A x \in H[d] : p[x] \subseteq H[d]
        /\ \A x \in H[d] : H[x] \subseteq H[d]}
<1>4. ASSUME NEW d \in Commits, p[d] \subseteq Good PROVE d \in Good
  <2>1. ASSUME NEW x \in H[d] PROVE x = d \/ \E q \in p[d] : x \in H[q]
    BY <1>1
  <2>2. H[d] \subseteq 1..d
    <3>1. ASSUME NEW x \in H[d], NEW q \in p[d], x \in H[q] PROVE x \in 1..d
      <4>1. x \in 1..q /\ q \in 1..(d - 1)
        BY <1>4, <3>1 DEF Graphed
      <4> QED BY <4>1, HistoryAssumption DEF Commits
    <3>2. d \in 1..d
      BY HistoryAssumption DEF Commits
    <3> QED BY <2>1, <3>1, <3>2
  <2>3. ASSUME NEW x \in H[d] PROVE p[x] \subseteq H[d] /\ H[x] \subseteq H[d]
    <3>1. CASE x = d
      <4>1. \A q \in p[d] : q \in H[d]
        BY <1>3
      <4> QED BY <3>1, <4>1
    <3>2. CASE \E q \in p[d] : x \in H[q]
      <4>1. PICK q \in p[d] : x \in H[q]
        BY <3>2
      <4>2. p[x] \subseteq H[q] /\ H[x] \subseteq H[q]
        BY <1>4, <4>1
      <4> QED BY <1>3, <4>2
    <3> QED BY <2>1, <3>1, <3>2
  <2> QED BY <2>2, <2>3
<1>5. Commits \subseteq Good
  <2> HIDE DEF Good
  <2> QED BY <1>4, InductionOnCommits
<1>6. c \in Good
  BY <1>5
<1> QED BY <1>3, <1>6 DEF H

\* A set that holds a commit, and the parents of what it holds outside of Y, has its
\* history but for what Y has.
LEMMA HistoryIsLeast ==
  ASSUME NEW p, Graphed(p), NEW c \in Commits,
         NEW X, c \in X, NEW Y, \A x \in X \ Y : p[x] \subseteq X,
         \A y \in Y \cap Commits : HistoryFcn(p)[y] \subseteq Y
  PROVE  HistoryFcn(p)[c] \subseteq X \cup Y
<1> DEFINE H == HistoryFcn(p)
<1>1. \A d \in Commits : H[d] = {d} \cup UNION {H[q] : q \in p[d]}
  BY HistoryEquation
<1>2. \A y \in Y \cap Commits : H[y] \subseteq Y
  OBVIOUS
<1> HIDE DEF H
<1> DEFINE Good == {d \in Commits : d \in X => H[d] \subseteq X \cup Y}
<1>3. ASSUME NEW d \in Commits, p[d] \subseteq Good PROVE d \in Good
  <2> SUFFICES ASSUME d \in X, d \notin Y PROVE H[d] \subseteq X \cup Y
    BY <1>2
  <2>1. \A q \in p[d] : H[q] \subseteq X \cup Y
    BY <1>3
  <2> QED BY <1>1, <2>1
<1>4. Commits \subseteq Good
  <2> HIDE DEF Good
  <2> QED BY <1>3, InductionOnCommits
<1> QED BY <1>4 DEF H

\* What a history holds beside its commit is a parent of something it holds.
LEMMA HistoryHasChild ==
  ASSUME NEW p, Graphed(p), NEW c \in Commits,
         NEW x \in HistoryFcn(p)[c], x # c
  PROVE  \E y \in HistoryFcn(p)[c] : x \in p[y]
<1> DEFINE H == HistoryFcn(p)
<1>1. \A d \in Commits : H[d] = {d} \cup UNION {H[q] : q \in p[d]}
  BY HistoryEquation
<1>2. \A d \in Commits : /\ d \in H[d]
                         /\ \A y \in H[d] : H[y] \subseteq H[d]
  BY Histories
<1>3. \A d \in Commits : p[d] \subseteq Commits
  BY HistoryAssumption DEF Graphed, Commits
<1> HIDE DEF H
<1> DEFINE Good == {d \in Commits : \A z \in H[d] : z # d => \E y \in H[d] : z \in p[y]}
<1>4. ASSUME NEW d \in Commits, p[d] \subseteq Good PROVE d \in Good
  <2>1. ASSUME NEW z \in H[d], z # d PROVE \E y \in H[d] : z \in p[y]
    <3>1. PICK q \in p[d] : z \in H[q]
      BY <1>1, <2>1
    <3>2. CASE z = q
      BY <1>2, <3>2
    <3>3. CASE z # q
      <4>1. PICK y \in H[q] : z \in p[y]
        BY <1>4, <3>1, <3>3
      <4>2. H[q] \subseteq H[d]
        BY <1>1
      <4> QED BY <4>1, <4>2
    <3> QED BY <3>2, <3>3
  <2> QED BY <2>1
<1>5. Commits \subseteq Good
  <2> HIDE DEF Good
  <2> QED BY <1>4, InductionOnCommits
<1> QED BY <1>5 DEF H

\* Of a set of commits, what no commit of the set has as a parent is above all.
LEMMA BestAbove ==
  ASSUME NEW p, Graphed(p), NEW D \in SUBSET Commits, NEW c \in D
  PROVE  \E b \in D : /\ c \in HistoryFcn(p)[b]
                      /\ \A d \in D : b \notin p[d]
<1> DEFINE H == HistoryFcn(p)
<1>1. \A d \in Commits : d \in H[d]
  BY Histories
<1>2. \A d \in Commits : \A x \in p[d] : H[x] \subseteq H[d]
  BY HistoryEquation
<1> HIDE DEF H
<1> DEFINE Away == {m \in Nat : \E d \in D : c \in H[d] /\ m = N - d}
<1>3. \A d \in D : d \in Nat /\ d <= N /\ N - d \in Nat /\ N \in Nat
  BY HistoryAssumption DEF Commits
<1>4. PICK m \in Away : \A k \in Away : m <= k
  <2>1. N - c \in Away
    BY <1>1, <1>3
  <2>2. Away \in SUBSET Nat /\ Away # {}
    BY <2>1
  <2> HIDE DEF Away
  <2> QED BY <2>2, LeastNatural, Zenon
<1>5. PICK b \in D : c \in H[b] /\ m = N - b
  BY <1>4
<1>6. ASSUME NEW d \in D, b \in p[d] PROVE FALSE
  <2>1. c \in H[d]
    BY <1>2, <1>5, <1>6
  <2>2. N - d \in Away
    BY <1>3, <2>1
  <2>3. b \in 1..(d - 1)
    BY <1>6 DEF Graphed
  <2>4. N - b <= N - d
    BY <1>4, <1>5, <2>2
  <2> QED BY <1>3, <2>3, <2>4
<1> QED BY <1>5, <1>6 DEF H

-----------------------------------------------------------------------------
\* The inductive invariant.

\* Every variable has the type it is declared with, and parents come first.
HistoryTypeOK ==
  /\ parents \in [Commits -> SUBSET Commits] /\ Graphed(parents)
  /\ head \in Commits /\ base \in Commits
  /\ pending \in Seq(Commits)
  /\ seen \subseteq Commits

WalkPhases == {"head", "base", "exclude", "commits", "baseExclude", "moved"}

\* Where the walk under way began, and what it leaves out.
Start ==
  IF phase \in {"head", "commits"} THEN head
  ELSE IF phase \in {"base", "moved"} THEN base ELSE MergeBase

Without == IF phase \in {"commits", "moved"} THEN History[MergeBase] ELSE {}

\* A walk from a commit stays in its history, and has on the stack what it still
\* has to see.
WalkOf(from) ==
  /\ seen \cup ToSet(pending) \subseteq History[from]
  /\ seen \cap excluded = {}
  /\ from \in seen \cup ToSet(pending) \cup excluded
  /\ \A x \in seen : parents[x] \subseteq seen \cup ToSet(pending) \cup excluded

WalkInv ==
  IF phase \in WalkPhases
  THEN excluded = Without /\ WalkOf(Start)
  ELSE pending = <<>>

Common == History[head] \cap History[base]

\* What the walks before this phase have found.
FoundInv ==
  /\ phase = "base" => history = History[head]
  /\ phase = "choose" => bases = Best(Common) /\ bases # {}
  /\ phase = "unrelated" => Common = {}
  /\ phase \in {"exclude", "commits", "changes", "baseExclude", "moved", "done"} =>
       \E b \in Best(Common) : bases = {b}
  /\ phase \in {"head", "base", "choose", "exclude", "commits"} => commits = {}
  /\ phase \in {"changes", "baseExclude", "moved", "done"} =>
       commits = History[head] \ History[MergeBase]
  /\ phase \in {"baseExclude", "moved"} => MergeBase # base
  /\ ~Done => moved = {} /\ conflicts = {}
  /\ Done => /\ conflicts = touched["head"] \cap touched["base"]
             /\ IF MergeBase = base
                THEN state = "fast_forward" /\ moved = {} /\ conflicts = {}
                ELSE /\ moved = History[base] \ History[MergeBase]
                     /\ state = IF conflicts # {} THEN "conflicting" ELSE "diverged"

HistoryInv == HistoryTypeOK /\ WalkInv /\ FoundInv /\ RefusedOnlyIfLong

-----------------------------------------------------------------------------

\* The histories of the model are the function that HistoryEquation describes.
LEMMA HistoryIsFcn == History = HistoryFcn(parents)
BY Zenon DEF History, HistoryFcn

\* What the proofs use of histories: they are closed under parents, hold no later
\* commit, and every other commit in one is a parent in it.
LEMMA HistoryFacts ==
  ASSUME HistoryTypeOK
  PROVE  \A c \in Commits :
           /\ c \in History[c] /\ History[c] \subseteq 1..c /\ History[c] \subseteq Commits
           /\ IsFiniteSet(History[c])
           /\ \A x \in History[c] : /\ parents[x] \subseteq History[c]
                                    /\ History[x] \subseteq History[c]
                                    /\ x # c => \E y \in History[c] : x \in parents[y]
<1>1. Graphed(parents)
  BY DEF HistoryTypeOK
<1> SUFFICES ASSUME NEW c \in Commits
    PROVE  /\ c \in History[c] /\ History[c] \subseteq 1..c /\ History[c] \subseteq Commits
           /\ IsFiniteSet(History[c])
           /\ \A x \in History[c] : /\ parents[x] \subseteq History[c]
                                    /\ History[x] \subseteq History[c]
                                    /\ x # c => \E y \in History[c] : x \in parents[y]
  OBVIOUS
<1>2. /\ c \in History[c] /\ History[c] \subseteq 1..c
      /\ \A x \in History[c] : parents[x] \subseteq History[c] /\ History[x] \subseteq History[c]
  BY <1>1, Histories, HistoryIsFcn
<1>3. \A x \in History[c] : x # c => \E y \in History[c] : x \in parents[y]
  BY <1>1, HistoryHasChild, HistoryIsFcn
<1>4. c \in Nat /\ 1..c \subseteq Commits
  BY HistoryAssumption DEF Commits
<1>5. IsFiniteSet(History[c])
  BY <1>2, <1>4, FS_Interval, FS_Subset
<1> QED BY <1>2, <1>3, <1>4, <1>5

\* When the walks found one merge base, it is the one that is taken.
LEMMA MergeBaseIs ==
  ASSUME NEW b, bases = {b} PROVE MergeBase = b
BY DEF MergeBase

\* A walk that has nothing left on its stack has seen the history it began in,
\* but for what it leaves out.
LEMMA WalkEnds ==
  ASSUME HistoryTypeOK, NEW from \in Commits, WalkOf(from), pending = <<>>,
         excluded = {} \/ \E b \in Commits : excluded = History[b]
  PROVE  seen = History[from] \ excluded
<1>1. ToSet(pending) = {}
  BY DEF ToSet
<1>2. \A y \in excluded \cap Commits : HistoryFcn(parents)[y] \subseteq excluded
  BY HistoryFacts, HistoryIsFcn
<1>3. \A x \in (seen \cup excluded) \ excluded : parents[x] \subseteq seen \cup excluded
  BY <1>1 DEF WalkOf
<1>4. from \in seen \cup excluded
  BY <1>1 DEF WalkOf
<1>5. Graphed(parents)
  BY DEF HistoryTypeOK
<1>6. HistoryFcn(parents)[from] \subseteq (seen \cup excluded) \cup excluded
  <2> DEFINE X == seen \cup excluded
  <2> HIDE DEF X
  <2> QED BY <1>2, <1>3, <1>4, <1>5, HistoryIsLeast DEF X
<1> QED BY <1>6, HistoryIsFcn DEF WalkOf

\* A walk begins as one.
LEMMA WalkBegins ==
  ASSUME HistoryTypeOK, NEW from \in Commits, NEW next, NEW without,
         Begin(next, from, without), parents' = parents
  PROVE  /\ WalkOf(from)' /\ excluded' = without /\ phase' = next
         /\ pending' \in Seq(Commits) /\ seen' = {}
<1>1. ToSet(<<from>>) = {from}
  BY DEF ToSet
<1>2. History' = History
  BY Zenon DEF History
<1>3. from \in History[from]
  BY HistoryFacts
<1> QED BY <1>1, <1>2, <1>3 DEF Begin, WalkOf

\* A turn of the loop keeps the walk, or refuses a history that is too long.
LEMMA VisitWalks ==
  ASSUME HistoryTypeOK, NEW from \in Commits, WalkOf(from), Visit
  PROVE  /\ pending' \in Seq(Commits)
         /\ seen' \subseteq Commits
         /\ \/ phase' = phase /\ WalkOf(from)'
            \/ /\ phase' = "failed" /\ pending' = <<>>
               /\ Cardinality(History[from]) > MaxHistory
<1> DEFINE c == Last(pending)
<1>1. parents' = parents /\ excluded' = excluded /\ pending # <<>> /\ pending \in Seq(Commits)
  BY DEF Visit, HistoryTypeOK, Walking, pull
<1>2. History' = History
  BY <1>1, Zenon DEF History
<1>3. /\ c \in ToSet(pending) /\ ToSet(pending) \subseteq Commits
      /\ Front(pending) \in Seq(Commits)
      /\ ToSet(pending) = ToSet(Front(pending)) \cup {c}
      /\ \A t \in Seq(Commits) :
           /\ Front(pending) \o t \in Seq(Commits)
           /\ ToSet(Front(pending) \o t) = ToSet(Front(pending)) \cup ToSet(t)
  BY <1>1, PopPush
<1>4. c \in Commits /\ c \in History[from]
  BY <1>3 DEF WalkOf
<1>5. CASE c \in seen \cup excluded
  <2>1. pending' = Front(pending) /\ phase' = phase /\ seen' = seen
    BY <1>5 DEF Visit
  <2> QED BY <1>1, <1>2, <1>3, <1>5, <2>1 DEF WalkOf, HistoryTypeOK
<1>6. CASE c \notin seen \cup excluded /\ Cardinality(seen) >= MaxHistory
  <2>1. phase' = "failed" /\ pending' = <<>> /\ seen' = seen
    BY <1>6 DEF Visit
  <2>2. IsFiniteSet(History[from]) /\ seen \cup {c} \subseteq History[from]
    BY <1>4, HistoryFacts DEF WalkOf
  <2>3. /\ IsFiniteSet(seen) /\ Cardinality(seen) \in Nat
        /\ Cardinality(seen \cup {c}) <= Cardinality(History[from])
        /\ Cardinality(History[from]) \in Nat
    BY <2>2, FS_Subset, FS_CardinalityType
  <2>4. Cardinality(seen \cup {c}) = Cardinality(seen) + 1
    <3>1. c \notin seen
      BY <1>6
    <3> QED BY <2>3, <3>1, FS_AddElement, Zenon
  <2>5. Cardinality(History[from]) > MaxHistory
    BY <1>6, <2>3, <2>4, HistoryAssumption
  <2> QED BY <2>1, <2>5, EmptySeq DEF HistoryTypeOK
<1>7. CASE c \notin seen \cup excluded /\ ~(Cardinality(seen) >= MaxHistory)
  <2> DEFINE t == SetToSeq(parents[c])
  <2>1. pending' = Front(pending) \o t /\ phase' = phase /\ seen' = seen \cup {c}
    BY <1>7 DEF Visit
  <2>2. parents[c] \subseteq Commits
    BY <1>4 DEF HistoryTypeOK
  <2>3. IsFiniteSet(parents[c])
    <3>1. 1 \in Int /\ N \in Int
      BY HistoryAssumption
    <3>2. IsFiniteSet(Commits)
      BY <3>1, FS_Interval DEF Commits
    <3> QED BY <2>2, <3>2, FS_Subset
  <2>4. t \in Seq(Commits) /\ ToSet(t) = parents[c]
    BY <2>2, <2>3, SetAsSeq, SeqMonotonic
  <2> HIDE DEF t
  <2>5. ToSet(pending') = ToSet(Front(pending)) \cup parents[c] /\ pending' \in Seq(Commits)
    BY <1>3, <2>1, <2>4
  <2>6. parents[c] \subseteq History[from]
    BY <1>4, HistoryFacts
  <2>7. seen' \cup ToSet(pending') \subseteq History[from]
    BY <1>3, <1>4, <2>1, <2>5, <2>6 DEF WalkOf
  <2>8. WalkOf(from)'
    <3>1. seen \cup ToSet(pending) \cup excluded \subseteq seen' \cup ToSet(pending') \cup excluded
      BY <1>3, <2>1, <2>5
    <3>2. ASSUME NEW x \in seen'
          PROVE  parents[x] \subseteq seen' \cup ToSet(pending') \cup excluded
      <4>1. CASE x \in seen
        BY <3>1, <4>1 DEF WalkOf
      <4>2. CASE x = c
        BY <2>5, <4>2
      <4> QED BY <2>1, <4>1, <4>2
    <3>3. seen' \cap excluded = {}
      BY <1>7, <2>1 DEF WalkOf
    <3>4. from \in seen' \cup ToSet(pending') \cup excluded
      BY <3>1 DEF WalkOf
    <3> QED BY <1>1, <1>2, <2>7, <3>2, <3>3, <3>4 DEF WalkOf
  <2> QED BY <1>4, <2>1, <2>5, <2>8 DEF HistoryTypeOK
<1> QED BY <1>5, <1>6, <1>7

-----------------------------------------------------------------------------

\* A best common ancestor has no child that is common, and all its history is.
LEMMA BestIs ==
  ASSUME NEW b \in Best(Common), bases = {b}, HistoryTypeOK
  PROVE  /\ MergeBase = b /\ b \in Commits /\ b \in Common
         /\ History[b] \subseteq Common
         /\ \A c \in Common : b \notin parents[c]
<1>1. MergeBase = b
  BY MergeBaseIs
<1>2. b \in Common /\ \A c \in Common : b \notin parents[c]
  BY DEF Best
<1>3. head \in Commits /\ base \in Commits
  BY DEF HistoryTypeOK
<1>4. b \in Commits /\ History[b] \subseteq Common
  BY <1>2, <1>3, HistoryFacts DEF Common
<1> QED BY <1>1, <1>2, <1>4

\* Every turn of the loop keeps the invariant: the walk goes on, or it is refused
\* because it has seen more than the limit of commits of one history.
LEMMA VisitKeeps ==
  ASSUME HistoryInv, Visit
  PROVE  HistoryInv'
<1>1. /\ HistoryTypeOK /\ parents' = parents /\ head' = head /\ base' = base
      /\ excluded' = excluded /\ history' = history /\ bases' = bases /\ commits' = commits
      /\ moved' = moved /\ state' = state /\ touched' = touched /\ conflicts' = conflicts
      /\ pending # <<>>
  BY DEF Visit, HistoryInv, Walking, pull, answer
<1>2. History' = History
  BY <1>1, Zenon DEF History
<1>3. MergeBase' = MergeBase
  BY <1>1, Zenon DEF MergeBase
<1>4. phase \in WalkPhases /\ excluded = Without /\ WalkOf(Start)
  BY <1>1 DEF HistoryInv, WalkInv
<1>5. /\ head \in Commits /\ base \in Commits
      /\ phase \in {"exclude", "commits", "baseExclude", "moved"} =>
           MergeBase \in Commits /\ History[MergeBase] \subseteq History[head]
  <2>1. ASSUME phase \in {"exclude", "commits", "baseExclude", "moved"}
        PROVE  MergeBase \in Commits /\ History[MergeBase] \subseteq History[head]
    <3>1. PICK b \in Best(Common) : bases = {b}
      BY <2>1 DEF HistoryInv, FoundInv
    <3> QED BY <1>1, <3>1, BestIs DEF Common
  <2> QED BY <1>1, <2>1 DEF HistoryTypeOK
<1>6. Start \in Commits
  BY <1>4, <1>5 DEF Start, WalkPhases
<1>7. /\ pending' \in Seq(Commits) /\ seen' \subseteq Commits
      /\ \/ phase' = phase /\ \A from \in {Start} : WalkOf(from)'
         \/ /\ phase' = "failed" /\ pending' = <<>>
            /\ Cardinality(History[Start]) > MaxHistory
  <2>1. ASSUME NEW from \in Commits, WalkOf(from)
        PROVE  /\ pending' \in Seq(Commits) /\ seen' \subseteq Commits
               /\ \/ phase' = phase /\ WalkOf(from)'
                  \/ /\ phase' = "failed" /\ pending' = <<>>
                     /\ Cardinality(History[from]) > MaxHistory
    BY <1>1, <2>1, VisitWalks
  <2>2. \A from \in Commits : WalkOf(from) =>
               /\ pending' \in Seq(Commits) /\ seen' \subseteq Commits
               /\ \/ phase' = phase /\ WalkOf(from)'
                  \/ /\ phase' = "failed" /\ pending' = <<>>
                     /\ Cardinality(History[from]) > MaxHistory
    BY <2>1
  <2> QED BY <1>4, <1>6, <2>2
<1>8. HistoryTypeOK'
  BY <1>1, <1>7 DEF HistoryTypeOK, Graphed
<1>9. CASE phase' = phase
  <2>1. Start' = Start /\ Without' = Without
    BY <1>1, <1>2, <1>3, <1>9 DEF Start, Without
  <2>2. \A from \in {Start} : WalkOf(from)'
    BY <1>4, <1>7, <1>9 DEF WalkPhases
  <2>3. WalkOf(Start)'
    <3>1. WalkOf(Start)' <=>
            /\ seen' \cup ToSet(pending') \subseteq History'[Start']
            /\ seen' \cap excluded' = {}
            /\ Start' \in seen' \cup ToSet(pending') \cup excluded'
            /\ \A x \in seen' : parents'[x] \subseteq seen' \cup ToSet(pending') \cup excluded'
      BY DEF WalkOf
    <3> QED BY <2>1, <2>2, <3>1 DEF WalkOf
  <2>4. WalkInv'
    BY <1>1, <1>4, <1>9, <2>1, <2>3 DEF WalkInv
  <2>5. FoundInv'
    BY <1>1, <1>2, <1>3, <1>9 DEF HistoryInv, FoundInv, Common, Best, Done
  <2>6. RefusedOnlyIfLong'
    BY <1>4, <1>9 DEF RefusedOnlyIfLong, WalkPhases
  <2> QED BY <1>8, <2>4, <2>5, <2>6 DEF HistoryInv
<1>10. CASE phase' # phase
  <2>1. phase' = "failed" /\ pending' = <<>> /\ Cardinality(History[Start]) > MaxHistory
    BY <1>7, <1>10
  <2>2. WalkInv' /\ FoundInv'
    BY <1>1, <1>4, <2>1 DEF HistoryInv, WalkInv, WalkPhases, FoundInv, Done
  <2>3. \E c \in {head, base} : Cardinality(History[c]) > MaxHistory
    <3>1. CASE Start \in {head, base}
      BY <2>1, <3>1
    <3>2. CASE Start \notin {head, base}
      <4>1. History[Start] \subseteq History[head]
        BY <1>4, <1>5, <3>2 DEF Start, WalkPhases
      <4>2. IsFiniteSet(History[head])
        BY <1>1, <1>5, HistoryFacts
      <4>3. /\ Cardinality(History[Start]) <= Cardinality(History[head])
            /\ Cardinality(History[Start]) \in Nat /\ Cardinality(History[head]) \in Nat
        BY <4>1, <4>2, FS_Subset, FS_CardinalityType
      <4>4. Cardinality(History[head]) > MaxHistory
        BY <2>1, <4>3, HistoryAssumption
      <4> QED BY <4>4
    <3> QED BY <3>1, <3>2
  <2>4. RefusedOnlyIfLong'
    BY <1>1, <1>2, <2>3 DEF RefusedOnlyIfLong
  <2> QED BY <1>8, <2>2, <2>4 DEF HistoryInv
<1> QED BY <1>9, <1>10

-----------------------------------------------------------------------------
\* What a finished walk has seen.
LEMMA WalkSeen ==
  ASSUME HistoryInv, pending = <<>>, phase \in WalkPhases
  PROVE  /\ phase \in {"head", "exclude", "base", "baseExclude"} => seen = History[Start]
         /\ phase \in {"commits", "moved"} => seen = History[Start] \ History[MergeBase]
         /\ Start \in Commits
<1>1. HistoryTypeOK /\ excluded = Without /\ WalkOf(Start) /\ head \in Commits /\ base \in Commits
  BY DEF HistoryInv, WalkInv, HistoryTypeOK
<1>2. phase \in {"exclude", "commits", "baseExclude", "moved"} => MergeBase \in Commits
  <2>1. ASSUME phase \in {"exclude", "commits", "baseExclude", "moved"}
        PROVE  MergeBase \in Commits
    <3>1. PICK b \in Best(Common) : bases = {b}
      BY <2>1 DEF HistoryInv, FoundInv
    <3> QED BY <1>1, <3>1, BestIs
  <2> QED BY <2>1
<1>3. Start \in Commits
  BY <1>1, <1>2 DEF Start, WalkPhases
<1>4. excluded = {} \/ \E b \in Commits : excluded = History[b]
  BY <1>1, <1>2 DEF Without
<1>5. seen = History[Start] \ excluded
  <2>1. \A from \in Commits : WalkOf(from) => seen = History[from] \ excluded
    BY <1>1, <1>4, WalkEnds
  <2> QED BY <1>1, <1>3, <2>1
<1> QED BY <1>1, <1>3, <1>5 DEF Without, WalkPhases

\* The steps between the walks keep the invariant.
LEMMA OthersKeep ==
  ASSUME HistoryInv, Next, ~Visit
  PROVE  HistoryInv'
<1>1. HistoryTypeOK /\ head \in Commits /\ base \in Commits
  BY DEF HistoryInv, HistoryTypeOK
<1>2. parents' = parents /\ head' = head /\ base' = base
  BY DEF Next, pull, HeadWalked, BaseWalked, Choose, Excluded, CommitsWalked, Changes,
         BaseExcluded, MergeStateFor, answer
<1>3. History' = History
  BY <1>2, Zenon DEF History
<1>4. Common' = Common
  BY <1>2, <1>3 DEF Common
<1>5. \A from \in Commits : \A next, without :
        Begin(next, from, without) =>
          excluded' = without /\ phase' = next /\ pending' \in Seq(Commits) /\ seen' = {}
  BY <1>1, <1>2, WalkBegins
<1> DEFINE Type == pending' \in Seq(Commits) /\ seen' \subseteq Commits
<1>6. Type => HistoryTypeOK'
  BY <1>1, <1>2 DEF HistoryTypeOK, Graphed
<1>7. phase' # "failed" => RefusedOnlyIfLong'
  BY DEF RefusedOnlyIfLong
<1>8. ASSUME NEW from \in Commits, NEW next \in WalkPhases, NEW without,
             Begin(next, from, without), Start' = from, Without' = without
      PROVE  WalkInv'
  <2>1. WalkOf(from)' /\ excluded' = without /\ phase' = next
    BY <1>1, <1>2, <1>8, WalkBegins
  <2>2. WalkOf(Start)' <=>
            /\ seen' \cup ToSet(pending') \subseteq History'[Start']
            /\ seen' \cap excluded' = {}
            /\ Start' \in seen' \cup ToSet(pending') \cup excluded'
            /\ \A x \in seen' : parents'[x] \subseteq seen' \cup ToSet(pending') \cup excluded'
    BY DEF WalkOf
  <2>3. WalkOf(Start)'
    BY <1>8, <2>1, <2>2 DEF WalkOf
  <2> QED BY <1>8, <2>1, <2>3 DEF WalkInv
<1>9. MergeBase' = MergeBase \/ bases' # bases
  BY Zenon DEF MergeBase
<1>10. ASSUME phase \in {"exclude", "commits", "changes", "baseExclude", "moved"}
       PROVE  /\ bases = {MergeBase} /\ MergeBase \in Best(Common)
              /\ MergeBase \in Commits /\ MergeBase \in Common
              /\ History[MergeBase] \subseteq Common
              /\ bases' = bases => /\ MergeBase' = MergeBase
                                   /\ \E b \in Best(Common)' : bases' = {b}
  <2>1. PICK b \in Best(Common) : bases = {b}
    BY <1>10 DEF HistoryInv, FoundInv
  <2>2. MergeBase = b /\ b \in Commits /\ b \in Common /\ History[b] \subseteq Common
    BY <1>1, <2>1, BestIs
  <2>3. Best(Common)' = Best(Common)
    BY <1>2, <1>4 DEF Best
  <2> QED BY <1>9, <2>1, <2>2, <2>3
<1>11. CASE HeadWalked
  <2>1. /\ phase = "head" /\ pending = <<>> /\ history' = seen /\ Begin("base", base, {})
        /\ commits' = commits /\ moved' = moved /\ conflicts' = conflicts
    BY <1>11 DEF HeadWalked, Walking
  <2>2. seen = History[head]
    BY <2>1, WalkSeen DEF WalkPhases, Start
  <2>3. /\ excluded' = {} /\ phase' = "base"
        /\ pending' \in Seq(Commits) /\ seen' = {}
    BY <1>1, <1>5, <2>1
  <2>4. WalkInv'
    <3>1. Start' = base /\ Without' = {} /\ phase' \in WalkPhases
      BY <1>2, <2>3 DEF Start, Without, WalkPhases
    <3> QED BY <1>1, <1>8, <2>1, <2>3, <3>1
  <2>5. FoundInv'
    BY <1>2, <1>3, <2>1, <2>2, <2>3 DEF HistoryInv, FoundInv, Done
  <2> QED BY <1>6, <1>7, <2>3, <2>4, <2>5 DEF HistoryInv
<1>12. CASE BaseWalked
  <2>1. /\ phase = "base" /\ pending = <<>> /\ pending' = pending /\ seen' = seen
        /\ bases' = Best(history \cap seen) /\ commits' = commits
        /\ moved' = moved /\ conflicts' = conflicts
        /\ phase' = IF bases' = {} THEN "unrelated" ELSE "choose"
    BY <1>12 DEF BaseWalked, Walking
  <2>2. seen = History[base] /\ history = History[head]
    BY <2>1, WalkSeen DEF WalkPhases, Start, HistoryInv, FoundInv
  <2>3. bases' = Best(Common) /\ Best(Common)' = Best(Common)
    BY <1>2, <1>4, <2>1, <2>2 DEF Common, Best
  <2>4. ASSUME bases' = {} PROVE Common = {}
    <3> SUFFICES ASSUME NEW c \in Common PROVE FALSE
      OBVIOUS
    <3>1. Common \subseteq Commits /\ Graphed(parents)
      BY <1>1, HistoryFacts DEF Common, HistoryTypeOK
    <3>2. PICK b \in Common : \A d \in Common : b \notin parents[d]
      BY <3>1, BestAbove
    <3>3. b \in Best(Common)
      BY <3>2 DEF Best
    <3> QED BY <2>3, <2>4, <3>3
  <2>5. Type
    BY <1>1, <2>1 DEF HistoryTypeOK
  <2>6. WalkInv'
    BY <2>1 DEF WalkInv, WalkPhases
  <2>7. FoundInv'
    BY <1>4, <2>1, <2>3, <2>4 DEF HistoryInv, FoundInv, Done
  <2> QED BY <1>6, <1>7, <2>1, <2>5, <2>6, <2>7 DEF HistoryInv
<1>13. CASE Choose
  <2>1. /\ phase = "choose" /\ bases = Best(Common) /\ commits' = commits /\ commits = {}
        /\ moved' = {} /\ conflicts' = {}
    BY <1>13 DEF Choose, HistoryInv, FoundInv, Done
  <2>2. PICK b \in bases :
          /\ bases' = {b}
          /\ IF b = head
             THEN phase' = "changes" /\ UNCHANGED <<pending, seen, excluded>>
             ELSE Begin("exclude", b, {})
    BY <1>13 DEF Choose
  <2>3. MergeBase' = b
    <3>1. \A x : bases' = {x} => MergeBase' = x
      BY DEF MergeBase
    <3> QED BY <2>2, <3>1
  <2>4. Best(Common)' = Best(Common)
    BY <1>2, <1>4 DEF Best
  <2>5. b \in Commits
    BY <1>1, <2>1, HistoryFacts DEF Best, Common
  <2>6. CASE b = head
    <3>1. phase' = "changes" /\ pending' = pending /\ seen' = seen /\ pending = <<>>
      BY <2>1, <2>2, <2>6 DEF HistoryInv, WalkInv, WalkPhases
    <3>2. WalkInv' /\ Type
      BY <1>1, <3>1 DEF WalkInv, WalkPhases, HistoryTypeOK
    <3>3. FoundInv'
      BY <1>2, <1>3, <2>1, <2>2, <2>3, <2>4, <2>6, <3>1 DEF FoundInv, Done
    <3> QED BY <1>6, <1>7, <3>1, <3>2, <3>3 DEF HistoryInv
  <2>7. CASE b # head
    <3>1. /\ excluded' = {} /\ phase' = "exclude"
          /\ pending' \in Seq(Commits) /\ seen' = {}
      BY <1>5, <2>2, <2>5, <2>7
    <3>2. WalkInv'
      <4>1. Start' = b /\ Without' = {} /\ phase' \in WalkPhases
        BY <2>3, <3>1 DEF Start, Without, WalkPhases
      <4> QED BY <1>8, <2>2, <2>5, <2>7, <3>1, <4>1
    <3>3. FoundInv'
      BY <2>1, <2>2, <2>4, <3>1 DEF FoundInv, Done
    <3> QED BY <1>6, <1>7, <3>1, <3>2, <3>3 DEF HistoryInv
  <2> QED BY <2>6, <2>7
<1>14. CASE Excluded
  <2>1. /\ phase = "exclude" /\ pending = <<>> /\ Begin("commits", head, seen)
        /\ bases' = bases /\ commits' = commits /\ commits = {}
        /\ moved' = {} /\ conflicts' = {}
    BY <1>14 DEF Excluded, Walking, answer, HistoryInv, FoundInv, Done
  <2>2. seen = History[MergeBase]
    BY <2>1, WalkSeen DEF WalkPhases, Start
  <2>3. /\ excluded' = seen /\ phase' = "commits"
        /\ pending' \in Seq(Commits) /\ seen' = {}
    BY <1>1, <1>5, <2>1
  <2>4. WalkInv'
    <3>1. Start' = head /\ Without' = History[MergeBase] /\ phase' \in WalkPhases
      BY <1>2, <1>3, <1>10, <2>1, <2>3 DEF Start, Without, WalkPhases
    <3> QED BY <1>1, <1>8, <2>1, <2>2, <2>3, <3>1
  <2>5. FoundInv'
    BY <1>10, <2>1, <2>3 DEF FoundInv, Done
  <2> QED BY <1>6, <1>7, <2>3, <2>4, <2>5 DEF HistoryInv
<1>15. CASE CommitsWalked
  <2>1. /\ phase = "commits" /\ pending = <<>> /\ pending' = pending /\ seen' = seen
        /\ bases' = bases /\ commits' = seen /\ phase' = "changes"
        /\ moved' = {} /\ conflicts' = {}
    BY <1>15 DEF CommitsWalked, Walking, HistoryInv, FoundInv, Done
  <2>2. seen = History[head] \ History[MergeBase]
    BY <2>1, WalkSeen DEF WalkPhases, Start
  <2>3. WalkInv' /\ Type
    BY <1>1, <2>1 DEF WalkInv, WalkPhases, HistoryTypeOK
  <2>4. FoundInv'
    BY <1>2, <1>3, <1>10, <2>1, <2>2 DEF FoundInv, Done
  <2> QED BY <1>6, <1>7, <2>1, <2>3, <2>4 DEF HistoryInv
<1>16. CASE Changes
  <2>1. /\ phase = "changes" /\ bases' = bases /\ commits' = commits /\ pending = <<>>
        /\ commits = History[head] \ History[MergeBase]
        /\ moved' = {} /\ conflicts' = {}
    BY <1>16 DEF Changes, HistoryInv, FoundInv, WalkInv, WalkPhases, Done
  <2>2. CASE MergeBase = base
    <3>1. /\ phase' = "done" /\ state' = "fast_forward" /\ pending' = pending /\ seen' = seen
          /\ touched'["base"] = {}
      BY <1>16, <2>2 DEF Changes
    <3>2. WalkInv' /\ Type
      BY <1>1, <2>1, <3>1 DEF WalkInv, WalkPhases, HistoryTypeOK
    <3>3. FoundInv'
      BY <1>2, <1>3, <1>10, <2>1, <2>2, <3>1 DEF FoundInv, Done
    <3> QED BY <1>6, <1>7, <3>1, <3>2, <3>3 DEF HistoryInv
  <2>3. CASE MergeBase # base
    <3>1. Begin("baseExclude", MergeBase, {})
      BY <1>16, <2>3 DEF Changes
    <3>2. /\ excluded' = {} /\ phase' = "baseExclude"
          /\ pending' \in Seq(Commits) /\ seen' = {}
      BY <1>5, <1>10, <2>1, <3>1
    <3>3. WalkInv'
      <4>1. Start' = MergeBase /\ Without' = {} /\ phase' \in WalkPhases
        BY <1>10, <2>1, <3>2 DEF Start, Without, WalkPhases
      <4> QED BY <1>8, <1>10, <2>1, <3>1, <3>2, <4>1
    <3>4. FoundInv'
      BY <1>2, <1>3, <1>10, <2>1, <2>3, <3>2 DEF FoundInv, Done
    <3> QED BY <1>6, <1>7, <3>2, <3>3, <3>4 DEF HistoryInv
  <2> QED BY <2>2, <2>3
<1>17. CASE BaseExcluded
  <2>1. /\ phase = "baseExclude" /\ pending = <<>> /\ Begin("moved", base, seen)
        /\ bases' = bases /\ commits' = commits
        /\ commits = History[head] \ History[MergeBase] /\ MergeBase # base
        /\ moved' = {} /\ conflicts' = {}
    BY <1>17 DEF BaseExcluded, Walking, answer, HistoryInv, FoundInv, Done
  <2>2. seen = History[MergeBase]
    BY <2>1, WalkSeen DEF WalkPhases, Start
  <2>3. /\ excluded' = seen /\ phase' = "moved"
        /\ pending' \in Seq(Commits) /\ seen' = {}
    BY <1>1, <1>5, <2>1
  <2>4. WalkInv'
    <3>1. Start' = base /\ Without' = History[MergeBase] /\ phase' \in WalkPhases
      BY <1>2, <1>3, <1>10, <2>1, <2>3 DEF Start, Without, WalkPhases
    <3> QED BY <1>1, <1>8, <2>1, <2>2, <2>3, <3>1
  <2>5. FoundInv'
    BY <1>2, <1>3, <1>10, <2>1, <2>3 DEF FoundInv, Done
  <2> QED BY <1>6, <1>7, <2>3, <2>4, <2>5 DEF HistoryInv
<1>18. CASE MergeStateFor
  <2>1. /\ phase = "moved" /\ pending = <<>> /\ pending' = pending /\ seen' = seen
        /\ bases' = bases /\ commits' = commits /\ moved' = seen /\ phase' = "done"
        /\ commits = History[head] \ History[MergeBase] /\ MergeBase # base
        /\ conflicts' = touched'["head"] \cap touched'["base"]
        /\ seen # {} => state' = IF conflicts' # {} THEN "conflicting" ELSE "diverged"
    BY <1>18 DEF MergeStateFor, Walking, HistoryInv, FoundInv
  <2>2. seen = History[base] \ History[MergeBase]
    BY <2>1, WalkSeen DEF WalkPhases, Start
  <2>3. seen # {}
    <3>1. base \in History[base] /\ History[base] \subseteq 1..base
      BY <1>1, HistoryFacts
    <3>2. MergeBase \in 1..base /\ History[MergeBase] \subseteq 1..MergeBase
      BY <1>1, <1>10, <2>1, <3>1, HistoryFacts DEF Common
    <3>3. base \notin History[MergeBase]
      BY <1>1, <2>1, <3>2, HistoryAssumption DEF Commits
    <3> QED BY <2>2, <3>1, <3>3
  <2>4. WalkInv' /\ Type
    BY <1>1, <2>1 DEF WalkInv, WalkPhases, HistoryTypeOK
  <2>5. FoundInv'
    BY <1>2, <1>3, <1>10, <2>1, <2>2, <2>3 DEF FoundInv, Done
  <2> QED BY <1>6, <1>7, <2>1, <2>4, <2>5 DEF HistoryInv
<1> QED BY <1>11, <1>12, <1>13, <1>14, <1>15, <1>16, <1>17, <1>18 DEF Next

-----------------------------------------------------------------------------

\* The invariant holds before the first walk.
LEMMA InitHistory == Init => HistoryInv
<1> SUFFICES ASSUME Init PROVE HistoryInv
  OBVIOUS
<1>1. HistoryTypeOK
  BY EmptySeq DEF Init, HistoryTypeOK, Graphed
<1>2. ToSet(<<head>>) = {head}
  BY DEF ToSet
<1>3. head \in History[head]
  BY <1>1, HistoryFacts DEF HistoryTypeOK
<1>4. WalkOf(Start) /\ excluded = Without /\ phase \in WalkPhases
  BY <1>2, <1>3 DEF Init, WalkOf, Start, Without, WalkPhases
<1>5. FoundInv /\ RefusedOnlyIfLong
  BY DEF Init, FoundInv, Done, RefusedOnlyIfLong
<1> QED BY <1>1, <1>4, <1>5 DEF HistoryInv, WalkInv

\* Every step keeps the invariant.
LEMMA HistoryStep == HistoryInv /\ [Next]_vars => HistoryInv'
<1> SUFFICES ASSUME HistoryInv, [Next]_vars PROVE HistoryInv'
  OBVIOUS
<1>1. CASE Visit
  BY <1>1, VisitKeeps
<1>2. CASE Next /\ ~Visit
  BY <1>2, OthersKeep
<1>3. CASE UNCHANGED vars
  <2>1. /\ parents' = parents /\ head' = head /\ base' = base /\ phase' = phase
        /\ pending' = pending /\ seen' = seen /\ excluded' = excluded /\ history' = history
        /\ bases' = bases /\ commits' = commits /\ moved' = moved /\ state' = state
        /\ touched' = touched /\ conflicts' = conflicts
    BY <1>3 DEF vars, pull, walk, answer
  <2>2. History' = History /\ MergeBase' = MergeBase
    BY <2>1, Zenon DEF History, MergeBase
  <2>3. Start' = Start /\ Without' = Without /\ Common' = Common
    BY <2>1, <2>2 DEF Start, Without, Common
  <2>4. HistoryTypeOK' /\ WalkInv'
    BY <2>1, <2>2, <2>3 DEF HistoryInv, HistoryTypeOK, Graphed, WalkInv, WalkOf
  <2>5. FoundInv' /\ RefusedOnlyIfLong'
    BY <2>1, <2>2, <2>3 DEF HistoryInv, FoundInv, Best, Done, RefusedOnlyIfLong
  <2> QED BY <2>4, <2>5 DEF HistoryInv
<1> QED BY <1>1, <1>2, <1>3

\* The invariant of the walks (HistoryInv): what was visited is closed but for what is
\* still on the stack, within the history of the commit where the walk began.
THEOREM HistoryInvariant == Spec => []HistoryInv
BY InitHistory, HistoryStep, PTL DEF Spec

-----------------------------------------------------------------------------
\* What the invariant says when the answer is there.
LEMMA DoneFacts ==
  ASSUME HistoryInv, Done
  PROVE  /\ head \in Commits /\ base \in Commits /\ HistoryTypeOK
         /\ MergeBase \in Commits /\ MergeBase \in Common /\ History[MergeBase] \subseteq Common
         /\ \A c \in Common : MergeBase \notin parents[c]
<1>1. PICK b \in Best(Common) : bases = {b}
  BY DEF HistoryInv, FoundInv, Done
<1>2. HistoryTypeOK
  BY DEF HistoryInv
<1> QED BY <1>1, <1>2, BestIs DEF HistoryTypeOK

\* Two histories share what they share of each other's: a shared commit brings
\* all of its own.
LEMMA CommonIsClosed ==
  ASSUME HistoryTypeOK, NEW c \in Common
  PROVE  c \in Commits /\ History[c] \subseteq Common
BY HistoryFacts DEF Common, HistoryTypeOK

\* For any number of commits, any graph and any limit: the merge base that DiffPull
\* works with is a best common ancestor (MergeBaseIsBest).
THEOREM MergeBaseCorrect == Spec => []MergeBaseIsBest
<1>1. HistoryInv => MergeBaseIsBest
  <2> SUFFICES ASSUME HistoryInv PROVE MergeBaseIsBest
    OBVIOUS
  <2>1. ASSUME Done
        PROVE  /\ MergeBase \in Common
               /\ \A c \in Common \ {MergeBase} : MergeBase \notin History[c]
    <3>1. ASSUME NEW c \in Common, c # MergeBase, MergeBase \in History[c] PROVE FALSE
      <4>1. c \in Commits /\ History[c] \subseteq Common
        BY CommonIsClosed, <2>1, DoneFacts
      <4>2. PICK y \in History[c] : MergeBase \in parents[y]
        BY <2>1, <3>1, <4>1, DoneFacts, HistoryFacts
      <4> QED BY <2>1, <4>1, <4>2, DoneFacts
    <3> QED BY <2>1, <3>1, DoneFacts
  <2>2. phase = "unrelated" => Common = {}
    BY DEF HistoryInv, FoundInv
  <2> QED BY <2>1, <2>2 DEF MergeBaseIsBest, Common
<1> QED BY <1>1, HistoryInvariant, PTL

\* For any graph and limit: the commits listed are those of the head's history that
\* are not in the merge base's, and with one merge base those that the base has not
\* (CommitsAreThePullRequests).
THEOREM CommitsCorrect == Spec => []CommitsAreThePullRequests
<1>1. HistoryInv => CommitsAreThePullRequests
  <2> SUFFICES ASSUME HistoryInv, Done PROVE CommitsAreThePullRequests
    BY DEF CommitsAreThePullRequests
  <2> DEFINE own == History[head] \ History[base]
  <2>1. commits = History[head] \ History[MergeBase]
    BY DEF HistoryInv, FoundInv, Done
  <2>2. own \subseteq commits
    BY <2>1, DoneFacts DEF Common
  <2>3. ASSUME Best(Common) = {MergeBase}, NEW c \in commits PROVE c \in own
    <3> SUFFICES ASSUME c \in Common PROVE FALSE
      BY <2>1, <2>3 DEF Common
    <3>1. Common \subseteq Commits /\ Graphed(parents)
      BY DoneFacts, CommonIsClosed DEF HistoryTypeOK
    <3>2. PICK b \in Common : c \in History[b] /\ \A d \in Common : b \notin parents[d]
      BY <3>1, BestAbove, HistoryIsFcn
    <3>3. b \in Best(Common)
      BY <3>2 DEF Best
    <3> QED BY <2>1, <2>3, <3>2, <3>3
  <2> QED BY <2>1, <2>2, <2>3 DEF CommitsAreThePullRequests, Common
<1> QED BY <1>1, HistoryInvariant, PTL

\* For any graph and limit, and whatever paths the sides touch: the state, the
\* conflicting paths and the commits counted are those of the two histories
\* (MergeStateIsRight).
THEOREM MergeStateCorrect == Spec => []MergeStateIsRight
<1>1. HistoryInv => MergeStateIsRight
  <2> SUFFICES ASSUME HistoryInv, Done PROVE MergeStateIsRight
    BY DEF MergeStateIsRight
  <2>1. base \in History[base] /\ \A x \in History[head] : History[x] \subseteq History[head]
    BY DoneFacts, HistoryFacts
  <2>2. conflicts = touched["head"] \cap touched["base"]
    BY DEF HistoryInv, FoundInv
  <2>3. CASE MergeBase = base
    <3>1. state = "fast_forward" /\ moved = {} /\ conflicts = {} /\ base \in History[head]
      BY <2>3, DoneFacts DEF HistoryInv, FoundInv, Common
    <3> QED BY <2>1, <2>2, <2>3, <3>1 DEF MergeStateIsRight
  <2>4. CASE MergeBase # base
    <3>1. /\ moved = History[base] \ History[MergeBase]
          /\ state = IF conflicts # {} THEN "conflicting" ELSE "diverged"
      BY <2>4 DEF HistoryInv, FoundInv
    <3>2. base \notin History[head]
      <4> SUFFICES ASSUME base \in History[head] PROVE FALSE
        OBVIOUS
      <4>1. PICK y \in History[base] : MergeBase \in parents[y]
        BY <2>4, DoneFacts, HistoryFacts DEF Common
      <4>2. y \in Common
        BY <2>1, <4>1 DEF Common
      <4> QED BY <4>1, <4>2, DoneFacts
    <3>3. History[base] \ History[head] \subseteq moved
      BY <3>1, DoneFacts DEF Common
    <3> QED BY <2>2, <3>1, <3>2, <3>3 DEF MergeStateIsRight
  <2> QED BY <2>3, <2>4
<1> QED BY <1>1, HistoryInvariant, PTL

\* For any graph and limit: a pull request is refused for its history only if that
\* is longer than the limit (RefusedOnlyIfLong).
THEOREM RefusalJustified == Spec => []RefusedOnlyIfLong
<1>1. HistoryInv => RefusedOnlyIfLong
  BY DEF HistoryInv
<1> QED BY <1>1, HistoryInvariant, PTL

-----------------------------------------------------------------------------
\* From an archive to a result of search_code: the inductive invariant.

\* The entry of a path in the archive, and the file it becomes.
EntryOf(p) == [path |-> <<Wrapper>> \o p, class |-> tree[p].class]
FileOf(p) == [path |-> p, class |-> tree[p].class]

Files == {FileOf(p) : p \in Regular}
Links == DOMAIN tree \ Regular
AllEntries == Entries(tree)

\* The blocks of the entries but for those that are still to come.
BytesBut(rest) == SumFunction([e \in AllEntries |-> IF e \in rest THEN 0 ELSE EntryBytes(e)])

\* What was read of the archive is on disk or was skipped, and is counted.
ExtractInv ==
  stage = "extract" =>
    /\ archive \subseteq AllEntries
    /\ disk = {e \in AllEntries \ archive : IsMaterializable(e.class)}
    /\ skipped = Cardinality({e \in AllEntries \ archive : ~IsMaterializable(e.class)})
    /\ entries = Cardinality(AllEntries \ archive) /\ entries <= EntryLimit
    /\ size = BytesBut(archive)

\* From then on the disk has the regular files, every link was skipped, and the
\* archive was within the limits.
ShareInv ==
  stage \in {"search", "reply", "timeout", "done"} =>
    /\ {e \in disk : e.class # "directory"} = Files
    /\ skipped = 1 + Cardinality(Links)
    /\ StreamBytes(tree) <= SizeLimit /\ Cardinality(AllEntries) <= EntryLimit

\* The matches there are, and those of the files that the walk has come to.
AllHits == UNION {Hits(p) : p \in {q \in Regular : tree[q].class = "text"}}
Walked == {p \in Regular : FileOf(p) \notin unread}
Of(ps, class) == {p \in ps : tree[p].class = class}

\* Stats counts, and has its two flags.
StatsOK ==
  stats \in [binary : Nat, oversized : Nat, stopped : BOOLEAN, timedOut : BOOLEAN]

\* The binary and the large files among some paths are counted.
Counted(ps) ==
  /\ stats.binary = Cardinality(Of(ps, "binary"))
  /\ stats.oversized = Cardinality(Of(ps, "large"))

\* During the walk, until the deadline, what was found is what the files hold that
\* were read, up to the limit in each; the limit was reached or nothing is missing.
ReadingInv ==
  stage = "search" =>
    /\ unread \subseteq Files
    /\ found \subseteq AllHits
    /\ ~stats.timedOut => /\ found = UNION {SearchContent(p) : p \in Of(Walked, "text")}
                          /\ Counted(Walked)
    /\ stats.stopped <=> Cardinality(found) >= MaxResults
    /\ stats.timedOut => unread = {}

\* What is found when the walk has ended.
MatchesInv ==
  stage \in {"reply", "timeout", "done"} =>
    /\ found \subseteq AllHits /\ Cardinality(found) <= MaxResults
    /\ ~stats.timedOut /\ ~stats.stopped => found = AllHits /\ Counted(Regular)
    /\ stats.stopped => Cardinality(found) = MaxResults
    /\ IF stage = "timeout" THEN stats.timedOut /\ reply = {}
       ELSE stats.timedOut => found # {}

\* What is returned was found, and is flagged if it is not all there is.
ReplyInv ==
  stage = "done" =>
    /\ reply \subseteq found
    /\ reply = found \/ (Cardinality(reply) = MaxReply /\ reply # found)
    /\ truncated = (stats.timedOut \/ stats.stopped \/ reply # found)

\* Nothing of a later stage is there in an earlier one, and a refusal is justified.
SearchInv ==
  /\ tree \in Trees
  /\ StatsOK /\ (stage # "done" => reply = {})
  /\ ExtractInv /\ ShareInv /\ ReadingInv /\ MatchesInv /\ ReplyInv
  /\ stage = "extract" => /\ found = {} /\ unread = {}
                          /\ stats = [binary |-> 0, oversized |-> 0, stopped |-> FALSE, timedOut |-> FALSE]
  /\ stage \in {"tooLarge", "tooMany"} => SnapshotIsTree

-----------------------------------------------------------------------------
\* Trees and archives.

\* What a path is below the wrapper.
LEMMA Wrapped ==
  ASSUME NEW p \in TreePaths
  PROVE  /\ p \in Seq(FileNames) /\ Len(p) \in Nat \ {0}
         /\ <<Wrapper>> \o p \in Seq(FileNames \cup {Wrapper})
         /\ Len(<<Wrapper>> \o p) = Len(p) + 1
         /\ (<<Wrapper>> \o p)[1] = Wrapper
         /\ SubSeq(<<Wrapper>> \o p, 1, 1) = <<Wrapper>>
         /\ Tail(<<Wrapper>> \o p) = p
<1> DEFINE S == FileNames \cup {Wrapper}
<1>1. p \in Seq(FileNames) /\ Len(p) \in Nat \ {0}
  <2>1. ASSUME NEW n \in FileNames PROVE <<n>> \in Seq(FileNames) /\ Len(<<n>>) \in Nat \ {0}
    OBVIOUS
  <2>2. ASSUME NEW n \in FileNames, NEW m \in FileNames
        PROVE  <<n, m>> \in Seq(FileNames) /\ Len(<<n, m>>) \in Nat \ {0}
    OBVIOUS
  <2>3. (\E n \in FileNames : p = <<n>>) \/ (\E n, m \in FileNames : p = <<n, m>>)
    BY DEF TreePaths
  <2> QED BY <2>1, <2>2, <2>3
<1>2. <<Wrapper>> \in Seq(S) /\ Len(<<Wrapper>>) = 1 /\ <<Wrapper>>[1] = Wrapper
  OBVIOUS
<1>3. p \in Seq(S)
  BY <1>1
<1> DEFINE w == <<Wrapper>> \o p
<1>4. /\ w \in Seq(S) /\ Len(w) = Len(p) + 1
      /\ \A i \in 1..(Len(p) + 1) : w[i] = IF i <= 1 THEN <<Wrapper>>[i] ELSE p[i - 1]
  BY <1>2, <1>3, ConcatProperties
<1> HIDE DEF w, S
<1>5. w[1] = Wrapper
  BY <1>1, <1>2, <1>4
<1>6. SubSeq(w, 1, 1) = <<Wrapper>>
  <2>1. 1 \in 1..Len(w) /\ 1 \in 1..(Len(w) + 1) /\ 1 \in 0..Len(w)
    BY <1>1, <1>4
  <2>2. /\ SubSeq(w, 1, 1) \in Seq(S) /\ Len(SubSeq(w, 1, 1)) = 1
        /\ SubSeq(w, 1, 1)[1] = w[1]
    BY <1>4, <2>1, SubSeqProperties
  <2> DEFINE z == SubSeq(w, 1, 1)
  <2> DEFINE o == <<Wrapper>>
  <2>3. z \in Seq(S) /\ o \in Seq(S) /\ Len(z) = Len(o) /\ Len(z) = 1 /\ z[1] = o[1]
    BY <1>2, <1>5, <2>2
  <2> HIDE DEF z, o
  <2>4. \A i \in 1..Len(z) : z[i] = o[i]
    BY <2>3
  <2>5. z = o
    BY <2>3, <2>4, SeqEqual
  <2> QED BY <2>5 DEF z, o
<1>7. Tail(w) = p
  <2>1. w # <<>>
    BY <1>1, <1>4
  <2>2. /\ Tail(w) \in Seq(S) /\ Len(Tail(w)) = Len(w) - 1
        /\ \A i \in 1..Len(Tail(w)) : Tail(w)[i] = w[i + 1]
    BY <1>4, <2>1, HeadTailProperties
  <2>3. Len(Tail(w)) = Len(p)
    BY <1>1, <1>4, <2>2
  <2>4. \A i \in 1..Len(p) : Tail(w)[i] = p[i]
    BY <1>1, <1>4, <2>2, <2>3
  <2> QED BY <1>3, <2>2, <2>3, <2>4, SeqEqual
<1> QED BY <1>1, <1>4, <1>5, <1>6, <1>7 DEF w, S

\* A tree has finitely many paths, and a class and a number of matches for each.
LEMMA TreeHas ==
  ASSUME NEW t \in Trees
  PROVE  /\ DOMAIN t \subseteq TreePaths
         /\ IsFiniteSet(DOMAIN t)
         /\ \A p \in DOMAIN t :
              /\ t[p].class \in {"text", "binary", "large", "excluded", "link"}
              /\ t[p].hits \in Nat
<1>1. PICK ps \in {q \in UNION {kSubset(k, TreePaths) : k \in 0..MaxFiles} :
                     \A p \in q : Len(p) = 2 => <<p[1]>> \notin q} : t \in [ps -> Kinds]
  BY Zenon DEF Trees
<1>2. ps \subseteq TreePaths
  BY DEF kSubset
<1>3. IsFiniteSet(TreePaths)
  <2> DEFINE Two == FileNames \X FileNames
  <2> DEFINE T1 == {<<n>> : n \in FileNames}
  <2> DEFINE T2 == {<<n, m>> : n, m \in FileNames}
  <2>1. IsFiniteSet(FileNames)
    BY SearchAssumption
  <2>2. IsFiniteSet(T1)
    <3> DEFINE f == [n \in FileNames |-> <<n>>]
    <3>1. f \in Surjection(FileNames, T1)
      BY DEF Surjection
    <3> HIDE DEF f, T1
    <3> QED BY <2>1, <3>1, FS_Surjection, Zenon
  <2>3. IsFiniteSet(T2)
    <3>1. T2 = Two
      OBVIOUS
    <3> QED BY <2>1, <3>1, FS_Product
  <2>4. TreePaths = T1 \cup T2
    BY DEF TreePaths
  <2> HIDE DEF T1, T2
  <2> QED BY <2>2, <2>3, <2>4, FS_Union
<1>4. DOMAIN t = ps /\ \A p \in ps : t[p] \in Kinds
  BY <1>1
<1>5. \A k \in Kinds : k.class \in {"text", "binary", "large", "excluded", "link"} /\ k.hits \in Nat
  BY SearchAssumption DEF Kinds
<1> QED BY <1>2, <1>3, <1>4, <1>5, FS_Subset

\* What is in the archive: the header, the wrapper, directories, and every path.
LEMMA ArchiveHas ==
  ASSUME tree \in Trees
  PROVE  /\ IsFiniteSet(AllEntries)
         /\ \A p \in DOMAIN tree : EntryOf(p) \in AllEntries
         /\ \A p, q \in DOMAIN tree : EntryOf(p) = EntryOf(q) => p = q
         /\ \A e \in AllEntries : \/ e = Header
                                  \/ e = Directory(<<Wrapper>>)
                                  \/ \E n \in FileNames : e = Directory(<<Wrapper, n>>)
                                  \/ \E p \in DOMAIN tree : e = EntryOf(p)
         /\ Header \in AllEntries /\ Directory(<<Wrapper>>) \in AllEntries
         /\ \A p \in DOMAIN tree : EntryOf(p) # Header
<1>1. /\ DOMAIN tree \subseteq TreePaths /\ IsFiniteSet(DOMAIN tree)
      /\ \A p \in DOMAIN tree : tree[p].class \in {"text", "binary", "large", "excluded", "link"}
  BY TreeHas
<1> DEFINE Dirs == {Directory(<<Wrapper, p[1]>>) : p \in {q \in DOMAIN tree : Len(q) = 2}}
<1> DEFINE Fs == {[path |-> <<Wrapper>> \o p, class |-> tree[p].class] : p \in DOMAIN tree}
<1>2. AllEntries = {Header, Directory(<<Wrapper>>)} \cup Dirs \cup Fs
  BY DEF AllEntries, Entries
<1>3. IsFiniteSet(Dirs)
  <2> DEFINE D == {q \in DOMAIN tree : Len(q) = 2}
  <2> DEFINE f == [p \in D |-> Directory(<<Wrapper, p[1]>>)]
  <2>1. f \in Surjection(D, Dirs)
    BY DEF Surjection
  <2>2. IsFiniteSet(D)
    BY <1>1, FS_Subset
  <2> HIDE DEF f, D, Dirs
  <2> QED BY <2>1, <2>2, FS_Surjection, Zenon
<1>4. IsFiniteSet(Fs)
  <2> DEFINE f == [p \in DOMAIN tree |-> [path |-> <<Wrapper>> \o p, class |-> tree[p].class]]
  <2>1. f \in Surjection(DOMAIN tree, Fs)
    BY DEF Surjection
  <2> HIDE DEF f, Fs
  <2> QED BY <1>1, <2>1, FS_Surjection, Zenon
<1>5. \A p \in DOMAIN tree : EntryOf(p) \in Fs
  BY DEF EntryOf
<1>6. \A e \in Fs : \E p \in DOMAIN tree : e = EntryOf(p)
  BY DEF EntryOf
<1>7. \A e \in Dirs : \E n \in FileNames : e = Directory(<<Wrapper, n>>)
  <2> SUFFICES ASSUME NEW p \in DOMAIN tree, Len(p) = 2
               PROVE  \E n \in FileNames : Directory(<<Wrapper, p[1]>>) = Directory(<<Wrapper, n>>)
    OBVIOUS
  <2>1. p[1] \in FileNames
    <3>1. p \in Seq(FileNames)
      BY <1>1, Wrapped
    <3> QED BY <3>1
  <2> QED BY <2>1
<1>8. ASSUME NEW p \in DOMAIN tree, NEW q \in DOMAIN tree, EntryOf(p) = EntryOf(q) PROVE p = q
  <2>1. <<Wrapper>> \o p = <<Wrapper>> \o q
    BY <1>8 DEF EntryOf
  <2>2. Tail(<<Wrapper>> \o p) = p /\ Tail(<<Wrapper>> \o q) = q
    BY <1>1, Wrapped
  <2> QED BY <2>1, <2>2
<1>9. \A p \in DOMAIN tree : EntryOf(p) # Header
  BY <1>1 DEF EntryOf, Header
<1>10. IsFiniteSet({Header, Directory(<<Wrapper>>)})
  <2>1. \A x, y : IsFiniteSet({x, y})
    <3> SUFFICES ASSUME NEW x, NEW y PROVE IsFiniteSet({x, y})
      OBVIOUS
    <3>1. {x, y} = {x} \cup {y}
      OBVIOUS
    <3>2. IsFiniteSet({x}) /\ IsFiniteSet({y})
      BY FS_Singleton, Zenon
    <3>3. IsFiniteSet({x} \cup {y})
      BY <3>2, FS_Union, Zenon
    <3> QED BY <3>1, <3>3, Zenon
  <2> QED BY <2>1
<1>11. IsFiniteSet(AllEntries)
  <2> HIDE DEF Dirs, Fs
  <2> QED BY <1>2, <1>3, <1>4, <1>10, FS_Union
<1> HIDE DEF Dirs, Fs
<1>12. /\ \A p \in DOMAIN tree : EntryOf(p) \in AllEntries
       /\ Header \in AllEntries /\ Directory(<<Wrapper>>) \in AllEntries
  BY <1>2, <1>5
<1>13. \A e \in AllEntries : \/ e = Header
                             \/ e = Directory(<<Wrapper>>)
                             \/ \E n \in FileNames : e = Directory(<<Wrapper, n>>)
                             \/ \E p \in DOMAIN tree : e = EntryOf(p)
  <2> HIDE DEF EntryOf
  <2> QED BY <1>2, <1>6, <1>7
<1> QED BY <1>8, <1>9, <1>11, <1>12, <1>13

\* Every entry is materialized but the header and the links.
LEMMA Materialized ==
  ASSUME tree \in Trees
  PROVE  {e \in AllEntries : ~IsMaterializable(e.class)} = {Header} \cup {EntryOf(p) : p \in Links}
<1>1. Header.class = "header"
  BY DEF Header
<1>2. \A n : Directory(n).class = "directory"
  BY DEF Directory
<1>3. \A p \in DOMAIN tree : EntryOf(p).class = tree[p].class
  BY DEF EntryOf
<1>4. \A p \in DOMAIN tree : tree[p].class # "header"
  BY TreeHas
<1>5. \A p \in DOMAIN tree : p \in Links <=> tree[p].class = "link"
  BY DEF Links, Regular
<1>6. ASSUME NEW e \in AllEntries, ~IsMaterializable(e.class)
      PROVE  e \in {Header} \cup {EntryOf(p) : p \in Links}
  <2>1. e.class \in {"link", "header"}
    BY <1>6 DEF IsMaterializable
  <2>2. CASE \E p \in DOMAIN tree : e = EntryOf(p)
    <3>1. PICK p \in DOMAIN tree : e = EntryOf(p)
      BY <2>2
    <3> HIDE DEF EntryOf
    <3> QED BY <1>3, <1>4, <1>5, <2>1, <3>1
  <2> QED BY <1>1, <1>2, <2>1, <2>2, ArchiveHas
<1>7. Header \in AllEntries /\ ~IsMaterializable(Header.class)
  BY <1>1, ArchiveHas DEF IsMaterializable
<1>8. ASSUME NEW p \in Links PROVE EntryOf(p) \in AllEntries /\ ~IsMaterializable(EntryOf(p).class)
  BY <1>3, <1>5, ArchiveHas DEF IsMaterializable, Links
<1> HIDE DEF EntryOf, Links, AllEntries, IsMaterializable
<1> QED BY <1>6, <1>7, <1>8

\* The entries of the links are as many as the links.
LEMMA SkippedCount ==
  ASSUME tree \in Trees
  PROVE  Cardinality({e \in AllEntries : ~IsMaterializable(e.class)}) = 1 + Cardinality(Links)
<1> DEFINE E == {EntryOf(p) : p \in Links}
<1> DEFINE f == [p \in Links |-> EntryOf(p)]
<1>1. IsFiniteSet(Links)
  BY TreeHas, FS_Subset DEF Links
<1>2. f \in Surjection(Links, E)
  BY DEF Surjection
<1>3. f \in Injection(Links, E)
  <2>1. \A p, q \in Links : EntryOf(p) = EntryOf(q) => p = q
    BY ArchiveHas DEF Links
  <2>2. \A a \in Links : f[a] = EntryOf(a)
    BY Zenon
  <2>3. f \in [Links -> E] /\ DOMAIN f = Links
    BY <1>2 DEF Surjection
  <2> HIDE DEF f, E, EntryOf
  <2>4. \A a, b \in Links : f[a] = f[b] => a = b
    BY <2>1, <2>2
  <2> QED BY <2>3, <2>4 DEF Injection, IsInjective
<1>4. Header \notin E
  BY ArchiveHas DEF Links
<1> HIDE DEF f, E
<1>5. IsFiniteSet(E) /\ Cardinality(E) = Cardinality(Links)
  BY <1>1, <1>2, <1>3, FS_Surjection
<1>6. Cardinality(E \cup {Header}) = Cardinality(E) + 1
  BY <1>4, <1>5, FS_AddElement
<1>7. {e \in AllEntries : ~IsMaterializable(e.class)} = E \cup {Header}
  BY Materialized DEF E
<1>8. Cardinality(Links) \in Nat
  BY <1>1, FS_CardinalityType
<1>9. Cardinality({e \in AllEntries : ~IsMaterializable(e.class)}) = Cardinality(E \cup {Header})
  BY <1>7, Zenon
<1> HIDE DEF Links
<1>10. Cardinality(E \cup {Header}) = 1 + Cardinality(Links)
  BY <1>5, <1>6, <1>8
<1> QED BY <1>9, <1>10, Zenon

-----------------------------------------------------------------------------
\* extractArchive.

\* What SumFunction adds up.
LEMMA FunctionSum ==
  ASSUME NEW f
  PROVE  SumFunction(f) = SumFcn(f, DOMAIN f)[DOMAIN f]
BY Zenon DEF SumFunction, SumFunctionOnSet, FoldFunctionOnSet, MapThenFoldSet, SumFcn, Chosen

\* A tree has finitely many regular files.
LEMMA RegularFinite ==
  ASSUME tree \in Trees
  PROVE  IsFiniteSet(Regular)
BY TreeHas, FS_Subset DEF Regular

\* An entry has its header and what it holds.
LEMMA EntryHasBytes ==
  ASSUME NEW e
  PROVE  HeaderBytes(e) \in Nat /\ EntryBytes(e) \in Nat /\ HeaderBytes(e) <= EntryBytes(e)
BY DEF HeaderBytes, EntryBytes

\* Reading an entry adds its blocks to what was read, which is no more than the
\* stream holds before its end.
LEMMA BytesGrow ==
  ASSUME tree \in Trees, NEW rest \in SUBSET AllEntries
  PROVE  /\ BytesBut(rest) \in Nat /\ StreamBytes(tree) = EndBytes + BytesBut({})
         /\ StreamBytes(tree) \in Nat
         /\ \A e \in rest : /\ BytesBut(rest \ {e}) = BytesBut(rest) + EntryBytes(e)
                            /\ BytesBut(rest) + EntryBytes(e) <= BytesBut({})
<1> DEFINE E == AllEntries
<1> DEFINE f(s) == [e \in E |-> IF e \in s THEN 0 ELSE EntryBytes(e)]
<1>1. IsFiniteSet(E)
  BY ArchiveHas
<1>2. \A s : f(s) \in [E -> Nat] /\ DOMAIN f(s) = E
  <2> HIDE DEF E
  <2> QED BY EntryHasBytes
<1>3. \A s : \A e \in E : f(s)[e] = IF e \in s THEN 0 ELSE EntryBytes(e)
  BY Zenon
<1>4. \A s : BytesBut(s) = SumFcn(f(s), E)[E]
  <2> SUFFICES ASSUME NEW s PROVE BytesBut(s) = SumFcn(f(s), E)[E]
    OBVIOUS
  <2>1. BytesBut(s) = SumFunction(f(s))
    BY Zenon DEF BytesBut
  <2>2. DOMAIN f(s) = E
    BY <1>2
  <2> HIDE DEF f, E
  <2>3. SumFunction(f(s)) = SumFcn(f(s), DOMAIN f(s))[DOMAIN f(s)]
    BY FunctionSum, Zenon
  <2> QED BY <2>1, <2>2, <2>3, Zenon
<1>5. StreamBytes(tree) = EndBytes + BytesBut({})
  <2>1. f({}) = [e \in Entries(tree) |-> EntryBytes(e)]
    BY DEF AllEntries
  <2>2. BytesBut({}) = SumFunction(f({}))
    BY Zenon DEF BytesBut
  <2> HIDE DEF f
  <2> QED BY <2>1, <2>2 DEF StreamBytes
<1> HIDE DEF f, E
<1>6. \A s : BytesBut(s) \in Nat
  <2> SUFFICES ASSUME NEW s PROVE BytesBut(s) \in Nat
    OBVIOUS
  <2>1. f(s) \in [E -> Nat]
    BY <1>2
  <2>2. \A S \in SUBSET E : SumFcn(f(s), E)[S] \in Nat
    BY <1>1, <2>1, SumType, Zenon
  <2> QED BY <1>4, <2>2
<1>7. \A s : BytesBut(s) <= BytesBut({})
  <2> SUFFICES ASSUME NEW s PROVE BytesBut(s) <= BytesBut({})
    OBVIOUS
  <2>1. f(s) \in [E -> Nat] /\ f({}) \in [E -> Nat]
    BY <1>2
  <2>2. \A e \in E : f(s)[e] <= f({})[e]
    BY <1>3, EntryHasBytes
  <2>3. SumFcn(f(s), E)[E] <= SumFcn(f({}), E)[E]
    BY <1>1, <2>1, <2>2, SumMonotone, Zenon
  <2> QED BY <1>4, <2>3
<1>8. ASSUME NEW e \in rest PROVE BytesBut(rest \ {e}) = BytesBut(rest) + EntryBytes(e)
  <2>1. e \in E
    BY DEF E
  <2> DEFINE less == rest \ {e}
  <2>2. /\ f(less)[e] = EntryBytes(e) /\ f(rest)[e] = 0
        /\ \A x \in E : x # e => f(less)[x] = f(rest)[x]
    BY <1>3, <2>1
  <2>3. f(less) \in [E -> Nat] /\ f(rest) \in [E -> Nat]
    BY <1>2
  <2> HIDE DEF less
  <2>4. SumFcn(f(less), E)[E] = SumFcn(f(rest), E)[E] + f(less)[e] - f(rest)[e]
    BY <1>1, <2>1, <2>2, <2>3, SumChange, Zenon
  <2>5. BytesBut(less) = BytesBut(rest) + EntryBytes(e) - 0
    BY <1>4, <2>2, <2>4
  <2>6. BytesBut(rest) \in Nat /\ EntryBytes(e) \in Nat
    BY <1>6, EntryHasBytes
  <2>7. BytesBut(less) = BytesBut(rest) + EntryBytes(e)
    BY <2>5, <2>6
  <2> QED BY <2>7 DEF less
<1>9. ASSUME NEW e \in rest PROVE BytesBut(rest) + EntryBytes(e) <= BytesBut({})
  <2>1. BytesBut(rest \ {e}) <= BytesBut({})
    BY <1>7
  <2> QED BY <1>8, <2>1
<1> QED BY <1>5, <1>6, <1>8, <1>9 DEF EndBytes

\* The next entry is written or skipped, or is one too many or too large.
LEMMA ExtractKeeps ==
  ASSUME SearchInv, Extract
  PROVE  SearchInv'
<1>1. PICK e \in archive :
        IF Refusal(e) # "none"
        THEN /\ stage' = Refusal(e)
             /\ UNCHANGED <<archive, entries, size, disk, skipped>>
        ELSE /\ archive' = archive \ {e}
             /\ entries' = entries + 1
             /\ size' = size + EntryBytes(e)
             /\ IF IsMaterializable(e.class)
                THEN disk' = disk \cup {e} /\ UNCHANGED skipped
                ELSE skipped' = skipped + 1 /\ UNCHANGED disk
             /\ UNCHANGED stage
  BY DEF Extract
<1>2. /\ stage = "extract" /\ tree' = tree /\ unread' = unread /\ found' = found
      /\ stats' = stats /\ reply' = reply /\ truncated' = truncated
  BY DEF Extract, search
<1> DEFINE Read == AllEntries \ archive
<1> DEFINE Skip(s) == {x \in s : ~IsMaterializable(x.class)}
<1>3. /\ tree \in Trees /\ archive \subseteq AllEntries
      /\ disk = {x \in Read : IsMaterializable(x.class)}
      /\ skipped = Cardinality(Skip(Read))
      /\ entries = Cardinality(Read)
      /\ size = BytesBut(archive)
  BY <1>2 DEF SearchInv, ExtractInv
<1>4. AllEntries' = AllEntries
  BY <1>2 DEF AllEntries
<1>5. IsFiniteSet(AllEntries) /\ IsFiniteSet(Read) /\ IsFiniteSet(Skip(Read))
      /\ IsFiniteSet(Read \cup {e})
  <2>1. IsFiniteSet(AllEntries)
    BY <1>3, ArchiveHas
  <2> QED BY <1>1, <1>3, <2>1, FS_Subset
<1>6. /\ Cardinality(Read \cup {e}) = Cardinality(Read) + 1
      /\ Cardinality(Skip(Read) \cup {e}) = Cardinality(Skip(Read)) + 1
      /\ Cardinality(Read \cup {e}) <= Cardinality(AllEntries)
      /\ Cardinality(Read \cup {e}) \in Nat /\ Cardinality(AllEntries) \in Nat
  <2>1. Read \cup {e} \in SUBSET AllEntries /\ e \notin Read /\ e \notin Skip(Read)
    BY <1>1, <1>3
  <2> HIDE DEF Read, Skip
  <2> QED BY <1>5, <2>1, FS_AddElement, FS_Subset, FS_CardinalityType
<1>7. /\ size \in Nat /\ StreamBytes(tree) = 2 + BytesBut({}) /\ StreamBytes(tree) \in Nat
      /\ BytesBut(archive \ {e}) = size + EntryBytes(e)
      /\ size + EntryBytes(e) <= BytesBut({}) /\ BytesBut({}) \in Nat
  <2>1. /\ BytesBut(archive) \in Nat /\ StreamBytes(tree) = EndBytes + BytesBut({})
        /\ StreamBytes(tree) \in Nat
        /\ \A x \in archive : /\ BytesBut(archive \ {x}) = BytesBut(archive) + EntryBytes(x)
                              /\ BytesBut(archive) + EntryBytes(x) <= BytesBut({})
    BY <1>3, BytesGrow, Zenon
  <2>2. BytesBut({}) \in Nat
    BY <1>3, BytesGrow
  <2> QED BY <1>1, <1>3, <2>1, <2>2 DEF EndBytes
<1>8. StatsOK' /\ reply' = {} /\ tree' \in Trees
  BY <1>2 DEF SearchInv, StatsOK
<1>9. found = {} /\ unread = {}
      /\ stats = [binary |-> 0, oversized |-> 0, stopped |-> FALSE, timedOut |-> FALSE]
  BY <1>2 DEF SearchInv
<1>10. CASE Refusal(e) = "none"
  <2>1. /\ archive' = archive \ {e} /\ entries' = entries + 1 /\ size' = size + EntryBytes(e)
        /\ stage' = "extract"
    BY <1>1, <1>2, <1>10
  <2>2. entries' = Cardinality(Read \cup {e}) /\ entries' <= EntryLimit
    <3>1. ~(entries + 1 > EntryLimit)
      BY <1>10 DEF Refusal
    <3> HIDE DEF Read
    <3> QED BY <1>3, <1>6, <2>1, <3>1, SearchAssumption
  <2>3. disk' = {x \in Read \cup {e} : IsMaterializable(x.class)}
    BY <1>1, <1>3, <1>10
  <2>4. skipped' = Cardinality(Skip(Read \cup {e}))
    <3>1. CASE IsMaterializable(e.class)
      <4>1. Skip(Read \cup {e}) = Skip(Read)
        BY <3>1
      <4>2. skipped' = skipped
        BY <1>1, <1>10, <3>1
      <4> QED BY <1>3, <4>1, <4>2
    <3>2. CASE ~IsMaterializable(e.class)
      <4>1. Skip(Read \cup {e}) = Skip(Read) \cup {e}
        BY <3>2
      <4>2. skipped' = skipped + 1
        BY <1>1, <1>10, <3>2
      <4> QED BY <1>3, <1>6, <4>1, <4>2
    <3> QED BY <3>1, <3>2
  <2>5. AllEntries' \ archive' = Read \cup {e} /\ archive' \subseteq AllEntries
    BY <1>1, <1>3, <1>4, <2>1
  <2>6. size' = BytesBut(archive)'
    <3>1. BytesBut(archive)' = BytesBut(archive \ {e})
      BY <1>4, <2>1 DEF BytesBut
    <3> QED BY <1>7, <2>1, <3>1
  <2>7. ExtractInv'
    <3> HIDE DEF Read
    <3> QED BY <1>4, <2>1, <2>2, <2>3, <2>4, <2>5, <2>6 DEF ExtractInv
  <2>8. ShareInv' /\ ReadingInv' /\ MatchesInv' /\ ReplyInv'
    BY <2>1 DEF ShareInv, ReadingInv, MatchesInv, ReplyInv
  <2> QED BY <1>2, <1>8, <1>9, <2>1, <2>7, <2>8 DEF SearchInv
<1>11. CASE Refusal(e) # "none"
  <2>1. stage' = Refusal(e) /\ stage' \in {"tooLarge", "tooMany"}
    BY <1>1, <1>11 DEF Refusal
  <2>2. stage' = "tooMany" => Cardinality(Entries(tree)) > EntryLimit
    <3>1. stage' = "tooMany" => entries + 1 > EntryLimit
      BY <2>1 DEF Refusal
    <3> HIDE DEF Read
    <3> QED BY <1>3, <1>6, <3>1, SearchAssumption DEF AllEntries
  <2>3. stage' = "tooLarge" => StreamBytes(tree) > SizeLimit
    <3>1. stage' = "tooLarge" => \/ size + HeaderBytes(e) > SizeLimit
                                 \/ size + EntryBytes(e) > SizeLimit
      BY <2>1 DEF Refusal
    <3>2. HeaderBytes(e) \in Nat /\ EntryBytes(e) \in Nat /\ HeaderBytes(e) <= EntryBytes(e)
      BY EntryHasBytes
    <3> QED BY <1>7, <3>1, <3>2, SearchAssumption
  <2>4. SnapshotIsTree'
    <3>1. Entries(tree)' = Entries(tree) /\ StreamBytes(tree)' = StreamBytes(tree)
      BY <1>2
    <3> QED BY <1>2, <2>1, <2>2, <2>3, <3>1 DEF SnapshotIsTree
  <2>5. ExtractInv' /\ ShareInv' /\ ReadingInv' /\ MatchesInv' /\ ReplyInv'
    BY <2>1 DEF ExtractInv, ShareInv, ReadingInv, MatchesInv, ReplyInv
  <2> QED BY <1>8, <2>1, <2>4, <2>5 DEF SearchInv
<1> QED BY <1>10, <1>11

\* An archive whose end lies beyond the limit is too large.
LEMMA EndRefusedKeeps ==
  ASSUME SearchInv, EndRefused
  PROVE  SearchInv'
<1>1. /\ stage' = "tooLarge" /\ tree' = tree /\ stats' = stats /\ reply' = reply
      /\ stage = "extract" /\ archive = {} /\ size + EndBytes > SizeLimit
  BY DEF EndRefused, extraction, search
<1>2. StatsOK' /\ reply' = {} /\ tree \in Trees /\ tree' \in Trees
  BY <1>1 DEF SearchInv, StatsOK
<1>3. size = BytesBut({})
  BY <1>1 DEF SearchInv, ExtractInv
<1>4. StreamBytes(tree) = EndBytes + BytesBut({}) /\ BytesBut({}) \in Nat
  BY <1>2, BytesGrow
<1>5. StreamBytes(tree) > SizeLimit
  BY <1>1, <1>3, <1>4 DEF EndBytes
<1>6. SnapshotIsTree'
  BY <1>1, <1>5 DEF SnapshotIsTree
<1> QED BY <1>1, <1>2, <1>6 DEF SearchInv, ExtractInv, ShareInv, ReadingInv, MatchesInv, ReplyInv

-----------------------------------------------------------------------------
\* flattenArchivePrefix.

\* What is written to the disk: the wrapper, directories, and the regular files.
LEMMA Written ==
  ASSUME tree \in Trees
  PROVE  /\ \A e \in AllEntries : IsMaterializable(e.class) =>
              \/ e = Directory(<<Wrapper>>)
              \/ \E n \in FileNames : e = Directory(<<Wrapper, n>>)
              \/ \E p \in Regular : e = EntryOf(p)
         /\ IsMaterializable(Directory(<<Wrapper>>).class)
         /\ \A p \in Regular : EntryOf(p) \in AllEntries /\ IsMaterializable(EntryOf(p).class)
<1>1. ~IsMaterializable(Header.class) /\ \A n : IsMaterializable(Directory(n).class)
  BY DEF IsMaterializable, Header, Directory
<1>2. \A p \in DOMAIN tree : EntryOf(p).class = tree[p].class
  BY DEF EntryOf
<1>3. \A p \in DOMAIN tree : p \in Regular <=> IsMaterializable(EntryOf(p).class)
  <2>1. \A p \in DOMAIN tree : tree[p].class # "header"
    BY TreeHas
  <2> HIDE DEF EntryOf
  <2> QED BY <1>2, <2>1 DEF Regular, IsMaterializable
<1>4. Regular \subseteq DOMAIN tree
  BY DEF Regular
<1> HIDE DEF EntryOf, Regular, IsMaterializable, Directory, Header, AllEntries
<1> QED BY <1>1, <1>3, <1>4, ArchiveHas

\* The wrapper is the only entry at the top of the disk, and what is below it are,
\* but for directories, the regular files.
LEMMA Unwrapped ==
  ASSUME tree \in Trees, NEW d, d = {e \in AllEntries : IsMaterializable(e.class)}
  PROVE  /\ Top(d) = {Wrapper}
         /\ \A e \in d : Len(e.path) = 1 => e.class = "directory"
         /\ LET nested == {[path |-> Tail(e.path), class |-> e.class] : e \in Below(d, <<Wrapper>>)}
            IN {e \in nested : e.class # "directory"} = Files
<1>1. \A e \in d : \/ e = Directory(<<Wrapper>>)
                   \/ \E n \in FileNames : e = Directory(<<Wrapper, n>>)
                   \/ \E p \in Regular : e = EntryOf(p)
  BY Written
<1>2. Directory(<<Wrapper>>) \in d /\ \A p \in Regular : EntryOf(p) \in d
  BY Written, ArchiveHas
<1>3. Regular \subseteq TreePaths
  BY TreeHas DEF Regular
<1>4. /\ Directory(<<Wrapper>>).class = "directory" /\ Directory(<<Wrapper>>).path = <<Wrapper>>
      /\ Len(<<Wrapper>>) = 1 /\ <<Wrapper>>[1] = Wrapper
  BY DEF Directory
<1>5. ASSUME NEW n \in FileNames
      PROVE  /\ Directory(<<Wrapper, n>>).class = "directory"
             /\ Directory(<<Wrapper, n>>).path[1] = Wrapper
  BY DEF Directory
<1>6. ASSUME NEW p \in Regular
      PROVE  /\ EntryOf(p).path = <<Wrapper>> \o p /\ EntryOf(p).class = tree[p].class
             /\ EntryOf(p).path[1] = Wrapper /\ Len(EntryOf(p).path) > 1
             /\ SubSeq(EntryOf(p).path, 1, 1) = <<Wrapper>>
             /\ [path |-> Tail(EntryOf(p).path), class |-> EntryOf(p).class] = FileOf(p)
             /\ FileOf(p).class # "directory"
  <2>1. /\ Len(p) \in Nat \ {0} /\ Len(<<Wrapper>> \o p) = Len(p) + 1
        /\ (<<Wrapper>> \o p)[1] = Wrapper
        /\ SubSeq(<<Wrapper>> \o p, 1, 1) = <<Wrapper>>
        /\ Tail(<<Wrapper>> \o p) = p
    BY <1>3, Wrapped
  <2>2. EntryOf(p).path = <<Wrapper>> \o p /\ EntryOf(p).class = tree[p].class
    BY DEF EntryOf
  <2>3. FileOf(p).class # "directory"
    BY TreeHas DEF FileOf, Regular
  <2>4. [path |-> Tail(EntryOf(p).path), class |-> EntryOf(p).class] = FileOf(p)
    <3> DEFINE w == <<Wrapper>> \o p
    <3>1. Tail(w) = p
      BY <2>1
    <3> HIDE DEF w
    <3> QED BY <2>2, <3>1 DEF FileOf, w
  <2> QED BY <2>1, <2>2, <2>3, <2>4
<1>7. Top(d) = {Wrapper}
  <2>1. \A e \in d : e.path[1] = Wrapper
    <3> HIDE DEF EntryOf, Directory
    <3> QED BY <1>1, <1>4, <1>5, <1>6
  <2> QED BY <1>2, <2>1 DEF Top
<1>8. \A e \in d : Len(e.path) = 1 => e.class = "directory"
  <2> SUFFICES ASSUME NEW e \in d, Len(e.path) = 1 PROVE e.class = "directory"
    OBVIOUS
  <2>1. CASE \E p \in Regular : e = EntryOf(p)
    BY <1>6, <2>1
  <2> QED BY <1>1, <1>4, <1>5, <2>1
<1> DEFINE below == Below(d, <<Wrapper>>)
<1> DEFINE nested == {[path |-> Tail(e.path), class |-> e.class] : e \in below}
<1>9. below \subseteq d /\ \A p \in Regular : EntryOf(p) \in below
  BY <1>2, <1>4, <1>6 DEF Below
<1>10. ASSUME NEW x \in nested, x.class # "directory" PROVE x \in Files
  <2>1. PICK e \in below : x = [path |-> Tail(e.path), class |-> e.class]
    OBVIOUS
  <2>2. CASE \E p \in Regular : e = EntryOf(p)
    BY <1>6, <2>1, <2>2 DEF Files
  <2>3. CASE e = Directory(<<Wrapper>>) \/ \E n \in FileNames : e = Directory(<<Wrapper, n>>)
    <3>1. \A q : [path |-> Tail(Directory(q).path), class |-> Directory(q).class].class = "directory"
      BY DEF Directory
    <3> QED BY <1>10, <2>1, <2>3, <3>1
  <2> HIDE DEF below
  <2> QED BY <1>1, <1>9, <2>2, <2>3
<1>11. ASSUME NEW p \in Regular PROVE FileOf(p) \in nested /\ FileOf(p).class # "directory"
  <2> HIDE DEF below, EntryOf, FileOf
  <2> QED BY <1>6, <1>9
<1>12. {e \in nested : e.class # "directory"} = Files
  <2> HIDE DEF nested
  <2> QED BY <1>10, <1>11 DEF Files
<1> QED BY <1>7, <1>8, <1>12

\* A failure leaves nothing to say.
LEMMA ExtractFailsKeeps ==
  ASSUME SearchInv, ExtractFails
  PROVE  SearchInv'
<1>1. /\ stage' = "failed" /\ tree' = tree /\ stats' = stats /\ reply' = reply /\ stage = "extract"
  BY DEF ExtractFails, extraction, search
<1>2. StatsOK' /\ reply' = {} /\ tree' \in Trees
  BY <1>1 DEF SearchInv, StatsOK
<1> QED BY <1>1, <1>2 DEF SearchInv, ExtractInv, ShareInv, ReadingInv, MatchesInv, ReplyInv

\* The top directory is taken away, and the walk begins; or the request fails.
LEMMA FlattenKeeps ==
  ASSUME SearchInv, Flatten
  PROVE  SearchInv'
<1>1. /\ stage = "extract" /\ archive = {} /\ tree' = tree /\ skipped' = skipped
      /\ found' = found /\ stats' = stats /\ reply' = reply
      /\ size + EndBytes <= SizeLimit
  BY DEF Flatten
<1>2. /\ tree \in Trees /\ found = {} /\ reply = {}
      /\ stats = [binary |-> 0, oversized |-> 0, stopped |-> FALSE, timedOut |-> FALSE]
      /\ disk = {e \in AllEntries : IsMaterializable(e.class)}
      /\ skipped = Cardinality({e \in AllEntries : ~IsMaterializable(e.class)})
      /\ Cardinality(AllEntries) <= EntryLimit /\ size = BytesBut({})
  <2>1. ExtractInv
    BY DEF SearchInv
  <2>2. AllEntries \ archive = AllEntries
    BY <1>1
  <2>3. /\ disk = {e \in AllEntries \ archive : IsMaterializable(e.class)}
        /\ skipped = Cardinality({e \in AllEntries \ archive : ~IsMaterializable(e.class)})
        /\ Cardinality(AllEntries \ archive) <= EntryLimit /\ size = BytesBut(archive)
    BY <1>1, <2>1 DEF ExtractInv
  <2> QED BY <1>1, <2>2, <2>3 DEF SearchInv
<1> DEFINE nested == {[path |-> Tail(e.path), class |-> e.class] : e \in Below(disk, <<Wrapper>>)}
<1>3. /\ Top(disk) = {Wrapper}
      /\ \A e \in disk : Len(e.path) = 1 => e.class = "directory"
      /\ {e \in nested : e.class # "directory"} = Files
  BY <1>2, Unwrapped
<1>4. Cardinality(Top(disk)) = 1 /\ (CHOOSE n \in Top(disk) : TRUE) = Wrapper
  <2>1. Cardinality({Wrapper}) = 1
    BY FS_Singleton
  <2> QED BY <1>3, <2>1
<1>5. \/ stage' = "clash"
      \/ stage' = "search" /\ disk' = nested /\ unread' = {e \in nested : e.class # "directory"}
  <2> HIDE DEF nested
  <2> QED BY <1>3, <1>4 DEF Flatten, nested
<1>6. StatsOK' /\ reply' = {} /\ tree' \in Trees
  BY <1>1, <1>2 DEF StatsOK
<1>7. CASE stage' = "clash"
  BY <1>6, <1>7 DEF SearchInv, ExtractInv, ShareInv, ReadingInv, MatchesInv, ReplyInv
<1>8. CASE stage' = "search" /\ disk' = nested /\ unread' = {e \in nested : e.class # "directory"}
  <2>1. /\ Files' = Files /\ Links' = Links /\ Regular' = Regular
        /\ \A p : FileOf(p)' = FileOf(p)
    BY <1>1 DEF Files, Links, Regular, FileOf
  <2>2. unread' = Files /\ {e \in disk' : e.class # "directory"} = Files
    BY <1>3, <1>8
  <2>3. skipped' = 1 + Cardinality(Links)
    BY <1>1, <1>2, SkippedCount, Zenon
  <2>4. ShareInv'
    <3>1. StreamBytes(tree) = EndBytes + BytesBut({}) /\ BytesBut({}) \in Nat
      BY <1>2, BytesGrow
    <3>2. StreamBytes(tree) <= SizeLimit
      BY <1>1, <1>2, <3>1 DEF EndBytes
    <3>3. AllEntries' = AllEntries /\ StreamBytes(tree)' = StreamBytes(tree)
      BY <1>1 DEF AllEntries
    <3> QED BY <1>2, <2>1, <2>2, <2>3, <3>2, <3>3 DEF ShareInv
  <2>5. Walked' = {}
    BY <2>1, <2>2 DEF Walked, Files
  <2>6. Cardinality({}) = 0
    BY FS_EmptySet
  <2>7. \A c : Of(Walked, c)' = {}
    BY <2>5 DEF Of
  <2>8. found' = UNION {SearchContent(p) : p \in Of(Walked, "text")}'
    BY <1>1, <1>2, <2>7
  <2>9. Counted(Walked)'
    BY <1>1, <1>2, <2>6, <2>7 DEF Counted
  <2>10. stats'.stopped = FALSE /\ stats'.timedOut = FALSE /\ ~(Cardinality(found') >= MaxResults)
    BY <1>1, <1>2, <2>6, SearchAssumption
  <2>11. ReadingInv'
    BY <1>1, <1>2, <1>8, <2>1, <2>2, <2>8, <2>9, <2>10 DEF ReadingInv
  <2> QED BY <1>6, <1>8, <2>4, <2>11 DEF SearchInv, ExtractInv, MatchesInv, ReplyInv
<1> QED BY <1>5, <1>7, <1>8

-----------------------------------------------------------------------------
\* Search, and search_code.

\* The first k matches of a path are k.
LEMMA FirstHits ==
  ASSUME NEW p, NEW k \in Nat
  PROVE  IsFiniteSet({<<p, i>> : i \in 1..k}) /\ Cardinality({<<p, i>> : i \in 1..k}) = k
<1> DEFINE I == 1..k
<1> DEFINE H == {<<p, i>> : i \in I}
<1> DEFINE f == [i \in I |-> <<p, i>>]
<1>1. IsFiniteSet(I) /\ Cardinality(I) = k
  BY FS_Interval
<1>2. f \in Surjection(I, H)
  BY DEF Surjection
<1>3. f \in Injection(I, H)
  <2>1. \A i, j \in I : f[i] = f[j] => i = j
    OBVIOUS
  <2>2. f \in [I -> H]
    OBVIOUS
  <2> HIDE DEF f, I, H
  <2> QED BY <2>1, <2>2 DEF Injection, IsInjective
<1> HIDE DEF f, I, H
<1>4. IsFiniteSet(H) /\ Cardinality(H) = k
  BY <1>1, <1>2, <1>3, FS_Surjection
<1> QED BY <1>4 DEF H, I

\* What is found of a file is some of its matches, and all of them below the limit.
LEMMA ContentHas ==
  ASSUME tree \in Trees, NEW p \in Regular
  PROVE  /\ SearchContent(p) \subseteq Hits(p)
         /\ IsFiniteSet(Hits(p)) /\ IsFiniteSet(SearchContent(p))
         /\ tree[p].hits = 0 => SearchContent(p) = {}
         /\ Cardinality(SearchContent(p)) < MaxResults => SearchContent(p) = Hits(p)
<1> DEFINE k == tree[p].hits
<1> DEFINE n == Min({k, MaxResults})
<1>1. k \in Nat /\ MaxResults \in Nat \ {0}
  BY TreeHas, SearchAssumption DEF Regular
<1>2. n \in {k, MaxResults} /\ n <= k /\ n <= MaxResults
  <2> HIDE DEF k
  <2>1. {k, MaxResults} \in SUBSET Nat /\ {k, MaxResults} # {}
    BY <1>1
  <2> DEFINE S == {k, MaxResults}
  <2>2. k \in S /\ MaxResults \in S
    OBVIOUS
  <2> HIDE DEF S
  <2>3. Min(S) \in S /\ \A x \in S : Min(S) <= x
    BY <2>1, MinIs DEF S
  <2> QED BY <2>2, <2>3 DEF S
<1>3. /\ Hits(p) = {<<p, i>> : i \in 1..k}
      /\ SearchContent(p) = {<<p, i>> : i \in 1..n}
  BY DEF Hits, SearchContent
<1> HIDE DEF k, n
<1>4. n \in Nat
  BY <1>1, <1>2
<1>5. SearchContent(p) \subseteq Hits(p)
  <2>1. 1..n \subseteq 1..k
    BY <1>1, <1>2, <1>4
  <2> QED BY <1>3, <2>1
<1>6. /\ IsFiniteSet(Hits(p)) /\ IsFiniteSet(SearchContent(p))
      /\ Cardinality(SearchContent(p)) = n
  <2>1. \A j \in Nat : IsFiniteSet({<<p, i>> : i \in 1..j}) /\ Cardinality({<<p, i>> : i \in 1..j}) = j
    BY FirstHits, Zenon
  <2> QED BY <1>1, <1>3, <1>4, <2>1, Zenon
<1>7. n = k => SearchContent(p) = Hits(p)
  BY <1>3
<1>8. k = 0 => SearchContent(p) = {}
  <2>1. k = 0 => 1..n = {}
    BY <1>1, <1>2, <1>4
  <2> QED BY <1>3, <2>1
<1> QED BY <1>1, <1>2, <1>5, <1>6, <1>7, <1>8 DEF k

\* The matches of a tree are finitely many.
LEMMA HitsFinite ==
  ASSUME tree \in Trees
  PROVE  IsFiniteSet(AllHits)
<1> DEFINE T == {q \in Regular : tree[q].class = "text"}
<1> DEFINE S == {Hits(p) : p \in T}
<1> DEFINE f == [p \in T |-> Hits(p)]
<1>1. IsFiniteSet(T)
  BY RegularFinite, FS_Subset
<1>2. f \in Surjection(T, S)
  BY DEF Surjection
<1>3. \A p \in T : IsFiniteSet(Hits(p))
  BY ContentHas
<1>4. \A s \in S : IsFiniteSet(s)
  BY <1>3
<1> HIDE DEF f, T
<1>5. IsFiniteSet(S)
  <2> HIDE DEF S
  <2> QED BY <1>1, <1>2, FS_Surjection, Zenon
<1> HIDE DEF S
<1>6. IsFiniteSet(UNION S)
  BY <1>4, <1>5, FS_UNION
<1> QED BY <1>6, Zenon DEF S, T, AllHits

\* Nothing that is searched changes.
LEMMA ShareStays ==
  ASSUME ShareInv, tree' = tree, disk' = disk, skipped' = skipped,
         stage \in {"search", "reply", "timeout", "done"}
  PROVE  ShareInv'
<1>1. /\ {e \in disk : e.class # "directory"} = Files /\ skipped = 1 + Cardinality(Links)
      /\ StreamBytes(tree) <= SizeLimit /\ Cardinality(AllEntries) <= EntryLimit
  BY DEF ShareInv
<1>2. Files' = Files /\ Links' = Links /\ AllEntries' = AllEntries /\ StreamBytes(tree)' = StreamBytes(tree)
  BY DEF Files, Links, AllEntries, FileOf, Regular
<1>3. {e \in disk : e.class # "directory"}' = {e \in disk : e.class # "directory"}
  OBVIOUS
<1> HIDE DEF Files, Links, AllEntries
<1> QED BY <1>1, <1>2, <1>3, Zenon DEF ShareInv

\* One more file has been read.
LEMMA SearchFileKeeps ==
  ASSUME SearchInv, SearchFile
  PROVE  SearchInv'
<1>1. PICK c \in unread :
        /\ unread' = unread \ {c}
        /\ found' = found \cup IF c.class = "text" THEN SearchContent(c.path) ELSE {}
        /\ stats' = [binary |-> stats.binary + IF c.class = "binary" THEN 1 ELSE 0,
                     oversized |-> stats.oversized + IF c.class = "large" THEN 1 ELSE 0,
                     stopped |-> c.class = "text" /\ tree[c.path].hits > 0
                                 /\ Cardinality(found') >= MaxResults,
                     timedOut |-> stats.timedOut]
  BY DEF SearchFile
<1>2. /\ stage = "search" /\ stage' = "search" /\ ~stats.stopped /\ tree' = tree /\ disk' = disk
      /\ skipped' = skipped /\ reply' = reply
  BY DEF SearchFile, extraction
<1>3. /\ tree \in Trees /\ StatsOK /\ reply = {} /\ ShareInv
      /\ unread \subseteq Files /\ found \subseteq AllHits
      /\ ~stats.timedOut
      /\ found = UNION {SearchContent(p) : p \in Of(Walked, "text")}
      /\ Counted(Walked)
      /\ ~(Cardinality(found) >= MaxResults)
  <2>1. /\ tree \in Trees /\ StatsOK /\ reply = {} /\ ShareInv /\ ReadingInv
    BY <1>2 DEF SearchInv
  <2> QED BY <1>1, <1>2, <2>1 DEF ReadingInv
<1>4. PICK p \in Regular : c = FileOf(p)
  BY <1>1, <1>3 DEF Files
<1>5. c.class = tree[p].class /\ c.path = p
  BY <1>4 DEF FileOf
<1>6. \A q \in Regular : FileOf(q) = c => q = p
  BY <1>4 DEF FileOf
<1>7. /\ Regular' = Regular /\ Files' = Files /\ Links' = Links /\ AllHits' = AllHits
      /\ \A q : FileOf(q)' = FileOf(q) /\ SearchContent(q)' = SearchContent(q)
  BY <1>2 DEF Regular, Files, Links, AllHits, FileOf, SearchContent, Hits
<1>8. Walked' = Walked \cup {p} /\ p \notin Walked
  <2>1. Walked' = {q \in Regular : FileOf(q) \notin unread \ {c}}
    BY <1>1, <1>7 DEF Walked
  <2> HIDE DEF FileOf
  <2> QED BY <1>1, <1>4, <1>6, <2>1 DEF Walked
<1>9. \A s : /\ tree[p].class = s => Of(Walked, s)' = Of(Walked, s) \cup {p} /\ p \notin Of(Walked, s)
             /\ tree[p].class # s => Of(Walked, s)' = Of(Walked, s)
  BY <1>2, <1>8 DEF Of
<1>10. found' = UNION {SearchContent(q) : q \in Of(Walked, "text")}'
  <2> DEFINE W == Of(Walked, "text")
  <2>1. UNION {SearchContent(q) : q \in Of(Walked, "text")}'
        = UNION {SearchContent(q) : q \in W'}
    BY <1>2 DEF SearchContent
  <2>2. found' = found \cup IF tree[p].class = "text" THEN SearchContent(p) ELSE {}
    BY <1>1, <1>5
  <2>3. found = UNION {SearchContent(q) : q \in W}
    BY <1>3
  <2>4. CASE tree[p].class = "text"
    <3>1. W' = W \cup {p}
      BY <1>9, <2>4
    <3> HIDE DEF W
    <3> QED BY <2>1, <2>2, <2>3, <2>4, <3>1
  <2>5. CASE tree[p].class # "text"
    <3>1. W' = W
      BY <1>9, <2>5
    <3> HIDE DEF W
    <3> QED BY <2>1, <2>2, <2>3, <2>5, <3>1
  <2> QED BY <2>4, <2>5
<1>11. found' \subseteq AllHits'
  <2>1. CASE tree[p].class = "text"
    <3>1. SearchContent(p) \subseteq Hits(p)
      BY <1>3, ContentHas
    <3>2. Hits(p) \subseteq AllHits
      BY <2>1 DEF AllHits
    <3> QED BY <1>1, <1>3, <1>5, <1>7, <3>1, <3>2
  <2>2. CASE tree[p].class # "text"
    BY <1>1, <1>3, <1>5, <1>7, <2>2
  <2> QED BY <2>1, <2>2
<1>12. StatsOK'
  <2>1. /\ stats.binary \in Nat /\ stats.oversized \in Nat /\ stats.timedOut \in BOOLEAN
    BY <1>3 DEF StatsOK
  <2> QED BY <1>1, <2>1 DEF StatsOK
<1>13. Counted(Walked)'
  <2>1. \A s : IsFiniteSet(Of(Walked, s)) /\ Cardinality(Of(Walked, s)) \in Nat
    <3> SUFFICES ASSUME NEW s PROVE IsFiniteSet(Of(Walked, s)) /\ Cardinality(Of(Walked, s)) \in Nat
      OBVIOUS
    <3>1. Of(Walked, s) \in SUBSET Regular
      BY DEF Of, Walked
    <3> QED BY <1>3, <3>1, RegularFinite, FS_Subset, FS_CardinalityType
  <2>2. ASSUME NEW s
        PROVE  Cardinality(Of(Walked, s)') =
                 Cardinality(Of(Walked, s)) + IF tree[p].class = s THEN 1 ELSE 0
    <3>1. CASE tree[p].class = s
      <4>1. Of(Walked, s)' = Of(Walked, s) \cup {p} /\ p \notin Of(Walked, s)
        BY <1>9, <3>1
      <4>2. Cardinality(Of(Walked, s) \cup {p}) = Cardinality(Of(Walked, s)) + 1
        BY <2>1, <4>1, FS_AddElement
      <4> QED BY <3>1, <4>1, <4>2
    <3>2. CASE tree[p].class # s
      BY <1>9, <2>1, <3>2
    <3> QED BY <3>1, <3>2
  <2>3. /\ stats'.binary = stats.binary + IF tree[p].class = "binary" THEN 1 ELSE 0
        /\ stats'.oversized = stats.oversized + IF tree[p].class = "large" THEN 1 ELSE 0
    BY <1>1, <1>5
  <2>4. /\ stats.binary = Cardinality(Of(Walked, "binary"))
        /\ stats.oversized = Cardinality(Of(Walked, "large"))
    BY <1>3 DEF Counted
  <2>5. /\ stats'.binary = Cardinality(Of(Walked, "binary")')
        /\ stats'.oversized = Cardinality(Of(Walked, "large")')
    BY <2>2, <2>3, <2>4
  <2> QED BY <2>5 DEF Counted
<1>14. stats'.stopped <=> Cardinality(found') >= MaxResults
  <2>1. stats'.stopped = (tree[p].class = "text" /\ tree[p].hits > 0
                          /\ Cardinality(found') >= MaxResults)
    BY <1>1, <1>5
  <2>2. CASE tree[p].class = "text" /\ tree[p].hits > 0
    BY <2>1, <2>2
  <2>3. CASE ~(tree[p].class = "text" /\ tree[p].hits > 0)
    <3>1. tree[p].hits \in Nat
      BY <1>3, TreeHas DEF Regular
    <3>2. found' = found
      BY <1>1, <1>3, <1>5, <2>3, <3>1, ContentHas
    <3> QED BY <1>3, <2>1, <2>3, <3>2
  <2> QED BY <2>2, <2>3
<1>15. stats'.timedOut = FALSE
  BY <1>1, <1>3 DEF StatsOK
<1>16. ReadingInv'
  <2>1. unread' \subseteq Files'
    BY <1>1, <1>3, <1>7
  <2> QED BY <1>2, <1>10, <1>11, <1>13, <1>14, <1>15, <2>1 DEF ReadingInv
<1>17. ShareInv'
  BY <1>2, <1>3, ShareStays
<1> QED BY <1>2, <1>3, <1>12, <1>16, <1>17 DEF SearchInv, ExtractInv, MatchesInv, ReplyInv

\* The rest is not read.
LEMMA TimeOutKeeps ==
  ASSUME SearchInv, TimeOut
  PROVE  SearchInv'
<1>1. /\ stage = "search" /\ stage' = "search" /\ tree' = tree /\ disk' = disk /\ skipped' = skipped
      /\ reply' = reply /\ found' = found /\ unread' = {}
      /\ stats' = [stats EXCEPT !.timedOut = TRUE]
  BY DEF TimeOut, extraction
<1>2. /\ tree \in Trees /\ StatsOK /\ reply = {} /\ ShareInv /\ ReadingInv
  BY <1>1 DEF SearchInv
<1>3. /\ StatsOK' /\ stats'.timedOut = TRUE /\ stats'.stopped = stats.stopped
  BY <1>1, <1>2 DEF StatsOK
<1>4. Files' = Files /\ Links' = Links /\ AllHits' = AllHits
  BY <1>1 DEF Files, Links, AllHits, FileOf, Regular, Hits
<1>5. ReadingInv'
  BY <1>1, <1>2, <1>3, <1>4 DEF ReadingInv
<1>6. ShareInv'
  BY <1>1, <1>2, ShareStays
<1> QED BY <1>1, <1>2, <1>3, <1>5, <1>6 DEF SearchInv, ExtractInv, MatchesInv, ReplyInv

\* The walk ends, and as many matches as were asked for are kept.
LEMMA SearchEndsKeeps ==
  ASSUME SearchInv, SearchEnds
  PROVE  SearchInv'
<1>1. PICK kept \in SUBSET found :
        Cardinality(kept) = Min({Cardinality(found), MaxResults}) /\ found' = kept
  BY DEF SearchEnds
<1>2. /\ stage = "search" /\ (unread = {} \/ stats.stopped)
      /\ stage' = IF stats.timedOut /\ found = {} THEN "timeout" ELSE "reply"
      /\ tree' = tree /\ disk' = disk /\ skipped' = skipped
      /\ reply' = reply /\ unread' = unread /\ stats' = stats
  BY DEF SearchEnds, extraction
<1>3. /\ tree \in Trees /\ StatsOK /\ reply = {} /\ ShareInv /\ ReadingInv
  BY <1>2 DEF SearchInv
<1>4. found \subseteq AllHits /\ (stats.stopped <=> Cardinality(found) >= MaxResults)
  BY <1>2, <1>3 DEF ReadingInv
<1>5. IsFiniteSet(found) /\ Cardinality(found) \in Nat /\ IsFiniteSet(kept)
  BY <1>3, <1>4, HitsFinite, FS_Subset, FS_CardinalityType
<1>6. /\ Cardinality(kept) \in {Cardinality(found), MaxResults}
      /\ Cardinality(kept) <= Cardinality(found) /\ Cardinality(kept) <= MaxResults
  <2> DEFINE S == {Cardinality(found), MaxResults}
  <2>1. S \in SUBSET Nat /\ S # {} /\ Cardinality(found) \in S /\ MaxResults \in S
    BY <1>5, SearchAssumption
  <2> HIDE DEF S
  <2>2. Min(S) \in S /\ \A x \in S : Min(S) <= x
    BY <2>1, MinIs
  <2>3. Cardinality(kept) = Min(S)
    BY <1>1 DEF S
  <2> QED BY <2>1, <2>2, <2>3 DEF S
<1>7. ASSUME ~stats.timedOut, ~stats.stopped PROVE kept = AllHits /\ Counted(Regular)
  <2>1. ~(Cardinality(found) >= MaxResults) /\ unread = {}
    BY <1>2, <1>4, <1>7
  <2>2. kept = found
    <3>1. Cardinality(found) = Cardinality(kept)
      BY <1>5, <1>6, <2>1, SearchAssumption
    <3> QED BY <1>1, <1>5, <3>1, FS_Subset
  <2>3. Walked = Regular
    BY <2>1 DEF Walked
  <2>4. found = UNION {SearchContent(p) : p \in Of(Regular, "text")} /\ Counted(Regular)
    BY <1>2, <1>3, <1>7, <2>3 DEF ReadingInv
  <2>5. \A p \in Of(Regular, "text") : SearchContent(p) = Hits(p)
    <3> SUFFICES ASSUME NEW p \in Of(Regular, "text") PROVE SearchContent(p) = Hits(p)
      OBVIOUS
    <3>1. p \in Regular
      BY DEF Of
    <3>2. SearchContent(p) \in SUBSET found
      BY <2>4
    <3>3. Cardinality(SearchContent(p)) <= Cardinality(found)
      BY <1>5, <3>2, FS_Subset
    <3>4. Cardinality(SearchContent(p)) \in Nat
      BY <1>3, <3>1, ContentHas, FS_CardinalityType
    <3>5. Cardinality(SearchContent(p)) < MaxResults
      BY <1>5, <2>1, <3>3, <3>4, SearchAssumption
    <3> QED BY <1>3, <3>1, <3>5, ContentHas
  <2>6. AllHits = UNION {Hits(p) : p \in Of(Regular, "text")}
    BY DEF AllHits, Of
  <2>7. {SearchContent(p) : p \in Of(Regular, "text")} = {Hits(p) : p \in Of(Regular, "text")}
    BY <2>5, Zenon
  <2> QED BY <2>2, <2>4, <2>6, <2>7
<1>8. stats.stopped => Cardinality(kept) = MaxResults
  BY <1>4, <1>5, <1>6, SearchAssumption
<1>9. stats.timedOut /\ found # {} => kept # {}
  <2> SUFFICES ASSUME found # {} PROVE kept # {}
    OBVIOUS
  <2>1. Cardinality(found) # 0
    BY <1>5, FS_EmptySet
  <2>2. Cardinality(kept) # 0
    BY <1>6, <2>1, SearchAssumption
  <2> QED BY <2>2, FS_EmptySet
<1>10. /\ AllHits' = AllHits /\ Files' = Files /\ Links' = Links /\ Regular' = Regular
       /\ Counted(Regular)' <=> Counted(Regular)
  BY <1>2 DEF AllHits, Files, Links, FileOf, Regular, Hits, Counted, Of
<1>11. MatchesInv'
  <2>1. found' \subseteq AllHits' /\ Cardinality(found') <= MaxResults
    BY <1>1, <1>4, <1>6, <1>10
  <2>2. ~stats'.timedOut /\ ~stats'.stopped => found' = AllHits' /\ Counted(Regular)'
    BY <1>1, <1>2, <1>7, <1>10
  <2>3. stats'.stopped => Cardinality(found') = MaxResults
    BY <1>1, <1>2, <1>8
  <2>4. IF stage' = "timeout" THEN stats'.timedOut /\ reply' = {} ELSE stats'.timedOut => found' # {}
    BY <1>1, <1>2, <1>3, <1>9
  <2> QED BY <2>1, <2>2, <2>3, <2>4 DEF MatchesInv
<1>12. StatsOK'
  BY <1>2, <1>3 DEF StatsOK
<1>13. ShareInv'
  BY <1>2, <1>3, ShareStays
<1> QED BY <1>2, <1>3, <1>11, <1>12, <1>13 DEF SearchInv, ExtractInv, ReadingInv, ReplyInv

\* What fits is returned, and flagged if it is not everything.
LEMMA ReplyKeeps ==
  ASSUME SearchInv, Reply
  PROVE  SearchInv'
<1>1. /\ stage = "reply" /\ stage' = "done" /\ tree' = tree /\ disk' = disk /\ skipped' = skipped
      /\ found' = found /\ stats' = stats
      /\ reply' \in {r \in SUBSET found : r = found \/ Cardinality(r) = MaxReply}
      /\ truncated' = (stats.timedOut \/ stats.stopped \/ reply' # found)
  BY DEF Reply, extraction, search
<1>2. tree \in Trees /\ StatsOK /\ ShareInv /\ MatchesInv
  BY DEF SearchInv
<1>3. /\ AllHits' = AllHits /\ Files' = Files /\ Links' = Links /\ Regular' = Regular
      /\ Counted(Regular)' <=> Counted(Regular)
  BY <1>1 DEF AllHits, Files, Links, FileOf, Regular, Hits, Counted, Of
<1>4. MatchesInv'
  BY <1>1, <1>2, <1>3 DEF MatchesInv
<1>5. ReplyInv'
  BY <1>1 DEF ReplyInv
<1>6. StatsOK' /\ ShareInv'
  <2>1. ShareInv'
    BY <1>1, <1>2, ShareStays
  <2> QED BY <1>1, <1>2, <2>1 DEF StatsOK
<1> QED BY <1>1, <1>2, <1>4, <1>5, <1>6 DEF SearchInv, ExtractInv, ReadingInv

-----------------------------------------------------------------------------
\* What is shown.

\* Every commit's tree starts with its archive unread.
LEMMA SearchInvInit ==
  ASSUME SearchInit
  PROVE  SearchInv
<1>1. /\ tree \in Trees /\ archive = AllEntries /\ entries = 0 /\ size = 0 /\ disk = {} /\ skipped = 0
      /\ stage = "extract" /\ unread = {} /\ found = {} /\ reply = {}
      /\ stats = [binary |-> 0, oversized |-> 0, stopped |-> FALSE, timedOut |-> FALSE]
  BY DEF SearchInit, AllEntries
<1>2. AllEntries \ archive = {} /\ Cardinality({}) = 0
  BY <1>1, FS_EmptySet
<1>3. BytesBut(AllEntries) = 0
  <2> DEFINE E == AllEntries
  <2> DEFINE f == [e \in E |-> IF e \in E THEN 0 ELSE EntryBytes(e)]
  <2>1. IsFiniteSet(E) /\ f \in [E -> Nat] /\ DOMAIN f = E /\ \A e \in E : f[e] = 0
    <3>1. IsFiniteSet(E)
      BY <1>1, ArchiveHas
    <3> HIDE DEF E
    <3> QED BY <3>1
  <2>2. BytesBut(E) = SumFunction(f)
    BY Zenon DEF BytesBut
  <2> HIDE DEF f, E
  <2>3. SumFcn(f, E)[E] = 0
    BY <2>1, SumZero
  <2>4. SumFunction(f) = SumFcn(f, DOMAIN f)[DOMAIN f]
    BY FunctionSum, Zenon
  <2>5. BytesBut(E) = 0
    BY <2>1, <2>2, <2>3, <2>4, Zenon
  <2> QED BY <2>5 DEF E
<1>4. ExtractInv
  <2> HIDE DEF AllEntries
  <2> QED BY <1>1, <1>2, <1>3, SearchAssumption DEF ExtractInv
<1>5. StatsOK
  BY <1>1 DEF StatsOK
<1> QED BY <1>1, <1>4, <1>5 DEF SearchInv, ShareInv, ReadingInv, MatchesInv, ReplyInv

\* SearchInv is inductive.
LEMMA SearchInvStep ==
  ASSUME SearchInv, [SearchNext]_searchVars
  PROVE  SearchInv'
<1>1. CASE Extract
  BY <1>1, ExtractKeeps
<1>2. CASE ExtractFails
  BY <1>2, ExtractFailsKeeps
<1>9. CASE EndRefused
  BY <1>9, EndRefusedKeeps
<1>3. CASE Flatten
  BY <1>3, FlattenKeeps
<1>4. CASE SearchFile
  BY <1>4, SearchFileKeeps
<1>5. CASE TimeOut
  BY <1>5, TimeOutKeeps
<1>6. CASE SearchEnds
  BY <1>6, SearchEndsKeeps
<1>7. CASE Reply
  BY <1>7, ReplyKeeps
<1>8. CASE UNCHANGED searchVars
  <2>1. /\ tree' = tree /\ archive' = archive /\ entries' = entries /\ size' = size /\ disk' = disk
        /\ skipped' = skipped /\ stage' = stage /\ unread' = unread /\ found' = found /\ stats' = stats
        /\ reply' = reply /\ truncated' = truncated
    BY <1>8 DEF searchVars, extraction, search
  <2>2. /\ Regular' = Regular /\ AllEntries' = AllEntries /\ Files' = Files /\ Links' = Links
        /\ AllHits' = AllHits /\ Walked' = Walked
    BY <2>1 DEF Regular, AllEntries, Files, Links, AllHits, Walked, FileOf, EntryOf, Hits
  <2>3. /\ \A p : SearchContent(p)' = SearchContent(p)
        /\ \A s : Of(Walked, s)' = Of(Walked, s) /\ Of(Regular, s)' = Of(Regular, s)
    BY <2>1, <2>2 DEF SearchContent, Of
  <2>4. ExtractInv' <=> ExtractInv
    <3>1. BytesBut(archive)' = BytesBut(archive)
      BY <2>1, <2>2 DEF BytesBut
    <3> QED BY <2>1, <2>2, <3>1 DEF ExtractInv
  <2>5. (Counted(Walked)' <=> Counted(Walked)) /\ (Counted(Regular)' <=> Counted(Regular))
    BY <2>1, <2>3 DEF Counted
  <2>6. UNION {SearchContent(p) : p \in Of(Walked, "text")}'
        = UNION {SearchContent(p) : p \in Of(Walked, "text")}
    <3> DEFINE W == Of(Walked, "text")
    <3>1. UNION {SearchContent(p) : p \in Of(Walked, "text")}' = UNION {SearchContent(p) : p \in W'}
      BY <2>1 DEF SearchContent
    <3>2. W' = W
      BY <2>3
    <3> QED BY <3>1, <3>2
  <2>7. ShareInv'
    <3>1. ShareInv
      BY DEF SearchInv
    <3>2. CASE stage \in {"search", "reply", "timeout", "done"}
      BY <2>1, <3>1, <3>2, ShareStays
    <3>3. CASE stage \notin {"search", "reply", "timeout", "done"}
      BY <2>1, <3>3 DEF ShareInv
    <3> QED BY <3>2, <3>3
  <2>8. ReadingInv' <=> ReadingInv
    BY <2>1, <2>2, <2>5, <2>6 DEF ReadingInv
  <2>9. MatchesInv' <=> MatchesInv
    BY <2>1, <2>2, <2>5 DEF MatchesInv
  <2>10. ReplyInv' <=> ReplyInv
    BY <2>1 DEF ReplyInv
  <2>11. SnapshotIsTree' <=> SnapshotIsTree
    BY <2>1, <2>2 DEF SnapshotIsTree
  <2>12. StatsOK' <=> StatsOK
    BY <2>1 DEF StatsOK
  <2> QED BY <2>1, <2>4, <2>7, <2>8, <2>9, <2>10, <2>11, <2>12 DEF SearchInv
<1> QED BY <1>1, <1>2, <1>3, <1>4, <1>5, <1>6, <1>7, <1>8, <1>9 DEF SearchNext

\* From every tree, whatever its archive and the limits, the invariant holds.
LEMMA SearchInvHolds == SearchSpec => []SearchInv
<1>1. SearchInit => SearchInv
  BY SearchInvInit
<1>2. SearchInv /\ [SearchNext]_searchVars => SearchInv'
  BY SearchInvStep
<1> QED BY <1>1, <1>2, PTL DEF SearchSpec

\* A snapshot that is searched has the regular files of the commit and nothing else,
\* and a commit is refused only if it is too large: snapshot.go, extractArchive and
\* flattenArchivePrefix.
THEOREM SearchedSnapshotIsTree == SearchSpec => []SnapshotIsTree
<1>1. SearchInv => SnapshotIsTree
  <2> SUFFICES ASSUME SearchInv PROVE SnapshotIsTree
    OBVIOUS
  <2>1. tree \in Trees /\ ShareInv /\ (stage \in {"tooLarge", "tooMany"} => SnapshotIsTree)
    BY DEF SearchInv
  <2>2. CASE stage \in {"search", "reply", "timeout", "done"}
    <3>1. /\ {e \in disk : e.class # "directory"} = Files /\ skipped = 1 + Cardinality(Links)
          /\ StreamBytes(tree) <= SizeLimit /\ Cardinality(AllEntries) <= EntryLimit
      BY <2>1, <2>2 DEF ShareInv
    <3>2. \A p \in Regular : FileOf(p) \in Files /\ FileOf(p).path = p /\ FileOf(p).class = tree[p].class
      BY DEF Files, FileOf
    <3>3. \A e \in Files : e.path \in Regular /\ e.class = tree[e.path].class
      BY DEF Files, FileOf
    <3>4. {e.path : e \in {x \in disk : x.class # "directory"}} = Regular
      <4> HIDE DEF Files, FileOf, Regular
      <4> QED BY <3>1, <3>2, <3>3
    <3>5. \A e \in disk : e.class # "directory" => e.class = tree[e.path].class
      <4> HIDE DEF Files
      <4> QED BY <3>1, <3>3
    <3> QED BY <2>2, <3>1, <3>4, <3>5 DEF SnapshotIsTree, Links, AllEntries
  <2>3. CASE stage \notin {"search", "reply", "timeout", "done"}
    BY <2>1, <2>3 DEF SnapshotIsTree
  <2> QED BY <2>2, <2>3
<1> QED BY <1>1, SearchInvHolds, PTL

\* A result that is not flagged has every match, and one that is flagged has some:
\* Search and searchMatchesWithin.
THEOREM SearchResultIsHonest == SearchSpec => []SearchFindsAll
<1>1. SearchInv => SearchFindsAll
  <2> SUFFICES ASSUME SearchInv PROVE SearchFindsAll
    OBVIOUS
  <2>1. tree \in Trees /\ MatchesInv /\ ReplyInv /\ StatsOK
    BY DEF SearchInv
  <2>2. CASE stage = "done"
    <3>1. /\ found \subseteq AllHits /\ Cardinality(found) <= MaxResults
          /\ ~stats.timedOut /\ ~stats.stopped => found = AllHits /\ Counted(Regular)
          /\ stats.stopped => Cardinality(found) = MaxResults
          /\ stats.timedOut => found # {}
      BY <2>1, <2>2 DEF MatchesInv
    <3>2. /\ reply \subseteq found
          /\ reply = found \/ (Cardinality(reply) = MaxReply /\ reply # found)
          /\ truncated = (stats.timedOut \/ stats.stopped \/ reply # found)
      BY <2>1, <2>2 DEF ReplyInv
    <3>3. IsFiniteSet(found) /\ Cardinality(found) \in Nat
      BY <2>1, <3>1, HitsFinite, FS_Subset, FS_CardinalityType
    <3>4. Cardinality(reply) <= MaxResults
      <4>1. Cardinality(reply) <= Cardinality(found) /\ Cardinality(reply) \in Nat
        BY <3>2, <3>3, FS_Subset, FS_CardinalityType
      <4> QED BY <3>1, <3>3, <4>1, SearchAssumption
    <3>5. Cardinality({}) = 0
      BY FS_EmptySet
    <3>6. ~truncated => reply = AllHits /\ Counted(Regular)
      BY <2>1, <3>1, <3>2 DEF StatsOK
    <3>7. truncated => reply # {} \/ MaxReply = 0
      BY <2>1, <3>1, <3>2, <3>5, SearchAssumption DEF StatsOK
    <3>8. truncated /\ ~stats.timedOut => Cardinality(reply) \in {MaxReply, MaxResults}
      BY <2>1, <3>1, <3>2 DEF StatsOK
    <3>9. reply \subseteq AllHits
      BY <3>1, <3>2
    <3> QED BY <2>2, <3>4, <3>6, <3>7, <3>8, <3>9 DEF SearchFindsAll, AllHits, Counted, Of
  <2>3. CASE stage = "timeout"
    BY <2>1, <2>3 DEF MatchesInv, SearchFindsAll
  <2>4. CASE stage \notin {"done", "timeout"}
    BY <2>4 DEF SearchFindsAll
  <2> QED BY <2>2, <2>3, <2>4
<1> QED BY <1>1, SearchInvHolds, PTL

-----------------------------------------------------------------------------
\* The bytes of a text.

\* The bytes of lines are a number, of none zero.
LEMMA BytesType ==
  ASSUME NEW s \in Seq(Nat)
  PROVE  Bytes(s) \in Nat /\ Bytes(<<>>) = 0
<1>1. s \in [1..Len(s) -> Nat] /\ Len(s) \in Nat
  OBVIOUS
<1>2. DOMAIN s = 1..Len(s) /\ IsFiniteSet(1..Len(s))
  BY <1>1, FS_Interval
<1>3. SumFcn(s, 1..Len(s))[1..Len(s)] \in Nat
  BY <1>1, <1>2, SumType
<1>4. Bytes(s) \in Nat
  BY <1>2, <1>3, FunctionSum, Zenon DEF Bytes
<1>5. IsFiniteSet({}) /\ DOMAIN <<>> = {}
  BY FS_EmptySet
<1>6. SumFcn(<<>>, {})[{}] = 0
  BY <1>5, SumEquation, Zenon
<1>7. Bytes(<<>>) = 0
  BY <1>5, <1>6, FunctionSum, Zenon DEF Bytes
<1> QED BY <1>4, <1>7

\* The bytes of two texts are those of the one and those of the other.
LEMMA BytesConcat ==
  ASSUME NEW s \in Seq(Nat), NEW t \in Seq(Nat)
  PROVE  Bytes(s \o t) = Bytes(s) + Bytes(t)
<1> DEFINE m == Len(s)
<1> DEFINE u(i) == [j \in 1..(m + i) |-> IF j <= m THEN s[j] ELSE t[j - m]]
<1> DEFINE v(i) == [j \in 1..i |-> t[j]]
<1> DEFINE U(i) == SumFcn(u(i), 1..(m + i))[1..(m + i)]
<1> DEFINE V(i) == SumFcn(v(i), 1..i)[1..i]
<1> DEFINE Holds == {i \in Nat : i <= Len(t) => U(i) = Bytes(s) + V(i)}
<1>1. /\ m \in Nat /\ Len(t) \in Nat
      /\ \A j \in 1..m : s[j] \in Nat
      /\ \A j \in 1..Len(t) : t[j] \in Nat
  OBVIOUS
<1>2. Bytes(s) \in Nat
  BY BytesType
<1>3. 0 \in Holds
  <2>1. u(0) = s /\ 1..(m + 0) = 1..m /\ DOMAIN s = 1..m
    OBVIOUS
  <2>2. U(0) = Bytes(s)
    BY <2>1, FunctionSum, Zenon DEF Bytes
  <2>3. 1..0 = {} /\ IsFiniteSet({})
    BY FS_EmptySet
  <2>4. V(0) = 0
    <3> HIDE DEF v
    <3> QED BY <2>3, SumEquation, Zenon
  <2> HIDE DEF U, V
  <2> QED BY <1>2, <2>2, <2>4
<1>4. ASSUME NEW i \in Nat, i \in Holds PROVE i + 1 \in Holds
  <2> SUFFICES ASSUME i + 1 <= Len(t) PROVE U(i + 1) = Bytes(s) + V(i + 1)
    OBVIOUS
  <2> DEFINE k == m + i
  <2>1. k \in Nat /\ m + (i + 1) = k + 1
    BY <1>1
  <2>2. t[i + 1] \in Nat
    BY <1>1
  <2>3. /\ u(i) \in [1..k -> Nat] /\ u(i + 1) \in [1..(k + 1) -> Nat]
        /\ \A x \in 1..k : u(i)[x] = u(i + 1)[x]
        /\ u(i + 1)[k + 1] = t[i + 1]
    <3>1. \A x \in 1..(k + 1) : (IF x <= m THEN s[x] ELSE t[x - m]) \in Nat
      <4> SUFFICES ASSUME NEW x \in 1..(k + 1) PROVE (IF x <= m THEN s[x] ELSE t[x - m]) \in Nat
        OBVIOUS
      <4>1. CASE x <= m
        BY <1>1, <4>1
      <4>2. CASE ~(x <= m)
        <5>1. x - m \in 1..Len(t)
          BY <1>1, <4>2
        <5> HIDE DEF m
        <5> QED BY <1>1, <4>2, <5>1
      <4> QED BY <4>1, <4>2
    <3>2. /\ 1..k \subseteq 1..(k + 1) /\ k + 1 \in 1..(k + 1)
          /\ ~(k + 1 <= m) /\ (k + 1) - m = i + 1
      BY <1>1
    <3> DEFINE F(j) == IF j <= m THEN s[j] ELSE t[j - m]
    <3>3. u(i) = [j \in 1..k |-> F(j)]
      OBVIOUS
    <3>4. u(i + 1) = [j \in 1..(k + 1) |-> F(j)]
      BY <2>1, Zenon
    <3>5. F(k + 1) = t[i + 1]
      <4> HIDE DEF m, k
      <4> QED BY <3>2
    <3>6. \A x \in 1..(k + 1) : F(x) \in Nat
      BY <3>1
    <3> HIDE DEF F, m, k, u, U, V
    <3> QED BY <3>2, <3>3, <3>4, <3>5, <3>6
  <2>4. /\ v(i) \in [1..i -> Nat] /\ v(i + 1) \in [1..(i + 1) -> Nat]
        /\ \A x \in 1..i : v(i)[x] = v(i + 1)[x]
        /\ v(i + 1)[i + 1] = t[i + 1]
    <3>1. \A x \in 1..(i + 1) : t[x] \in Nat
      BY <1>1
    <3>2. 1..i \subseteq 1..(i + 1) /\ i + 1 \in 1..(i + 1)
      OBVIOUS
    <3> QED BY <3>1, <3>2
  <2>5. IsFiniteSet(1..i)
    BY FS_Interval
  <2> DEFINE ui == u(i)
  <2> DEFINE un == u(i + 1)
  <2> DEFINE vi == v(i)
  <2> DEFINE vn == v(i + 1)
  <2>a. U(i) = SumFcn(ui, 1..k)[1..k] /\ V(i) = SumFcn(vi, 1..i)[1..i]
    OBVIOUS
  <2>b. U(i + 1) = SumFcn(un, 1..(k + 1))[1..(k + 1)] /\ V(i + 1) = SumFcn(vn, 1..(i + 1))[1..(i + 1)]
    BY <2>1, Zenon
  <2>c. /\ ui \in [1..k -> Nat] /\ un \in [1..(k + 1) -> Nat]
        /\ \A x \in 1..k : un[x] = ui[x]
        /\ vi \in [1..i -> Nat] /\ vn \in [1..(i + 1) -> Nat]
        /\ \A x \in 1..i : vn[x] = vi[x]
        /\ un[k + 1] = t[i + 1] /\ vn[i + 1] = t[i + 1]
    BY <2>3, <2>4
  <2> HIDE DEF m, k, ui, un, vi, vn, U, V
  <2>6. U(i + 1) = U(i) + t[i + 1]
    <3>1. SumFcn(un, 1..(k + 1))[1..(k + 1)] = SumFcn(ui, 1..k)[1..k] + un[k + 1]
      BY <2>1, <2>c, SumNext, Zenon
    <3> QED BY <2>a, <2>b, <2>c, <3>1
  <2>7. V(i + 1) = V(i) + t[i + 1]
    <3>1. SumFcn(vn, 1..(i + 1))[1..(i + 1)] = SumFcn(vi, 1..i)[1..i] + vn[i + 1]
      <4>1. i \in Nat /\ vn \in [1..(i + 1) -> Nat] /\ vi \in [1..i -> Nat]
            /\ \A x \in 1..i : vn[x] = vi[x]
        BY <2>c
      <4> QED BY <4>1, SumNext, Zenon
    <3> QED BY <2>a, <2>b, <2>c, <3>1
  <2>8. V(i) \in Nat
    <3>1. \A S \in SUBSET (1..i) : SumFcn(vi, 1..i)[S] \in Nat
      BY <2>5, <2>c, SumType, Zenon
    <3> QED BY <2>a, <3>1, Zenon
  <2>9. i <= Len(t)
    BY <1>1
  <2>10. U(i) = Bytes(s) + V(i)
    BY <1>4, <2>9
  <2> HIDE DEF U, V
  <2> QED BY <1>2, <2>2, <2>6, <2>7, <2>8, <2>10
<1>5. Len(t) \in Holds
  <2> HIDE DEF Holds
  <2> QED BY <1>1, <1>3, <1>4, InductionOnNat
<1>6. U(Len(t)) = Bytes(s) + V(Len(t))
  BY <1>5
<1>7. u(Len(t)) = s \o t /\ DOMAIN (s \o t) = 1..(m + Len(t))
  <2>1. /\ s \o t \in Seq(Nat) /\ Len(s \o t) = m + Len(t)
        /\ \A j \in 1..(m + Len(t)) : (s \o t)[j] = IF j <= m THEN s[j] ELSE t[j - m]
    BY ConcatProperties
  <2>2. s \o t = [j \in 1..(m + Len(t)) |-> (s \o t)[j]]
    <3> DEFINE w == s \o t
    <3> HIDE DEF w
    <3>1. w \in Seq(Nat) /\ Len(w) = m + Len(t)
      BY <2>1 DEF w
    <3>2. w = [j \in 1..Len(w) |-> w[j]]
      BY <3>1
    <3> QED BY <3>1, <3>2 DEF w
  <2> DEFINE w == s \o t
  <2> HIDE DEF w, m
  <2>3. w = [j \in 1..(m + Len(t)) |-> IF j <= m THEN s[j] ELSE t[j - m]]
    BY <2>1, <2>2 DEF w
  <2> QED BY <2>3 DEF w
<1>8. v(Len(t)) = t /\ DOMAIN t = 1..Len(t)
  OBVIOUS
<1>9. U(Len(t)) = Bytes(s \o t)
  <2> HIDE DEF u
  <2> QED BY <1>7, FunctionSum, Zenon DEF Bytes
<1>10. V(Len(t)) = Bytes(t)
  <2> HIDE DEF v
  <2> QED BY <1>8, FunctionSum, Zenon DEF Bytes
<1> HIDE DEF U, V
<1> QED BY <1>6, <1>9, <1>10

-----------------------------------------------------------------------------
\* The pairs that go-git makes.

\* What is paired after the first pairs were looked at.
Taken(sources, targets) ==
  CHOOSE taken : taken = [i \in 0..Len(similar) |->
    IF i = 0 THEN {}
    ELSE taken[i - 1] \cup {p \in {similar[i]} :
           /\ p.from \in sources /\ p.to \in targets
           /\ \A q \in taken[i - 1] : q.from # p.from /\ q.to # p.to}]

\* A pair that is taken next.
Takes(pairs, p, sources, targets) ==
  /\ p.from \in sources /\ p.to \in targets
  /\ \A q \in pairs : q.from # p.from /\ q.to # p.to

\* Pair after pair is taken or not.
LEMMA TakenEquation ==
  ASSUME similar \in Seq(Pairs), NEW S, NEW T
  PROVE  /\ Taken(S, T)[0] = {}
         /\ \A i \in 1..Len(similar) :
              /\ similar[i] \in Pairs
              /\ Takes(Taken(S, T)[i - 1], similar[i], S, T) =>
                   Taken(S, T)[i] = Taken(S, T)[i - 1] \cup {similar[i]}
              /\ ~Takes(Taken(S, T)[i - 1], similar[i], S, T) =>
                   Taken(S, T)[i] = Taken(S, T)[i - 1]
         /\ Paired(S, T) = Taken(S, T)[Len(similar)]
<1> DEFINE n == Len(similar)
<1> DEFINE X == SUBSET Pairs
<1> DEFINE next(i, R) == R \cup {p \in {similar[i]} : Takes(R, p, S, T)}
<1> DEFINE step == [i \in 1..n |-> [R \in X |-> next(i, R)]]
<1>1. n \in Nat /\ \A i \in 1..n : similar[i] \in Pairs
  OBVIOUS
<1>2. \A i \in 1..n : \A R \in X : next(i, R) \in X
  BY <1>1
<1>3. step \in [1..n -> [X -> X]]
  <2> HIDE DEF next, X, n
  <2> QED BY <1>2
<1>4. \A i \in 1..n : \A R \in X : step[i][R] = next(i, R)
  <2> HIDE DEF next, X, n
  <2> QED OBVIOUS
<1>5. PICK g \in [0..n -> X] : g[0] = {} /\ \A i \in 1..n : g[i] = step[i][g[i - 1]]
  <2> DEFINE b == {}
  <2>1. b \in X /\ n \in Nat /\ step \in [1..n -> [X -> X]]
    BY <1>1, <1>3
  <2> HIDE DEF step, X, n, next, b
  <2>2. PICK g : IsRun(g, n, X, b, step)
    BY <2>1, RecursionOnNat
  <2> QED BY <2>2 DEF b, IsRun
<1>6. \A i \in 1..n : g[i] = next(i, g[i - 1])
  <2> SUFFICES ASSUME NEW i \in 1..n PROVE g[i] = next(i, g[i - 1])
    OBVIOUS
  <2>1. i - 1 \in 0..n
    BY <1>1
  <2> HIDE DEF step, X, n, next
  <2>2. g[i - 1] \in X
    BY <2>1
  <2> QED BY <1>4, <1>5, <2>2
<1> DEFINE Eq(h) == h = [i \in 0..n |-> IF i = 0 THEN {} ELSE next(i, h[i - 1])]
<1>7. Eq(g)
  <2>1. \A i \in 0..n : g[i] = IF i = 0 THEN {} ELSE next(i, g[i - 1])
    <3>1. \A i \in 0..n : i # 0 => i \in 1..n
      BY <1>1
    <3> HIDE DEF next, n
    <3> QED BY <1>5, <1>6, <3>1
  <2>2. g = [i \in 0..n |-> g[i]]
    OBVIOUS
  <2> HIDE DEF next, n
  <2> QED BY <2>1, <2>2, Zenon
<1>8. Taken(S, T) = CHOOSE h : Eq(h)
  BY Zenon DEF Taken, Takes
<1>9. Eq(Taken(S, T))
  <2> HIDE DEF Eq
  <2> QED BY <1>7, <1>8, Zenon
<1>10. Paired(S, T) = Taken(S, T)[n]
  BY Zenon DEF Paired, Taken
<1> DEFINE t == Taken(S, T)
<1>11. \A i \in 0..n : t[i] = IF i = 0 THEN {} ELSE next(i, t[i - 1])
  <2>1. t = [i \in 0..n |-> IF i = 0 THEN {} ELSE next(i, t[i - 1])]
    BY <1>9
  <2> HIDE DEF t, next, n
  <2> QED BY <2>1, Zenon
<1> HIDE DEF t
<1>12. t[0] = {}
  <2>1. 0 \in 0..n
    BY <1>1
  <2> HIDE DEF next, n
  <2> QED BY <1>11, <2>1
<1>13. ASSUME NEW i \in 1..n
       PROVE  /\ Takes(t[i - 1], similar[i], S, T) => t[i] = t[i - 1] \cup {similar[i]}
              /\ ~Takes(t[i - 1], similar[i], S, T) => t[i] = t[i - 1]
  <2>1. t[i] = next(i, t[i - 1])
    <3>1. i \in 0..n /\ i # 0
      BY <1>1
    <3> HIDE DEF next, n
    <3> QED BY <1>11, <3>1
  <2> QED BY <2>1
<1> QED BY <1>1, <1>10, <1>12, <1>13 DEF t

\* What is paired are pairs of a source and a target, and nothing is paired twice.
LEMMA PairedIs ==
  ASSUME similar \in Seq(Pairs), NEW S, NEW T
  PROVE  /\ Paired(S, T) \subseteq Pairs
         /\ \A p \in Paired(S, T) : p.from \in S /\ p.to \in T
         /\ \A p, q \in Paired(S, T) : p.from = q.from \/ p.to = q.to => p = q
<1> DEFINE n == Len(similar)
<1> DEFINE t == Taken(S, T)
<1> DEFINE Fine(R) == /\ R \subseteq Pairs
                      /\ \A p \in R : p.from \in S /\ p.to \in T
                      /\ \A p, q \in R : p.from = q.from \/ p.to = q.to => p = q
<1> DEFINE Holds == {i \in Nat : i <= n => Fine(t[i])}
<1>1. /\ t[0] = {} /\ Paired(S, T) = t[n] /\ n \in Nat
      /\ \A i \in 1..n :
           /\ similar[i] \in Pairs
           /\ Takes(t[i - 1], similar[i], S, T) => t[i] = t[i - 1] \cup {similar[i]}
           /\ ~Takes(t[i - 1], similar[i], S, T) => t[i] = t[i - 1]
  BY TakenEquation
<1> HIDE DEF t, n
<1>2. 0 \in Holds
  BY <1>1
<1>3. ASSUME NEW k \in Nat, k \in Holds PROVE k + 1 \in Holds
  <2> SUFFICES ASSUME k + 1 <= n PROVE Fine(t[k + 1])
    OBVIOUS
  <2>1. k + 1 \in 1..n /\ (k + 1) - 1 = k /\ k <= n
    BY <1>1
  <2>2. Fine(t[k])
    BY <1>3, <2>1
  <2> DEFINE R == t[k]
  <2> DEFINE s == similar[k + 1]
  <2>3. /\ s \in Pairs
        /\ Takes(R, s, S, T) => t[k + 1] = R \cup {s}
        /\ ~Takes(R, s, S, T) => t[k + 1] = R
    BY <1>1, <2>1
  <2>4. Fine(R)
    BY <2>2
  <2> HIDE DEF R, s
  <2>5. CASE Takes(R, s, S, T)
    <3>1. Fine(R \cup {s})
      BY <2>3, <2>4, <2>5 DEF Takes
    <3> HIDE DEF Fine
    <3> QED BY <2>3, <2>5, <3>1
  <2>6. CASE ~Takes(R, s, S, T)
    <3> HIDE DEF Fine
    <3> QED BY <2>3, <2>4, <2>6
  <2> QED BY <2>5, <2>6
<1>4. n \in Holds
  <2> HIDE DEF Holds
  <2> QED BY <1>1, <1>2, <1>3, InductionOnNat
<1> QED BY <1>1, <1>4

\* A target that is paired is still paired when there are fewer other targets.
LEMMA FewerTargets ==
  ASSUME similar \in Seq(Pairs), NEW S, NEW T, NEW U \in SUBSET T
  PROVE  \A p \in Paired(S, T) : p.to \in U => \E q \in Paired(S, U) : q.to = p.to
<1> DEFINE n == Len(similar)
<1> DEFINE t == Taken(S, T)
<1> DEFINE u == Taken(S, U)
<1> DEFINE Fine(R, Q) == /\ \A p \in R : p.to \in U => \E q \in Q : q.to = p.to
                         /\ \A q \in Q : \E p \in R : p.from = q.from
<1> DEFINE Holds == {i \in Nat : i <= n => Fine(t[i], u[i])}
<1>1. /\ t[0] = {} /\ Paired(S, T) = t[n] /\ n \in Nat
      /\ \A i \in 1..n :
           /\ similar[i] \in Pairs
           /\ Takes(t[i - 1], similar[i], S, T) => t[i] = t[i - 1] \cup {similar[i]}
           /\ ~Takes(t[i - 1], similar[i], S, T) => t[i] = t[i - 1]
  BY TakenEquation
<1>2. /\ u[0] = {} /\ Paired(S, U) = u[n]
      /\ \A i \in 1..n :
           /\ Takes(u[i - 1], similar[i], S, U) => u[i] = u[i - 1] \cup {similar[i]}
           /\ ~Takes(u[i - 1], similar[i], S, U) => u[i] = u[i - 1]
  BY TakenEquation
<1> HIDE DEF t, u, n
<1>3. 0 \in Holds
  BY <1>1, <1>2
<1>4. ASSUME NEW k \in Nat, k \in Holds PROVE k + 1 \in Holds
  <2> SUFFICES ASSUME k + 1 <= n PROVE Fine(t[k + 1], u[k + 1])
    OBVIOUS
  <2>1. k + 1 \in 1..n /\ (k + 1) - 1 = k /\ k <= n
    BY <1>1
  <2>2. Fine(t[k], u[k])
    BY <1>4, <2>1
  <2> DEFINE R == t[k]
  <2> DEFINE Q == u[k]
  <2> DEFINE s == similar[k + 1]
  <2>3. /\ Takes(R, s, S, T) => t[k + 1] = R \cup {s}
        /\ ~Takes(R, s, S, T) => t[k + 1] = R
        /\ Takes(Q, s, S, U) => u[k + 1] = Q \cup {s}
        /\ ~Takes(Q, s, S, U) => u[k + 1] = Q
    BY <1>1, <1>2, <2>1
  <2>4. Fine(R, Q)
    BY <2>2
  <2> HIDE DEF R, Q, s
  <2>5. CASE Takes(R, s, S, T) /\ Takes(Q, s, S, U)
    <3>1. Fine(R \cup {s}, Q \cup {s})
      BY <2>4
    <3> HIDE DEF Fine
    <3> QED BY <2>3, <2>5, <3>1
  <2>6. CASE Takes(R, s, S, T) /\ ~Takes(Q, s, S, U)
    <3>1. s.to \in U => \E q \in Q : q.to = s.to
      BY <2>4, <2>6 DEF Takes
    <3>2. Fine(R \cup {s}, Q)
      BY <2>4, <3>1
    <3> HIDE DEF Fine
    <3> QED BY <2>3, <2>6, <3>2
  <2>7. CASE ~Takes(R, s, S, T) /\ Takes(Q, s, S, U)
    <3>1. \E p \in R : p.from = s.from
      BY <2>4, <2>7 DEF Takes
    <3>2. Fine(R, Q \cup {s})
      BY <2>4, <3>1
    <3> HIDE DEF Fine
    <3> QED BY <2>3, <2>7, <3>2
  <2>8. CASE ~Takes(R, s, S, T) /\ ~Takes(Q, s, S, U)
    <3> HIDE DEF Fine
    <3> QED BY <2>3, <2>4, <2>8
  <2> QED BY <2>5, <2>6, <2>7, <2>8
<1>5. n \in Holds
  <2> HIDE DEF Holds
  <2> QED BY <1>1, <1>3, <1>4, InductionOnNat
<1> QED BY <1>1, <1>2, <1>5

\* And a source when there are fewer other sources.
LEMMA FewerSources ==
  ASSUME similar \in Seq(Pairs), NEW S, NEW T, NEW U \in SUBSET S
  PROVE  \A p \in Paired(S, T) : p.from \in U => \E q \in Paired(U, T) : q.from = p.from
<1> DEFINE n == Len(similar)
<1> DEFINE t == Taken(S, T)
<1> DEFINE u == Taken(U, T)
<1> DEFINE Fine(R, Q) == /\ \A p \in R : p.from \in U => \E q \in Q : q.from = p.from
                         /\ \A q \in Q : \E p \in R : p.to = q.to
<1> DEFINE Holds == {i \in Nat : i <= n => Fine(t[i], u[i])}
<1>1. /\ t[0] = {} /\ Paired(S, T) = t[n] /\ n \in Nat
      /\ \A i \in 1..n :
           /\ similar[i] \in Pairs
           /\ Takes(t[i - 1], similar[i], S, T) => t[i] = t[i - 1] \cup {similar[i]}
           /\ ~Takes(t[i - 1], similar[i], S, T) => t[i] = t[i - 1]
  BY TakenEquation
<1>2. /\ u[0] = {} /\ Paired(U, T) = u[n]
      /\ \A i \in 1..n :
           /\ Takes(u[i - 1], similar[i], U, T) => u[i] = u[i - 1] \cup {similar[i]}
           /\ ~Takes(u[i - 1], similar[i], U, T) => u[i] = u[i - 1]
  BY TakenEquation
<1> HIDE DEF t, u, n
<1>3. 0 \in Holds
  BY <1>1, <1>2
<1>4. ASSUME NEW k \in Nat, k \in Holds PROVE k + 1 \in Holds
  <2> SUFFICES ASSUME k + 1 <= n PROVE Fine(t[k + 1], u[k + 1])
    OBVIOUS
  <2>1. k + 1 \in 1..n /\ (k + 1) - 1 = k /\ k <= n
    BY <1>1
  <2>2. Fine(t[k], u[k])
    BY <1>4, <2>1
  <2> DEFINE R == t[k]
  <2> DEFINE Q == u[k]
  <2> DEFINE s == similar[k + 1]
  <2>3. /\ Takes(R, s, S, T) => t[k + 1] = R \cup {s}
        /\ ~Takes(R, s, S, T) => t[k + 1] = R
        /\ Takes(Q, s, U, T) => u[k + 1] = Q \cup {s}
        /\ ~Takes(Q, s, U, T) => u[k + 1] = Q
    BY <1>1, <1>2, <2>1
  <2>4. Fine(R, Q)
    BY <2>2
  <2> HIDE DEF R, Q, s
  <2>5. CASE Takes(R, s, S, T) /\ Takes(Q, s, U, T)
    <3>1. Fine(R \cup {s}, Q \cup {s})
      BY <2>4
    <3> HIDE DEF Fine
    <3> QED BY <2>3, <2>5, <3>1
  <2>6. CASE Takes(R, s, S, T) /\ ~Takes(Q, s, U, T)
    <3>1. s.from \in U => \E q \in Q : q.from = s.from
      BY <2>4, <2>6 DEF Takes
    <3>2. Fine(R \cup {s}, Q)
      BY <2>4, <3>1
    <3> HIDE DEF Fine
    <3> QED BY <2>3, <2>6, <3>2
  <2>7. CASE ~Takes(R, s, S, T) /\ Takes(Q, s, U, T)
    <3>1. \E p \in R : p.to = s.to
      BY <2>4, <2>7 DEF Takes
    <3>2. Fine(R, Q \cup {s})
      BY <2>4, <3>1
    <3> HIDE DEF Fine
    <3> QED BY <2>3, <2>7, <3>2
  <2>8. CASE ~Takes(R, s, S, T) /\ ~Takes(Q, s, U, T)
    <3> HIDE DEF Fine
    <3> QED BY <2>3, <2>4, <2>8
  <2> QED BY <2>5, <2>6, <2>7, <2>8
<1>5. n \in Holds
  <2> HIDE DEF Holds
  <2> QED BY <1>1, <1>3, <1>4, InductionOnNat
<1> QED BY <1>1, <1>2, <1>5

-----------------------------------------------------------------------------
\* The changes before and after the selection.

\* What a commit may do to a path.
Deletion(d) == [from |-> d, to |-> None]
Addition(a) == [from |-> None, to |-> a]
Modification(m) == [from |-> m, to |-> m]

TreeChanges == {Deletion(d) : d \in Deletions} \cup {Addition(a) : a \in Additions}
           \cup {Modification(m) : m \in Modifications}

Dels(cs) == {c.from : c \in {d \in cs : d.to = None}}
Adds(cs) == {c.to : c \in {d \in cs : d.from = None}}

\* The pairs among some changes.
PairsOf(cs) == Paired(Dels(cs), Adds(cs))

\* The paths that are asked for.
Wanted == IF filters = {} THEN Touched(treeDiff) ELSE Touched(treeDiff) \cap filters

\* A change is of one path, and a path changes in one way.
LEMMA ChangeHas ==
  ASSUME NEW c \in TreeChanges
  PROVE  \/ /\ c.from \in Deletions /\ c.to = None /\ Sides(c) = {c.from} /\ c = Deletion(c.from)
         \/ /\ c.to \in Additions /\ c.from = None /\ Sides(c) = {c.to} /\ c = Addition(c.to)
         \/ /\ c.from \in Modifications /\ c.to = c.from /\ Sides(c) = {c.from}
            /\ None \notin {c.from, c.to} /\ c = Modification(c.from)
<1>1. CASE \E d \in Deletions : c = Deletion(d)
  <2>1. PICK d \in Deletions : c = Deletion(d)
    BY <1>1
  <2>2. d # None /\ c.from = d /\ c.to = None
    BY <2>1, DiffAssumption DEF Deletion
  <2> QED BY <2>1, <2>2 DEF Sides
<1>2. CASE \E a \in Additions : c = Addition(a)
  <2>1. PICK a \in Additions : c = Addition(a)
    BY <1>2
  <2>2. a # None /\ c.from = None /\ c.to = a
    BY <2>1, DiffAssumption DEF Addition
  <2> QED BY <2>1, <2>2 DEF Sides
<1>3. CASE \E m \in Modifications : c = Modification(m)
  <2>1. PICK m \in Modifications : c = Modification(m)
    BY <1>3
  <2>2. m # None /\ c.from = m /\ c.to = m
    BY <2>1, DiffAssumption DEF Modification
  <2> QED BY <2>1, <2>2 DEF Sides
<1> QED BY <1>1, <1>2, <1>3 DEF TreeChanges

\* Two changes of a path are the same change.
LEMMA ChangeOfPath ==
  ASSUME NEW c \in TreeChanges, NEW d \in TreeChanges, NEW x, x \in Sides(c), x \in Sides(d)
  PROVE  c = d /\ Sides(c) = {x}
<1>1. c \in TreeChanges /\ d \in TreeChanges
  OBVIOUS
<1>2. \/ c.from \in Deletions /\ x = c.from /\ c = Deletion(x)
      \/ c.to \in Additions /\ x = c.to /\ c = Addition(x)
      \/ c.from \in Modifications /\ x = c.from /\ c = Modification(x)
  BY ChangeHas
<1>3. \/ d.from \in Deletions /\ x = d.from /\ d = Deletion(x)
      \/ d.to \in Additions /\ x = d.to /\ d = Addition(x)
      \/ d.from \in Modifications /\ x = d.from /\ d = Modification(x)
  BY ChangeHas
<1>4. c = d
  BY <1>2, <1>3, DiffAssumption
<1>5. Sides(c) = {x}
  BY ChangeHas
<1> QED BY <1>4, <1>5

\* A renamed file has two paths, of which one was deleted and one added.
LEMMA PairHas ==
  ASSUME NEW p \in Pairs
  PROVE  /\ p.from \in Deletions /\ p.to \in Additions
         /\ Sides(p) = {p.from, p.to} /\ p.from # p.to
         /\ Cardinality(Sides(p)) = 2
<1>1. p.from \in Deletions /\ p.to \in Additions
  BY DEF Pairs
<1>2. p.from # p.to /\ p.from # None /\ p.to # None
  BY <1>1, DiffAssumption
<1>3. Sides(p) = {p.from, p.to}
  BY <1>2 DEF Sides
<1>4. Cardinality({p.from, p.to}) = 2
  <2>1. IsFiniteSet({p.from}) /\ Cardinality({p.from}) = 1
    BY FS_Singleton
  <2>2. Cardinality({p.from} \cup {p.to}) = Cardinality({p.from}) + 1
    BY <1>2, <2>1, FS_AddElement
  <2>3. {p.from} \cup {p.to} = {p.from, p.to}
    OBVIOUS
  <2> QED BY <2>1, <2>2, <2>3
<1> QED BY <1>1, <1>2, <1>3, <1>4

\* The pairs among some changes are of a deletion and an addition among them,
\* no path is in two of them, and they replace the changes they are made of.
LEMMA PairsOfHas ==
  ASSUME similar \in Seq(Pairs), NEW cs
  PROVE  /\ PairsOf(cs) \subseteq Pairs
         /\ \A p \in PairsOf(cs) : p.from \in Dels(cs) /\ p.to \in Adds(cs)
         /\ \A p, q \in PairsOf(cs) : p.from = q.from \/ p.to = q.to => p = q
         /\ DetectRenames(cs) =
              {c \in cs : \/ None \notin {c.from, c.to}
                          \/ Sides(c) \cap Touched(PairsOf(cs)) = {}} \cup PairsOf(cs)
<1>1. DetectRenames(cs) =
        {c \in cs : \/ None \notin {c.from, c.to}
                    \/ Sides(c) \cap Touched(PairsOf(cs)) = {}} \cup PairsOf(cs)
  BY Zenon DEF DetectRenames, PairsOf, Dels, Adds
<1> QED BY <1>1, PairedIs DEF PairsOf

\* The candidates are changes, have what was selected, and every deletion if an
\* addition was selected, every addition if a deletion was.
LEMMA CandidatesHave ==
  ASSUME treeDiff \subseteq TreeChanges, NEW C, C = RenameCandidates(treeDiff)
  PROVE  /\ C \subseteq treeDiff /\ FilterChanges(treeDiff) \subseteq C
         /\ Dels(C) \subseteq Dels(treeDiff) /\ Adds(C) \subseteq Adds(treeDiff)
         /\ filters = {} => C = treeDiff
         /\ (\E c \in treeDiff : c.from = None /\ Matches(c)) => Dels(C) = Dels(treeDiff)
         /\ (\E c \in treeDiff : c.to = None /\ Matches(c)) => Adds(C) = Adds(treeDiff)
<1> DEFINE sel == FilterChanges(treeDiff)
<1>1. sel \subseteq treeDiff /\ (filters = {} => sel = treeDiff)
      /\ \A c \in treeDiff : Matches(c) => c \in sel
  BY DEF FilterChanges
<1>2. C = sel \cup {c \in treeDiff : \/ (\E s \in sel : s.to = None) /\ c.from = None
                                     \/ (\E s \in sel : s.from = None) /\ c.to = None}
  BY DEF RenameCandidates
<1> HIDE DEF sel
<1>3. C \subseteq treeDiff /\ sel \subseteq C /\ (filters = {} => C = treeDiff)
  BY <1>1, <1>2
<1>4. Dels(C) \subseteq Dels(treeDiff) /\ Adds(C) \subseteq Adds(treeDiff)
  BY <1>3 DEF Dels, Adds
<1>5. ASSUME NEW c \in treeDiff, c.from = None, Matches(c) PROVE Dels(treeDiff) \subseteq Dels(C)
  <2>1. \A d \in treeDiff : d.to = None => d \in C
    BY <1>1, <1>2, <1>5
  <2> QED BY <2>1 DEF Dels
<1>6. ASSUME NEW c \in treeDiff, c.to = None, Matches(c) PROVE Adds(treeDiff) \subseteq Adds(C)
  <2>1. \A d \in treeDiff : d.from = None => d \in C
    BY <1>1, <1>2, <1>6
  <2> QED BY <2>1 DEF Adds
<1> QED BY <1>3, <1>4, <1>5, <1>6 DEF sel

\* What is asked for is in the changes that are left, in one of them.
LEMMA WantedOnce ==
  ASSUME treeDiff \subseteq TreeChanges, similar \in Seq(Pairs), NEW C, C = RenameCandidates(treeDiff),
         NEW x \in Wanted
  PROVE  /\ \E c \in treeDiff : x \in Sides(c)
         /\ Cardinality({c \in FilterChanges(DetectRenames(C)) : x \in Sides(c)}) = 1
<1> DEFINE R == PairsOf(C)
<1> DEFINE L == FilterChanges(DetectRenames(C))
<1> DEFINE kept == {c \in C : None \notin {c.from, c.to} \/ Sides(c) \cap Touched(R) = {}}
<1>1. /\ R \subseteq Pairs /\ DetectRenames(C) = kept \cup R
      /\ \A p, q \in R : p.from = q.from \/ p.to = q.to => p = q
  BY PairsOfHas
<1>2. C \subseteq TreeChanges /\ FilterChanges(treeDiff) \subseteq C
  BY CandidatesHave
<1>3. PICK c \in treeDiff : x \in Sides(c)
  BY DEF Wanted, Touched
<1>4. filters = {} \/ x \in filters
  BY DEF Wanted
<1>5. \A y : x \in Sides(y) => filters = {} \/ Matches(y)
  BY <1>4 DEF Matches
<1>6. c \in C /\ Sides(c) = {x}
  <2>1. c \in FilterChanges(treeDiff)
    BY <1>3, <1>5 DEF FilterChanges
  <2>2. Sides(c) = {x}
    BY <1>3, ChangeOfPath
  <2> QED BY <1>2, <2>1, <2>2
<1>7. \A y \in kept \cup R : x \in Sides(y) => y \in L
  BY <1>1, <1>5 DEF FilterChanges
<1>8. \E y \in L : x \in Sides(y)
  <2>1. CASE c \in kept
    BY <1>6, <1>7, <2>1
  <2>2. CASE c \notin kept
    <3>1. Sides(c) \cap Touched(R) # {}
      BY <1>6, <2>2
    <3>2. PICK q \in R : x \in Sides(q)
      BY <1>6, <3>1 DEF Touched
    <3> QED BY <1>7, <3>2
  <2> QED BY <2>1, <2>2
<1>9. \A y \in R : x \in Sides(y) => x \in Deletions \cup Additions
  BY <1>1, PairHas
<1>10. \A y \in kept : \A z \in R : x \in Sides(y) => x \notin Sides(z)
  <2> SUFFICES ASSUME NEW y \in kept, NEW z \in R, x \in Sides(y), x \in Sides(z) PROVE FALSE
    OBVIOUS
  <2>1. x \in Touched(R)
    BY DEF Touched
  <2>2. None \notin {y.from, y.to} /\ y \in TreeChanges
    BY <1>2, <2>1
  <2>3. x \in Modifications
    BY <2>2, ChangeHas
  <2> QED BY <1>9, <2>3, DiffAssumption
<1>11. \A y, z \in R : x \in Sides(y) /\ x \in Sides(z) => y = z
  <2> SUFFICES ASSUME NEW y \in R, NEW z \in R, x \in Sides(y), x \in Sides(z) PROVE y = z
    OBVIOUS
  <2>1. x \in {y.from, y.to} /\ x \in {z.from, z.to}
    BY <1>1, PairHas
  <2>2. /\ y.from \in Deletions /\ y.to \in Additions
        /\ z.from \in Deletions /\ z.to \in Additions
    BY <1>1, PairHas
  <2>3. y.from = z.from \/ y.to = z.to
    BY <2>1, <2>2, DiffAssumption
  <2> QED BY <1>1, <2>3
<1>12. \A y, z \in kept : x \in Sides(y) /\ x \in Sides(z) => y = z
  BY <1>2, ChangeOfPath
<1>13. L \subseteq kept \cup R
  BY <1>1 DEF FilterChanges
<1> HIDE DEF L, kept, R
<1>14. PICK y \in L : {z \in L : x \in Sides(z)} = {y}
  <2>1. PICK y \in L : x \in Sides(y)
    BY <1>8
  <2>2. \A z \in L : x \in Sides(z) => z = y
    BY <1>10, <1>11, <1>12, <1>13, <2>1
  <2>3. {z \in L : x \in Sides(z)} = {y}
    BY <2>1, <2>2
  <2> QED BY <2>3
<1>15. Cardinality({z \in L : x \in Sides(z)}) = 1
  BY <1>14, FS_Singleton
<1> QED BY <1>3, <1>15 DEF L

-----------------------------------------------------------------------------
\* What is left of the whole diff.

\* What is left has a side that is asked for.
LEMMA LeftIsWanted ==
  ASSUME treeDiff \subseteq TreeChanges, similar \in Seq(Pairs), NEW C, C = RenameCandidates(treeDiff),
         NEW c \in FilterChanges(DetectRenames(C))
  PROVE  Sides(c) \cap Wanted # {}
<1> DEFINE kept == {d \in C : None \notin {d.from, d.to} \/ Sides(d) \cap Touched(PairsOf(C)) = {}}
<1>1. /\ C \subseteq treeDiff
      /\ Dels(C) \subseteq Dels(treeDiff) /\ Adds(C) \subseteq Adds(treeDiff)
  BY CandidatesHave
<1>2. /\ PairsOf(C) \subseteq Pairs /\ DetectRenames(C) = kept \cup PairsOf(C)
      /\ \A p \in PairsOf(C) : p.from \in Dels(C) /\ p.to \in Adds(C)
  BY PairsOfHas
<1>3. c \in kept \cup PairsOf(C) /\ (filters = {} \/ Matches(c))
  BY <1>2 DEF FilterChanges
<1>4. Sides(c) # {} /\ Sides(c) \subseteq Touched(treeDiff)
  <2>1. CASE c \in kept
    <3>1. c \in treeDiff /\ c \in TreeChanges
      BY <1>1, <2>1
    <3>2. Sides(c) # {}
      BY <3>1, ChangeHas
    <3> QED BY <3>1, <3>2 DEF Touched
  <2>2. CASE c \in PairsOf(C)
    <3>1. c \in Pairs /\ c.from \in Dels(treeDiff) /\ c.to \in Adds(treeDiff)
      BY <1>1, <1>2, <2>2
    <3>2. PICK d \in treeDiff : d.to = None /\ d.from = c.from
      BY <3>1 DEF Dels
    <3>3. PICK a \in treeDiff : a.from = None /\ a.to = c.to
      BY <3>1 DEF Adds
    <3>4. Sides(c) = {c.from, c.to} /\ c.from # None /\ c.to # None
      BY <3>1, PairHas, DiffAssumption
    <3>5. c.from \in Sides(d) /\ c.to \in Sides(a)
      BY <3>2, <3>3, <3>4 DEF Sides
    <3> QED BY <3>4, <3>5 DEF Touched
  <2> QED BY <1>3, <2>1, <2>2
<1>5. CASE filters = {}
  BY <1>4, <1>5 DEF Wanted
<1>6. CASE filters # {}
  BY <1>3, <1>4, <1>6 DEF Wanted, Matches
<1> QED BY <1>5, <1>6

\* Of the whole pull request's diff, only a pair has two sides.
LEMMA RenamedIsPair ==
  ASSUME treeDiff \subseteq TreeChanges, similar \in Seq(Pairs),
         NEW c \in DetectRenames(treeDiff), Cardinality(Sides(c)) = 2
  PROVE  c \in PairsOf(treeDiff)
<1>1. ASSUME c \in treeDiff PROVE FALSE
  <2>1. c \in TreeChanges
    BY <1>1
  <2>2. PICK x : Sides(c) = {x}
    BY <2>1, ChangeHas
  <2>3. Cardinality(Sides(c)) = 1
    BY <2>2, FS_Singleton
  <2> QED BY <2>3
<1> QED BY <1>1, PairsOfHas

\* What the diff of the whole pull request calls renamed is called renamed.
LEMMA RenamedStays ==
  ASSUME treeDiff \subseteq TreeChanges, similar \in Seq(Pairs), NEW C, C = RenameCandidates(treeDiff),
         NEW c \in DetectRenames(treeDiff), Cardinality(Sides(c)) = 2,
         NEW x \in Wanted, x \in Sides(c)
  PROVE  \E d \in FilterChanges(DetectRenames(C)) : Cardinality(Sides(d)) = 2 /\ x \in Sides(d)
<1>1. CASE filters = {}
  <2>1. C = treeDiff
    BY <1>1, CandidatesHave
  <2> QED BY <1>1, <2>1 DEF FilterChanges
<1>2. CASE filters # {}
  <2>1. x \in filters
    BY <1>2 DEF Wanted
  <2>2. c \in PairsOf(treeDiff)
    BY RenamedIsPair
  <2>3. c \in Pairs /\ c.from \in Dels(treeDiff) /\ c.to \in Adds(treeDiff)
    BY <2>2, PairsOfHas
  <2>4. x \in {c.from, c.to} /\ c.from # None /\ c.to # None
    BY <2>3, PairHas, DiffAssumption
  <2>5. /\ FilterChanges(treeDiff) \subseteq C
        /\ Dels(C) \in SUBSET Dels(treeDiff) /\ Adds(C) \in SUBSET Adds(treeDiff)
        /\ (\E e \in treeDiff : e.from = None /\ Matches(e)) => Dels(C) = Dels(treeDiff)
        /\ (\E e \in treeDiff : e.to = None /\ Matches(e)) => Adds(C) = Adds(treeDiff)
    BY CandidatesHave
  <2>6. \A e : x \in Sides(e) => Matches(e)
    BY <2>1 DEF Matches
  <2>7. \E q \in PairsOf(C) : x \in Sides(q)
    <3>1. CASE x = c.from
      <4>1. PICK e \in treeDiff : e.to = None /\ e.from = x
        BY <2>3, <3>1 DEF Dels
      <4>2. x \in Sides(e)
        BY <2>4, <3>1, <4>1 DEF Sides
      <4>3. e \in C /\ Adds(C) = Adds(treeDiff)
        BY <2>5, <2>6, <4>1, <4>2 DEF FilterChanges
      <4>4. c.from \in Dels(C)
        BY <3>1, <4>1, <4>3 DEF Dels
      <4>5. \E q \in Paired(Dels(C), Adds(treeDiff)) : q.from = c.from
        BY <2>2, <2>5, <4>4, FewerSources DEF PairsOf
      <4>6. PICK q \in PairsOf(C) : q.from = x
        BY <3>1, <4>3, <4>5 DEF PairsOf
      <4> QED BY <2>4, <3>1, <4>6 DEF Sides
    <3>2. CASE x = c.to
      <4>1. PICK e \in treeDiff : e.from = None /\ e.to = x
        BY <2>3, <3>2 DEF Adds
      <4>2. x \in Sides(e)
        BY <2>4, <3>2, <4>1 DEF Sides
      <4>3. e \in C /\ Dels(C) = Dels(treeDiff)
        BY <2>5, <2>6, <4>1, <4>2 DEF FilterChanges
      <4>4. c.to \in Adds(C)
        BY <3>2, <4>1, <4>3 DEF Adds
      <4>5. \E q \in Paired(Dels(treeDiff), Adds(C)) : q.to = c.to
        BY <2>2, <2>5, <4>4, FewerTargets DEF PairsOf
      <4>6. PICK q \in PairsOf(C) : q.to = x
        BY <3>2, <4>3, <4>5 DEF PairsOf
      <4> QED BY <2>4, <3>2, <4>6 DEF Sides
    <3> QED BY <2>4, <3>1, <3>2
  <2>8. PICK q \in PairsOf(C) : x \in Sides(q)
    BY <2>7
  <2>9. q \in Pairs /\ q \in DetectRenames(C)
    BY PairsOfHas
  <2>10. Cardinality(Sides(q)) = 2
    BY <2>9, PairHas
  <2>11. q \in FilterChanges(DetectRenames(C))
    BY <2>6, <2>8, <2>9 DEF FilterChanges
  <2> QED BY <2>8, <2>10, <2>11
<1> QED BY <1>1, <1>2

\* If an addition and a deletion are selected, nothing is lost.
LEMMA SameFiles ==
  ASSUME treeDiff \subseteq TreeChanges, similar \in Seq(Pairs), NEW C, C = RenameCandidates(treeDiff),
         NEW a \in treeDiff, a.from = None, Matches(a),
         NEW d \in treeDiff, d.to = None, Matches(d)
  PROVE  FilterChanges(DetectRenames(C)) = FilterChanges(DetectRenames(treeDiff))
<1>1. /\ C \subseteq treeDiff /\ FilterChanges(treeDiff) \subseteq C
      /\ Dels(C) = Dels(treeDiff) /\ Adds(C) = Adds(treeDiff)
  BY CandidatesHave
<1>2. PairsOf(C) = PairsOf(treeDiff)
  BY <1>1 DEF PairsOf
<1> DEFINE R == PairsOf(treeDiff)
<1> DEFINE Stays(c) == None \notin {c.from, c.to} \/ Sides(c) \cap Touched(R) = {}
<1>3. /\ DetectRenames(C) = {c \in C : Stays(c)} \cup R
      /\ DetectRenames(treeDiff) = {c \in treeDiff : Stays(c)} \cup R
  <2>1. \A cs : DetectRenames(cs) =
          {c \in cs : \/ None \notin {c.from, c.to}
                      \/ Sides(c) \cap Touched(PairsOf(cs)) = {}} \cup PairsOf(cs)
    BY PairsOfHas
  <2> QED BY <1>2, <2>1
<1> HIDE DEF Stays, R
<1>4. CASE filters = {}
  BY <1>1, <1>3, <1>4 DEF FilterChanges
<1>5. CASE filters # {}
  <2>1. \A c \in treeDiff : Matches(c) => c \in C
    BY <1>1, <1>5 DEF FilterChanges
  <2>2. /\ FilterChanges(DetectRenames(C)) = {c \in {e \in C : Stays(e)} \cup R : Matches(c)}
        /\ FilterChanges(DetectRenames(treeDiff))
             = {c \in {e \in treeDiff : Stays(e)} \cup R : Matches(c)}
    BY <1>3, <1>5, Zenon DEF FilterChanges
  <2>3. {c \in {e \in C : Stays(e)} \cup R : Matches(c)}
          = {c \in {e \in treeDiff : Stays(e)} \cup R : Matches(c)}
    BY <1>1, <2>1
  <2> QED BY <2>2, <2>3
<1> QED BY <1>4, <1>5

-----------------------------------------------------------------------------
\* The invariant of a diff.

\* Only so many pairs can be similar.
LEMMA PairsFinite ==
  IsFiniteSet(Pairs)
<1> DEFINE S == Deletions \X Additions
<1> DEFINE f == [t \in S |-> [from |-> t[1], to |-> t[2]]]
<1>1. IsFiniteSet(S)
  BY FS_Product, DiffAssumption
<1>2. Pairs \subseteq {f[t] : t \in S}
  <2> SUFFICES ASSUME NEW p \in Pairs PROVE p \in {f[t] : t \in S}
    OBVIOUS
  <2>1. <<p.from, p.to>> \in S /\ f[<<p.from, p.to>>] = p
    BY DEF Pairs
  <2> HIDE DEF f, S
  <2> QED BY <2>1
<1> HIDE DEF f
<1>3. IsFiniteSet({f[t] : t \in S})
  <2>1. DOMAIN f = S
    BY DEF f
  <2> HIDE DEF S
  <2> QED BY <1>1, <2>1, FiniteImage
<1> QED BY <1>2, <1>3, FS_Subset

\* And only so many paths can change.
LEMMA ChangesFinite ==
  IsFiniteSet(TreeChanges)
<1> DEFINE d == [x \in Deletions |-> Deletion(x)]
<1> DEFINE a == [x \in Additions |-> Addition(x)]
<1> DEFINE m == [x \in Modifications |-> Modification(x)]
<1>1. /\ {Deletion(x) : x \in Deletions} = {d[x] : x \in Deletions} /\ DOMAIN d = Deletions
      /\ {Addition(x) : x \in Additions} = {a[x] : x \in Additions} /\ DOMAIN a = Additions
      /\ {Modification(x) : x \in Modifications} = {m[x] : x \in Modifications}
      /\ DOMAIN m = Modifications
  OBVIOUS
<1> HIDE DEF d, a, m
<1>2. /\ IsFiniteSet({Deletion(x) : x \in Deletions})
      /\ IsFiniteSet({Addition(x) : x \in Additions})
      /\ IsFiniteSet({Modification(x) : x \in Modifications})
  <2>1. IsFiniteSet({d[x] : x \in Deletions})
    BY <1>1, FiniteImage, DiffAssumption
  <2>2. IsFiniteSet({a[x] : x \in Additions})
    BY <1>1, FiniteImage, DiffAssumption
  <2>3. IsFiniteSet({m[x] : x \in Modifications})
    BY <1>1, FiniteImage, DiffAssumption
  <2> QED BY <1>1, <2>1, <2>2, <2>3
<1> QED BY <1>2, FS_Union DEF TreeChanges

\* What is left is finite.
LEMMA LeftFinite ==
  ASSUME treeDiff \subseteq TreeChanges, similar \in Seq(Pairs), NEW C, C = RenameCandidates(treeDiff)
  PROVE  IsFiniteSet(FilterChanges(DetectRenames(C)))
<1>1. C \subseteq TreeChanges
  BY CandidatesHave
<1>2. DetectRenames(C) \subseteq C \cup Pairs
  <2>1. /\ PairsOf(C) \subseteq Pairs
        /\ DetectRenames(C) = {c \in C : \/ None \notin {c.from, c.to}
                                         \/ Sides(c) \cap Touched(PairsOf(C)) = {}} \cup PairsOf(C)
    BY PairsOfHas
  <2> QED BY <2>1
<1>3. FilterChanges(DetectRenames(C)) \subseteq TreeChanges \cup Pairs
  BY <1>1, <1>2 DEF FilterChanges
<1>4. IsFiniteSet(TreeChanges \cup Pairs)
  BY ChangesFinite, PairsFinite, FS_Union
<1> QED BY <1>3, <1>4, FS_Subset

-----------------------------------------------------------------------------
\* The bytes of the patches of the files that are listed.
Shown == SumFunction([c \in listed |-> Bytes(patch[c])])

\* The changes that are left of the candidates.
Left == FilterChanges(DetectRenames(RenameCandidates(treeDiff)))

\* What a diff was asked about.
AskedRight ==
  /\ treeDiff \subseteq TreeChanges /\ similar \in Seq(Pairs)
  /\ maxBytes \in Nat \ {0}

\* headChanges at each step.
WorkRight ==
  /\ doing \in {"compare", "select"} => work = treeDiff
  /\ doing = "detect" => work = RenameCandidates(treeDiff)
  /\ doing \in {"render", "done"} => work = Left /\ patch \in [work -> Patches]
  /\ doing # "compare" => inConflict = Touched(treeDiff) \cap baseSide

\* Until the last line is made whole, the output is full once it is truncated.
OutputRight ==
  /\ output.lines \in Seq(Nat) /\ output.bytes \in Nat /\ output.partial \in Nat
  /\ output.truncated \in BOOLEAN
  /\ ~output.truncated => /\ output.partial = 0 /\ output.bytes = Bytes(output.lines)
                          /\ output.bytes = Shown /\ output.bytes <= maxBytes
  /\ output.truncated => /\ Shown > maxBytes /\ output.bytes = maxBytes
                         /\ Bytes(output.lines) + output.partial = maxBytes

\* And a diff that is done has whole lines.
DoneRight ==
  /\ listed = work
  /\ output.bytes = Bytes(output.lines) /\ output.bytes <= maxBytes
  /\ output.truncated <=> Shown > maxBytes
  /\ ~output.truncated => output.bytes = Shown

DiffInv ==
  /\ doing \in {"compare", "select", "detect", "render", "done", "tooLarge"}
  /\ AskedRight /\ WorkRight
  /\ doing \in {"compare", "select", "detect"} =>
       /\ listed = {}
       /\ output = [lines |-> <<>>, bytes |-> 0, partial |-> 0, truncated |-> FALSE]
  /\ doing = "render" => listed \subseteq work /\ OutputRight
  /\ doing = "done" => DoneRight

-----------------------------------------------------------------------------
\* A file more adds the bytes of its patch.
LEMMA ShownNext ==
  ASSUME DiffInv, doing = "render", NEW c \in work \ listed,
         listed' = listed \cup {c}, patch' = patch
  PROVE  /\ Shown \in Nat /\ Bytes(patch[c]) \in Nat /\ patch[c] \in Seq(Nat)
         /\ Shown' = Shown + Bytes(patch[c])
<1> DEFINE f == [x \in listed \cup {c} |-> Bytes(patch[x])]
<1> DEFINE g == [x \in listed |-> Bytes(patch[x])]
<1>1. /\ IsFiniteSet(work) /\ listed \subseteq work /\ patch \in [work -> Patches]
  BY LeftFinite DEF DiffInv, WorkRight, AskedRight, Left
<1>2. \A x \in work : patch[x] \in Seq(Nat) /\ Bytes(patch[x]) \in Nat
  BY <1>1, BytesType, DiffAssumption
<1>3. IsFiniteSet(listed) /\ c \notin listed
  BY <1>1, FS_Subset
<1>4. /\ f \in [listed \cup {c} -> Nat] /\ g \in [listed -> Nat]
      /\ \A x \in listed : g[x] = f[x]
      /\ f[c] = Bytes(patch[c])
  BY <1>1, <1>2
<1>5. DOMAIN f = listed \cup {c} /\ DOMAIN g = listed
  OBVIOUS
<1>6. Shown = SumFunction(g) /\ Shown' = SumFunction(f)
  BY DEF Shown
<1> HIDE DEF f, g
<1>7. /\ SumFunction(g) = SumFcn(g, listed)[listed]
      /\ SumFunction(f) = SumFcn(f, listed \cup {c})[listed \cup {c}]
  BY <1>5, FunctionSum, Zenon
<1>8. SumFcn(f, listed \cup {c})[listed \cup {c}] = SumFcn(g, listed)[listed] + f[c]
  <2>1. listed \cup {c} = listed \cup {c}
    OBVIOUS
  <2> QED BY <1>3, <1>4, <2>1, SumWithLast, SMT
<1>9. SumFcn(g, listed)[listed] \in Nat
  BY <1>3, <1>4, SumType
<1> QED BY <1>2, <1>4, <1>6, <1>7, <1>8, <1>9

-----------------------------------------------------------------------------
\* A diff starts with the changes of the trees and no text.
LEMMA DiffStarts ==
  DiffInit => DiffInv
<1> SUFFICES ASSUME DiffInit PROVE DiffInv
  OBVIOUS
<1>1. treeDiff \subseteq TreeChanges
  <2>1. PICK ds \in SUBSET Deletions, as \in SUBSET Additions, ms \in SUBSET Modifications :
          treeDiff = {[from |-> d, to |-> None] : d \in ds}
                     \cup {[from |-> None, to |-> a] : a \in as}
                     \cup {[from |-> m, to |-> m] : m \in ms}
    BY DEF DiffInit
  <2> QED BY <2>1 DEF TreeChanges, Deletion, Addition, Modification
<1>2. similar \in Seq(Pairs)
  <2>1. PICK ps \in SUBSET {p \in Pairs : Sides(p) \subseteq Touched(treeDiff)} :
          similar \in SetToSeqs(ps)
    BY DEF DiffInit
  <2>2. ps \subseteq Pairs /\ similar \in [1..Cardinality(ps) -> ps]
    BY <2>1 DEF SetToSeqs
  <2>3. Cardinality(ps) \in Nat
    BY <2>2, PairsFinite, FS_Subset, FS_CardinalityType
  <2> QED BY <2>2, <2>3
<1>3. maxBytes \in Nat \ {0}
  BY DiffAssumption DEF DiffInit
<1> QED BY <1>1, <1>2, <1>3 DEF DiffInit, DiffInv, AskedRight, WorkRight

\* What fits is written, the rest is cut.
LEMMA WriteRight ==
  ASSUME DiffInv, doing = "render", ~output.truncated, NEW p \in Seq(Nat), NEW o, o = Write(p)
  PROVE  /\ o.lines \in Seq(Nat) /\ o.bytes \in Nat /\ o.partial \in Nat /\ o.truncated \in BOOLEAN
         /\ ~o.truncated => /\ o.partial = 0 /\ o.bytes = Bytes(o.lines)
                            /\ o.bytes = Shown + Bytes(p) /\ o.bytes <= maxBytes
         /\ o.truncated => /\ Shown + Bytes(p) > maxBytes /\ o.bytes = maxBytes
                           /\ Bytes(o.lines) + o.partial = maxBytes
<1> DEFINE room == maxBytes - output.bytes
<1> DEFINE Fitting == {i \in 0..Len(p) : Bytes(SubSeq(p, 1, i)) <= room}
<1>1. /\ maxBytes \in Nat /\ maxBytes # 0
      /\ output.lines \in Seq(Nat) /\ output.bytes \in Nat /\ output.partial = 0
      /\ output.bytes = Bytes(output.lines) /\ output.bytes = Shown /\ output.bytes <= maxBytes
  BY DEF DiffInv, AskedRight, OutputRight
<1>2. Bytes(p) \in Nat /\ room \in Nat
  BY <1>1, BytesType
<1>3. CASE Bytes(p) <= room
  <2>1. o = [lines |-> output.lines \o p, bytes |-> output.bytes + Bytes(p),
             partial |-> output.partial, truncated |-> output.truncated]
    BY <1>3 DEF Write
  <2>2. output.lines \o p \in Seq(Nat)
    BY <1>1
  <2>3. Bytes(output.lines \o p) = Bytes(output.lines) + Bytes(p)
    BY <1>1, BytesConcat
  <2>4. /\ o.lines = output.lines \o p /\ o.bytes = output.bytes + Bytes(p)
        /\ o.partial = 0 /\ o.truncated = output.truncated
    BY <1>1, <2>1
  <2>5. o.truncated \in BOOLEAN /\ ~o.truncated
    <3>1. output.truncated \in BOOLEAN
      BY DEF DiffInv, OutputRight
    <3> QED BY <2>4, <3>1, Zenon
  <2>6. o.bytes \in Nat /\ o.bytes = Shown + Bytes(p) /\ o.bytes <= maxBytes
    BY <1>1, <1>2, <1>3, <2>4
  <2>7. o.bytes = Bytes(o.lines) /\ o.lines \in Seq(Nat)
    BY <1>1, <2>2, <2>3, <2>4
  <2>8. o.partial \in Nat /\ o.partial = 0
    BY <2>4
  <2> QED BY <2>5, <2>6, <2>7, <2>8, Zenon
<1>4. CASE ~(Bytes(p) <= room)
  <2> DEFINE k == Max(Fitting)
  <2> DEFINE start == SubSeq(p, 1, k)
  <2>1. k \in Fitting
    <3>1. Fitting \in SUBSET Nat /\ Len(p) \in Nat /\ \A x \in Fitting : x <= Len(p)
      OBVIOUS
    <3>2. 0 \in Fitting
      <4>1. SubSeq(p, 1, 0) = <<>>
        OBVIOUS
      <4>2. Bytes(SubSeq(p, 1, 0)) = 0
        BY <4>1, BytesType
      <4>3. 0 \in 0..Len(p) /\ 0 <= room
        BY <1>2, <3>1
      <4> HIDE DEF room
      <4> QED BY <4>2, <4>3
    <3> HIDE DEF Fitting
    <3>3. Fitting # {}
      BY <3>2
    <3> QED BY <3>1, <3>3, MaxIs, Zenon
  <2>2. start \in Seq(Nat) /\ Bytes(start) <= room
    <3> HIDE DEF k
    <3> QED BY <2>1
  <2>3. o = [lines |-> output.lines \o start, bytes |-> maxBytes,
             partial |-> room - Bytes(start), truncated |-> TRUE]
    BY <1>1, <1>4, Zenon DEF Write
  <2> HIDE DEF start
  <2>4. /\ o.lines = output.lines \o start /\ o.bytes = maxBytes
        /\ o.partial = room - Bytes(start)
    BY <2>3
  <2>5. output.lines \o start \in Seq(Nat) /\ Bytes(start) \in Nat
    BY <1>1, <2>2, BytesType
  <2>6. Bytes(output.lines \o start) = Bytes(output.lines) + Bytes(start)
    BY <1>1, <2>2, BytesConcat
  <2> HIDE DEF Fitting, k
  <2>7. Bytes(o.lines) + o.partial = maxBytes /\ o.partial \in Nat
    <3>1. Bytes(o.lines) = Bytes(output.lines) + Bytes(start)
      BY <2>4, <2>6, Zenon
    <3>2. Bytes(o.lines) = output.bytes + Bytes(start)
      BY <1>1, <3>1
    <3>3. o.partial = (maxBytes - output.bytes) - Bytes(start) /\ output.bytes \in Nat
          /\ maxBytes \in Nat /\ Bytes(start) \in Nat /\ Bytes(start) <= maxBytes - output.bytes
      BY <1>1, <2>2, <2>4, <2>5, Zenon
    <3> HIDE DEF room
    <3>4. \A m, b, s \in Nat : s <= m - b =>
            (m - b) - s \in Nat /\ (b + s) + ((m - b) - s) = m
      OBVIOUS
    <3>5. /\ (maxBytes - output.bytes) - Bytes(start) \in Nat
          /\ (output.bytes + Bytes(start)) + ((maxBytes - output.bytes) - Bytes(start)) = maxBytes
      BY <3>3, <3>4
    <3> QED BY <3>2, <3>3, <3>5, Zenon
  <2>8. Shown + Bytes(p) > maxBytes
    BY <1>1, <1>2, <1>4
  <2>9. o.lines \in Seq(Nat) /\ o.bytes \in Nat /\ o.bytes = maxBytes
    BY <1>1, <2>4, <2>5
  <2>10. o.truncated \in BOOLEAN /\ o.truncated
    BY <2>3
  <2> QED BY <2>7, <2>8, <2>9, <2>10, Zenon
<1> QED BY <1>3, <1>4

\* With every file the text grows by its patch, up to the limit.
LEMMA RenderKeeps ==
  DiffInv /\ Render => DiffInv'
<1> SUFFICES ASSUME DiffInv, Render PROVE DiffInv'
  OBVIOUS
<1>1. /\ doing = "render" /\ work # listed /\ listed \subseteq work /\ OutputRight
      /\ AskedRight /\ WorkRight /\ maxBytes \in Nat /\ output.truncated \in BOOLEAN
  BY DEF Render, DiffInv, OutputRight, AskedRight
<1>2. PICK c \in work \ listed :
        /\ listed' = listed \cup {c}
        /\ output' = IF output.truncated THEN output ELSE Write(patch[c])
  <2>1. \E x : x \in work \ listed
    BY <1>1
  <2>2. (CHOOSE x \in work \ listed : TRUE) \in work \ listed
    BY <2>1
  <2> QED BY <2>2 DEF Render
<1>3. /\ UNCHANGED <<treeDiff, similar, baseSide, filters, maxBytes>>
      /\ UNCHANGED <<doing, work, inConflict, patch>>
  BY DEF Render, pullInput
<1>4. /\ Shown \in Nat /\ Bytes(patch[c]) \in Nat /\ patch[c] \in Seq(Nat)
      /\ Shown' = Shown + Bytes(patch[c])
  BY <1>1, <1>2, <1>3, ShownNext
<1>5. OutputRight'
  <2>1. CASE output.truncated
    <3>1. output' = output
      BY <1>2, <2>1
    <3>2. Shown' > maxBytes
      <4>1. Shown > maxBytes /\ maxBytes \in Nat
        BY <1>1, <2>1 DEF OutputRight
      <4> QED BY <1>4, <4>1
    <3>3. Bytes(output.lines)' = Bytes(output.lines)
      BY <3>1 DEF Bytes
    <3> QED BY <1>1, <1>3, <2>1, <3>1, <3>2, <3>3, Zenon DEF OutputRight
  <2>2. CASE ~output.truncated
    <3> DEFINE o == Write(patch[c])
    <3>1. output' = o
      BY <1>2, <2>2
    <3>2. /\ o.lines \in Seq(Nat) /\ o.bytes \in Nat /\ o.partial \in Nat /\ o.truncated \in BOOLEAN
          /\ ~o.truncated => /\ o.partial = 0 /\ o.bytes = Bytes(o.lines)
                             /\ o.bytes = Shown + Bytes(patch[c]) /\ o.bytes <= maxBytes
          /\ o.truncated => /\ Shown + Bytes(patch[c]) > maxBytes /\ o.bytes = maxBytes
                            /\ Bytes(o.lines) + o.partial = maxBytes
      <4> HIDE DEF o
      <4>1. \A x \in Seq(Nat) : \A y : y = Write(x) =>
              /\ y.lines \in Seq(Nat) /\ y.bytes \in Nat /\ y.partial \in Nat
              /\ y.truncated \in BOOLEAN
              /\ ~y.truncated => /\ y.partial = 0 /\ y.bytes = Bytes(y.lines)
                                 /\ y.bytes = Shown + Bytes(x) /\ y.bytes <= maxBytes
              /\ y.truncated => /\ Shown + Bytes(x) > maxBytes /\ y.bytes = maxBytes
                                /\ Bytes(y.lines) + y.partial = maxBytes
        BY <1>1, <2>2, WriteRight
      <4> QED BY <1>4, <4>1 DEF o
    <3> HIDE DEF o
    <3>3. \A s : s' = s' /\ Bytes(s) = Bytes(s)
      OBVIOUS
    <3> QED BY <1>3, <1>4, <3>1, <3>2 DEF OutputRight, Bytes
  <2> QED BY <1>1, <2>1, <2>2
<1>6. AskedRight' /\ WorkRight'
  <2>1. Left' = Left
    BY <1>3 DEF Left, FilterChanges, DetectRenames, RenameCandidates, Paired, Touched, Sides, Matches
  <2> QED BY <1>1, <1>3, <2>1 DEF AskedRight, WorkRight
<1>7. listed' \subseteq work'
  BY <1>1, <1>2, <1>3
<1> QED BY <1>1, <1>3, <1>5, <1>6, <1>7 DEF DiffInv

\* The other steps take the selection on and leave the text as it is, but for the
\* last, which takes the partial line away.
LEMMA OtherStepsKeep ==
  DiffInv /\ (CompareSides \/ Select \/ Detect \/ Finish) => DiffInv'
<1> SUFFICES ASSUME DiffInv, CompareSides \/ Select \/ Detect \/ Finish PROVE DiffInv'
  OBVIOUS
<1>1. UNCHANGED <<treeDiff, similar, baseSide, filters, maxBytes>>
  BY DEF CompareSides, Select, Detect, Finish, pullInput
<1>2. AskedRight /\ AskedRight' /\ WorkRight
  BY <1>1 DEF DiffInv, AskedRight
<1>3. Left' = Left /\ RenameCandidates(treeDiff)' = RenameCandidates(treeDiff)
  BY <1>1 DEF Left, FilterChanges, DetectRenames, RenameCandidates, Paired, Touched, Sides, Matches
<1>4. CASE CompareSides
  <2>1. /\ doing = "compare" /\ doing' = "select" /\ work = treeDiff
        /\ inConflict' = Touched(work) \cap baseSide
        /\ UNCHANGED <<work, patch, listed, output>>
    BY <1>2, <1>4 DEF CompareSides, WorkRight
  <2>2. WorkRight'
    BY <1>1, <2>1 DEF WorkRight, Touched, Sides
  <2> QED BY <1>2, <2>1, <2>2 DEF DiffInv
<1>5. CASE Select
  <2>1. /\ doing = "select" /\ doing' \in {"detect", "tooLarge"} /\ work = treeDiff
        /\ work' = RenameCandidates(work)
        /\ inConflict = Touched(treeDiff) \cap baseSide
        /\ UNCHANGED <<inConflict, patch, listed, output>>
    BY <1>2, <1>5 DEF Select, WorkRight
  <2>2. (Touched(treeDiff) \cap baseSide)' = Touched(treeDiff) \cap baseSide
    BY <1>1 DEF Touched, Sides
  <2>3. WorkRight'
    BY <1>3, <2>1, <2>2 DEF WorkRight
  <2> QED BY <1>2, <2>1, <2>3 DEF DiffInv
<1>6. CASE Detect
  <2>1. /\ doing = "detect" /\ doing' = "render" /\ work = RenameCandidates(treeDiff)
        /\ work' = FilterChanges(DetectRenames(work)) /\ patch' \in [work' -> Patches]
        /\ inConflict = Touched(treeDiff) \cap baseSide
        /\ UNCHANGED <<inConflict, listed, output>>
    BY <1>2, <1>6 DEF Detect, WorkRight
  <2>2. (Touched(treeDiff) \cap baseSide)' = Touched(treeDiff) \cap baseSide
    BY <1>1 DEF Touched, Sides
  <2>3. WorkRight'
    BY <1>3, <2>1, <2>2 DEF WorkRight, Left
  <2>4. listed' = {} /\ output' = [lines |-> <<>>, bytes |-> 0, partial |-> 0, truncated |-> FALSE]
    BY <2>1 DEF DiffInv
  <2>5. Shown' = 0
    <3>1. listed' = {} => Shown' = 0
      <4> DEFINE g == [x \in listed' |-> Bytes(patch'[x])]
      <4> SUFFICES ASSUME listed' = {} PROVE Shown' = 0
        OBVIOUS
      <4>1. DOMAIN g = {} /\ IsFiniteSet({})
        BY FS_EmptySet
      <4>2. Shown' = SumFunction(g)
        BY DEF Shown, Bytes
      <4> HIDE DEF g
      <4> QED BY <4>1, <4>2, FunctionSum, SumEquation, Zenon
    <3> QED BY <2>4, <3>1
  <2>6. OutputRight'
    <3>1. Bytes(output.lines)' = 0 /\ output.lines' \in Seq(Nat)
      <4>1. output'.lines = <<>>
        BY <2>4
      <4>2. Bytes(<<>>) = 0
        <5>1. <<>> \in Seq(Nat)
          OBVIOUS
        <5> QED BY <5>1, BytesType
      <4> QED BY <4>1, <4>2 DEF Bytes
    <3>2. maxBytes' \in Nat
      BY <1>2 DEF AskedRight
    <3> QED BY <2>4, <2>5, <3>1, <3>2 DEF OutputRight
  <2> QED BY <1>2, <2>1, <2>3, <2>4, <2>6 DEF DiffInv
<1>7. CASE Finish
  <2>1. /\ doing = "render" /\ doing' = "done" /\ work = listed
        /\ output' = [lines |-> output.lines, bytes |-> output.bytes - output.partial,
                      partial |-> 0, truncated |-> output.truncated]
        /\ UNCHANGED <<work, inConflict, patch, listed>>
    BY <1>7 DEF Finish
  <2>2. OutputRight /\ maxBytes \in Nat
    BY <1>2, <2>1 DEF DiffInv, AskedRight
  <2>3. Shown' = Shown /\ Bytes(output.lines)' = Bytes(output.lines)
    BY <2>1 DEF Shown, Bytes
  <2>4. output'.lines = output.lines /\ output'.bytes = output.bytes - output.partial
        /\ output'.truncated = output.truncated
    BY <2>1
  <2>6. Bytes(output.lines) \in Nat
    BY <2>2, BytesType DEF OutputRight
  <2>7. DoneRight'
    BY <1>1, <2>1, <2>2, <2>3, <2>4, <2>6 DEF DoneRight, OutputRight
  <2>8. (Touched(treeDiff) \cap baseSide)' = Touched(treeDiff) \cap baseSide
    BY <1>1 DEF Touched, Sides
  <2>9. WorkRight'
    BY <1>2, <1>3, <2>1, <2>8 DEF WorkRight
  <2> QED BY <1>2, <2>1, <2>7, <2>9 DEF DiffInv
<1> QED BY <1>4, <1>5, <1>6, <1>7

-----------------------------------------------------------------------------
\* Every step preserves the invariant.
LEMMA DiffKeeps ==
  DiffInv /\ [DiffNext]_diffVars => DiffInv'
<1> SUFFICES ASSUME DiffInv, [DiffNext]_diffVars PROVE DiffInv'
  OBVIOUS
<1>1. CASE DiffNext
  BY <1>1, RenderKeeps, OtherStepsKeep DEF DiffNext
<1>2. CASE UNCHANGED diffVars
  <2>1. /\ UNCHANGED <<treeDiff, similar, baseSide, filters, maxBytes>>
        /\ UNCHANGED <<doing, work, inConflict, patch, listed, output>>
    BY <1>2 DEF diffVars, pullInput
  <2>2. /\ Left' = Left /\ RenameCandidates(treeDiff)' = RenameCandidates(treeDiff)
        /\ (Touched(treeDiff) \cap baseSide)' = Touched(treeDiff) \cap baseSide
    BY <2>1 DEF Left, FilterChanges, DetectRenames, RenameCandidates, Paired, Touched, Sides, Matches
  <2>3. Shown' = Shown /\ Bytes(output.lines)' = Bytes(output.lines)
    BY <2>1 DEF Shown, Bytes
  <2>4. OutputRight' = OutputRight /\ DoneRight' = DoneRight
    BY <2>1, <2>3 DEF OutputRight, DoneRight
  <2> QED BY <2>1, <2>2, <2>4 DEF DiffInv, AskedRight, WorkRight
<1> QED BY <1>1, <1>2

\* The invariant says what the diff promises.
LEMMA DiffInvImplies ==
  DiffInv => DiffIsOfTheSelection
<1> DEFINE Renamed(c) == Cardinality(Sides(c)) = 2
<1> DEFINE all == DetectRenames(treeDiff)
<1> SUFFICES ASSUME DiffInv, doing = "done"
             PROVE  /\ \A p \in Wanted : Cardinality({c \in listed : p \in Sides(c)}) = 1
                    /\ \A c \in listed : Sides(c) \cap Wanted # {}
                    /\ \A c \in all, p \in Wanted :
                         Renamed(c) /\ p \in Sides(c) =>
                           \E d \in listed : Renamed(d) /\ p \in Sides(d)
                    /\ (\E c, d \in treeDiff :
                          c.from = None /\ Matches(c) /\ d.to = None /\ Matches(d))
                         => listed = FilterChanges(all)
                    /\ inConflict = Touched(treeDiff) \cap baseSide
                    /\ output.bytes = Bytes(output.lines) /\ output.bytes <= maxBytes
                    /\ output.truncated <=> Shown > maxBytes
                    /\ ~output.truncated => output.bytes = Shown
  <2>1. doing = "done" /\ DiffInv => listed = work
    BY DEF DiffInv, DoneRight
  <2> QED BY <2>1, Zenon DEF DiffIsOfTheSelection, Wanted, Shown
<1>1. treeDiff \subseteq TreeChanges /\ similar \in Seq(Pairs) /\ WorkRight /\ DoneRight
  BY DEF DiffInv, AskedRight
<1>2. listed = FilterChanges(DetectRenames(RenameCandidates(treeDiff)))
  BY <1>1 DEF DoneRight, WorkRight, Left
<1>3. \A p \in Wanted : Cardinality({c \in listed : p \in Sides(c)}) = 1
  BY <1>1, <1>2, WantedOnce
<1>4. \A c \in listed : Sides(c) \cap Wanted # {}
  BY <1>1, <1>2, LeftIsWanted
<1>5. \A c \in all, p \in Wanted :
        Renamed(c) /\ p \in Sides(c) => \E d \in listed : Renamed(d) /\ p \in Sides(d)
  BY <1>1, <1>2, RenamedStays
<1>6. ASSUME NEW c \in treeDiff, NEW d \in treeDiff,
             c.from = None /\ Matches(c) /\ d.to = None /\ Matches(d)
      PROVE  listed = FilterChanges(all)
  BY <1>1, <1>2, <1>6, SameFiles
<1>7. inConflict = Touched(treeDiff) \cap baseSide
  BY <1>1 DEF WorkRight
<1> QED BY <1>1, <1>3, <1>4, <1>5, <1>6, <1>7 DEF DoneRight

\* The diff of a selection has what is asked for and what the diff of the whole
\* pull request has of it, whatever the trees, the filters, the order of the
\* similar pairs and the limits are (gitdiff.go:420, gitdiff.go:821).
THEOREM DiffIsExact == DiffSpec => []DiffIsOfTheSelection
<1>1. DiffInit => DiffInv
  BY DiffStarts
<1>2. DiffInv /\ [DiffNext]_diffVars => DiffInv'
  BY DiffKeeps
<1>3. DiffInv => DiffIsOfTheSelection
  BY DiffInvImplies
<1> QED BY <1>1, <1>2, <1>3, PTL DEF DiffSpec

=============================================================================
