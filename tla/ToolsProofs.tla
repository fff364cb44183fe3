---------------------------- MODULE ToolsProofs ----------------------------
(***************************************************************************)
(* The tools, for any constants that their assumptions allow.               *)
(*                                                                         *)
(* Paging, by an ID: the cursor divides the items; those on one side have   *)
(* been given, those on the other have not.  While pull requests are        *)
(* scanned, the refs still to be examined are the frontier, and the cursor  *)
(* becomes the last ref that was examined (CursorInv).                      *)
(* Paging, by a page number: an item was passed when those up to it fit on  *)
(* the pages before the cursor; while nothing is added what was given was   *)
(* passed, while nothing is removed what was passed was given (PagesInv).   *)
(* Contents: nothing is read before the commit is known, what is known was  *)
(* true at some time of the call, and others only add to what was true      *)
(* (OneCommitInv).                                                         *)
(* IssueTools: what was looked up holds what the answers gave and is still  *)
(* there or was once, and what is left to look up is the rest of what the   *)
(* input needs (IssueInv).                                                 *)
(* Output: what was returned is what comes before the next offset or line,  *)
(* and a result that is cut would become the same at the last limit as the  *)
(* one the handler returned (OutputInv).                                   *)
(***************************************************************************)
EXTENDS Tools, InductionLemmas, SequenceTheorems

-----------------------------------------------------------------------------
\* The caller of one tool sees what its module says, and the others stay as they
\* began: what follows of each module holds of all of them together (server.go
\* registers handlers that share no state but the client, the caches and the slots).
THEOREM ToolsAreApart ==
  ToolsSpec => PagingSpec /\ ContentsSpec /\ SearchSpec /\ Spec /\ DiffSpec /\ IssueSpec /\ OutputSpec
<1> DEFINE all == <<used, pagingVars, contentsVars, searchVars, vars, diffVars, issueVars, outputVars>>
<1>1. ToolsInit => /\ PagingInit /\ ContentsInit /\ SearchInit /\ Init
                   /\ DiffInit /\ IssueInit /\ OutputInit
  BY DEF ToolsInit
<1>2. [ToolsNext]_all => /\ [PagingNext]_pagingVars /\ [ContentsNext]_contentsVars
                         /\ [SearchNext]_searchVars /\ [Next]_vars /\ [DiffNext]_diffVars
                         /\ [IssueNext]_issueVars /\ [OutputNext]_outputVars
  BY DEF ToolsNext
<1> QED BY <1>1, <1>2, PTL
        DEF ToolsSpec, PagingSpec, ContentsSpec, SearchSpec, Spec, DiffSpec, IssueSpec,
           OutputSpec


-----------------------------------------------------------------------------
\* Paging: the lists that are continued by an ID.

\* What is kept is listed, and matches.
ServerInv ==
  /\ items \subseteq Items /\ kept \subseteq items
  /\ list = "pulls" => kept \subseteq shown \ missing

CommentsInv ==
  /\ reading \in {"idle", "end"}
  /\ cursor \in Nat
  /\ given \subseteq Items
  /\ repeated = {}
  /\ reading = "end" => kept \subseteq given
  /\ reading = "idle" => /\ \A c \in given : c <= cursor
                         /\ \A c \in kept : c <= cursor => c \in given

\* n comes after the cursor, in the order of list_pull_requests.
After(n) == cursor = 0 \/ n < cursor

ScanInv ==
  /\ refs \subseteq Items /\ \A n \in refs : After(n)
  /\ batch \subseteq Items /\ \A n \in batch : After(n)
  /\ kept \subseteq given \cup batch \cup refs
  /\ scanned = 0 => batch = {}
  /\ scanned # 0 => /\ examined \in Items /\ After(examined)
                    /\ \A n \in refs : n < examined
                    /\ \A n \in batch : n >= examined

PullsInv ==
  /\ reading \in {"idle", "scan", "end"}
  /\ cursor \in Nat /\ scanned \in Nat
  /\ given \subseteq Items
  /\ repeated = {}
  /\ reading = "end" => kept \subseteq given
  /\ reading # "end" => \A n \in given : ~After(n)
  /\ reading = "idle" => \A n \in kept : ~After(n) => n \in given
  /\ reading = "scan" => ScanInv

CursorInv ==
  /\ ServerInv
  /\ limit \in Limits
  /\ list = "comments" => CommentsInv
  /\ list = "pulls" => PullsInv

-----------------------------------------------------------------------------
\* A call of list_issue_comments returns the comments between the old cursor and
\* the new one, none of which was given before.
LEMMA CommentsCall ==
  ASSUME CursorInv, ListIssueComments
  PROVE  CommentsInv'
<1>1. /\ list = "comments" /\ reading = "idle" /\ CommentsInv
      /\ items \subseteq Items /\ Items \subseteq Nat
      /\ kept \subseteq items /\ kept' = kept
  BY DEF ListIssueComments, CursorInv, ServerInv, server, Items
<1> DEFINE rest == {c \in items : c > cursor}
<1>2. PICK s \in Within(rest, limit) :
        /\ Give(s)
        /\ IF s = rest
           THEN reading' = "end" /\ UNCHANGED cursor
           ELSE /\ cursor' \in s /\ \A c \in s : c <= cursor'
                /\ UNCHANGED reading
  BY DEF ListIssueComments
<1>3. s \subseteq rest /\ \A a \in s, b \in rest \ s : a < b
  BY <1>2 DEF Within
<1>4. given' = given \cup s /\ given' \subseteq Items /\ repeated' = {}
  BY <1>1, <1>2, <1>3 DEF Give, CommentsInv
<1>5. CASE s = rest
  BY <1>1, <1>2, <1>4, <1>5 DEF CommentsInv
<1>6. CASE s # rest
  <2>1. cursor' \in rest /\ cursor' \in Nat /\ cursor' > cursor /\ reading' = "idle"
    BY <1>1, <1>2, <1>3, <1>6 DEF CommentsInv
  <2>2. \A c \in given' : c <= cursor'
    BY <1>1, <1>2, <1>3, <1>4, <1>6, <2>1 DEF CommentsInv
  <2>3. ASSUME NEW c \in kept, c <= cursor' PROVE c \in given'
    <3>1. CASE c <= cursor
      BY <1>1, <1>4, <3>1 DEF CommentsInv
    <3>2. CASE ~(c <= cursor)
      <4>1. c \in rest
        BY <1>1, <3>2 DEF CommentsInv
      <4>2. c \in s
        BY <1>1, <1>2, <1>3, <1>6, <2>1, <2>3, <4>1
      <4> QED  BY <1>4, <4>2
    <3> QED  BY <3>1, <3>2
  <2> QED  BY <1>1, <1>4, <2>1, <2>2, <2>3 DEF CommentsInv
<1> QED  BY <1>5, <1>6

\* A new call of list_pull_requests has all that was not given before it.
LEMMA PullsCall ==
  ASSUME CursorInv, ListPullRefs
  PROVE  PullsInv'
<1>1. PullsInv /\ reading = "idle" /\ list = "pulls" /\ items \subseteq Items
      /\ kept \subseteq items /\ kept' = kept /\ given' = given
      /\ repeated' = repeated /\ cursor' = cursor
  BY DEF ListPullRefs, CursorInv, ServerInv, server, result
<1>2. /\ refs' = {n \in items : After(n)} /\ batch' = {} /\ scanned' = 0
      /\ reading' = "scan"
  BY DEF ListPullRefs, After
<1>3. ScanInv'
  BY <1>1, <1>2 DEF PullsInv, ScanInv, After
<1> QED  BY <1>1, <1>2, <1>3 DEF PullsInv, After

\* The ref that is examined becomes the frontier; if it is kept it is gathered.
LEMMA PullsExamine ==
  ASSUME CursorInv, GetIssue, list = "pulls"
  PROVE  PullsInv'
<1>1. PullsInv /\ ScanInv /\ kept \subseteq shown \ missing /\ reading = "scan"
      /\ reading' = "scan" /\ kept' = kept /\ given' = given /\ repeated' = repeated
      /\ cursor' = cursor /\ scanned' = scanned + 1
  BY DEF GetIssue, CursorInv, ServerInv, PullsInv, server, result
<1>2. PICK n \in refs :
        /\ \A m \in refs : m <= n
        /\ refs' = refs \ {n}
        /\ examined' = n
        /\ batch' = IF n \in shown \ missing THEN batch \cup {n} ELSE batch
  BY DEF GetIssue
<1>3. n \in Items /\ Items \subseteq Nat /\ After(n) /\ batch \subseteq batch'
      /\ scanned' # 0 /\ scanned' \in Nat
  BY <1>1, <1>2 DEF ScanInv, PullsInv, Items
<1>4. \A m \in refs' : m < n
  BY <1>1, <1>2, <1>3 DEF ScanInv
<1>5. \A m \in batch' : m >= n
  <2>1. ASSUME NEW m \in batch PROVE m >= n
    <3>1. scanned # 0 /\ n < examined /\ m >= examined
      BY <1>1, <1>2, <2>1 DEF ScanInv
    <3>2. m \in Nat /\ n \in Nat /\ examined \in Nat
      BY <1>1, <1>3, <2>1, <3>1 DEF ScanInv
    <3> QED  BY <3>1, <3>2
  <2>2. batch' \subseteq batch \cup {n}
    BY <1>2
  <2> QED  BY <1>3, <2>1, <2>2
<1>6. kept' \subseteq given' \cup batch' \cup refs'
  <2>1. ASSUME NEW m \in kept PROVE m \in given \cup batch' \cup (refs \ {n})
    <3>1. m \in given \cup batch \cup refs
      BY <1>1, <2>1 DEF ScanInv
    <3>2. m = n => m \in batch'
      BY <1>1, <1>2, <2>1
    <3> QED  BY <1>3, <3>1, <3>2
  <2> QED  BY <1>1, <1>2, <2>1
<1>7. ScanInv'
  BY <1>1, <1>2, <1>3, <1>4, <1>5, <1>6 DEF ScanInv, After
<1> QED  BY <1>1, <1>3, <1>7 DEF PullsInv, After

\* A call that fails has returned nothing, and the next one starts where it did.
LEMMA PullsFail ==
  ASSUME CursorInv, GetIssueFails, list = "pulls"
  PROVE  PullsInv'
BY DEF GetIssueFails, CursorInv, ServerInv, PullsInv, ScanInv, After, server, scan,
       result, Items

\* A call that is full has examined a ref, and hands on the last one.
LEMMA PullsReturn ==
  ASSUME CursorInv, ScanReturns, list = "pulls"
  PROVE  PullsInv'
<1>1. PullsInv /\ ScanInv /\ limit \in Limits /\ reading = "scan"
      /\ kept' = kept /\ scanned' = scanned
  BY DEF ScanReturns, CursorInv, PullsInv, server, scan
<1>2. given \cap batch = {}
  BY <1>1 DEF PullsInv, ScanInv, After
<1>3. given' = given \cup batch /\ repeated' = {}
  BY <1>1, <1>2 DEF ScanReturns, Give, PullsInv
<1>4. CASE refs = {}
  BY <1>1, <1>3, <1>4 DEF ScanReturns, PullsInv, ScanInv
<1>5. CASE refs # {}
  <2>1. CallIsFull /\ reading' = "idle" /\ cursor' = examined
    BY <1>5 DEF ScanReturns
  <2>2. scanned # 0
    <3>1. CASE scanned >= ScanLimit
      BY <1>1, <3>1, PagingAssumption
    <3>2. CASE Cardinality(batch) >= limit
      <4>1. limit >= 1 /\ limit \in Nat
        BY <1>1, PagingAssumption
      <4>2. batch # {}
        BY <3>2, <4>1, FS_EmptySet
      <4> QED  BY <1>1, <4>2 DEF ScanInv
    <3> QED  BY <2>1, <3>1, <3>2 DEF CallIsFull
  <2>3. examined \in Items /\ After(examined) /\ examined \in Nat /\ examined # 0
    BY <1>1, <2>2 DEF ScanInv, Items
  <2>4. \A n \in given' : ~After(n)'
    BY <1>1, <1>3, <2>1, <2>2, <2>3 DEF PullsInv, ScanInv, After, Items
  <2>5. \A n \in kept' : ~After(n)' => n \in given'
    BY <1>1, <1>3, <2>1, <2>2, <2>3 DEF ScanInv, After, Items
  <2>6. given' \subseteq Items
    BY <1>1, <1>3 DEF PullsInv, ScanInv
  <2> QED  BY <1>1, <1>3, <2>1, <2>3, <2>4, <2>5, <2>6 DEF PullsInv
<1> QED  BY <1>4, <1>5

\* What others change is kept less, and otherwise touches no call.
LEMMA EditsKeep ==
  ASSUME CursorInv, AddItem \/ RemoveItem \/ ChangePull
  PROVE  CursorInv'
<1>1. UNCHANGED <<list, limit, cursor, reading, scan, result>> /\ kept' \subseteq kept
  BY DEF AddItem, RemoveItem, ChangePull, Edit
<1>2. ServerInv'
  <2>1. CASE AddItem
    BY <2>1 DEF AddItem, Edit, CursorInv, ServerInv
  <2>2. CASE RemoveItem
    BY <2>2 DEF RemoveItem, Edit, CursorInv, ServerInv
  <2>3. CASE ChangePull
    BY <2>3 DEF ChangePull, Edit, CursorInv, ServerInv
  <2> QED  BY <2>1, <2>2, <2>3
<1>3. list = "comments" => CommentsInv'
  BY <1>1 DEF CursorInv, CommentsInv, result
<1>4. list = "pulls" => PullsInv'
  BY <1>1 DEF CursorInv, PullsInv, ScanInv, After, scan, result
<1> QED  BY <1>1, <1>2, <1>3, <1>4 DEF CursorInv

\* Every step keeps the invariant of the cursors.
LEMMA CursorStep ==
  ASSUME CursorInv, [PagingNext]_pagingVars
  PROVE  CursorInv'
<1>1. CASE ListIssueComments
  BY <1>1, CommentsCall DEF ListIssueComments, CursorInv, ServerInv, server
<1>2. CASE ListPullRefs
  BY <1>2, PullsCall DEF ListPullRefs, CursorInv, ServerInv, server
<1>3. CASE GetIssue
  BY <1>3, PullsExamine DEF GetIssue, CursorInv, CommentsInv, ServerInv, server
<1>4. CASE GetIssueFails
  BY <1>4, PullsFail DEF GetIssueFails, CursorInv, CommentsInv, ServerInv, server
<1>5. CASE ScanReturns
  BY <1>5, PullsReturn DEF ScanReturns, CursorInv, CommentsInv, ServerInv, server
<1>6. CASE Paginate \/ ListIssues
  BY <1>6 DEF Paginate, ListIssues, CursorInv, ServerInv, server
<1>7. CASE AddItem \/ RemoveItem \/ ChangePull
  BY <1>7, EditsKeep
<1>8. CASE UNCHANGED pagingVars
  BY <1>8 DEF pagingVars, server, scan, result, CursorInv, ServerInv, CommentsInv, PullsInv,
              ScanInv, After
<1> QED
  BY <1>1, <1>2, <1>3, <1>4, <1>5, <1>6, <1>7, <1>8 DEF PagingNext

\* Cursors keep their promise: nothing is skipped and nothing comes twice
\* (issues.go:190, pull.go:109), however much is added, removed or changed.
THEOREM CursorsAreExact == PagingSpec => []CursorsDeliverOnce
<1>1. PagingInit => CursorInv
  <2> SUFFICES ASSUME PagingInit PROVE CursorInv
    OBVIOUS
  <2>1. ServerInv
    BY DEF PagingInit, ServerInv
  <2>2. list = "comments" => CommentsInv
    BY <2>1 DEF PagingInit, ServerInv, CommentsInv, Items
  <2>3. list = "pulls" => PullsInv
    BY DEF PagingInit, PullsInv, After
  <2> QED  BY <2>1, <2>2, <2>3 DEF PagingInit, CursorInv
<1>2. CursorInv => CursorsDeliverOnce
  BY DEF CursorInv, CommentsInv, PullsInv, CursorsDeliverOnce
<1> QED  BY <1>1, <1>2, CursorStep, PTL DEF PagingSpec


-----------------------------------------------------------------------------
\* Paging: the lists that are continued by a page number.

Paged == list \in {"pages", "directory", "issues"}

\* The items that come no later than x in the order the pages follow.
Ahead(x) == IF list = "issues" THEN {y \in items : y >= x} ELSE {y \in items : y <= x}

\* The items that the pages before the cursor could hold.
Behind(x) == Cardinality(Ahead(x)) <= (cursor - 1) * limit

PagesInv ==
  /\ items \subseteq Items /\ kept \subseteq items /\ limit \in Limits
  /\ Paged =>
       /\ cursor \in Nat \ {0}
       /\ reading \in {"idle", "end"}
       /\ given \subseteq Items
       /\ list = "issues" => newest \in Nat /\ \A x \in items : x <= newest
       /\ ~added => repeated = {}
       /\ reading = "idle" => /\ ~added => \A x \in given \cap items : Behind(x)
                              /\ ~removed => \A x \in kept : x \in given \/ ~Behind(x)
       /\ reading = "end" /\ ~removed => kept \subseteq given

\* There are finitely many items.
LEMMA ItemsFinite == IsFiniteSet(Items)
  BY PagingAssumption, FS_Interval DEF Items

\* The items up to one are counted, and are no more than there are.
LEMMA AheadSize ==
  ASSUME PagesInv, NEW x
  PROVE  /\ IsFiniteSet(items) /\ Cardinality(items) \in Nat
         /\ Cardinality(Ahead(x)) \in Nat
         /\ Cardinality(Ahead(x)) <= Cardinality(items)
<1>1. IsFiniteSet(items)
  BY ItemsFinite, FS_Subset DEF PagesInv
<1>2. Ahead(x) \in SUBSET items
  BY DEF Ahead
<1> QED BY <1>1, <1>2, FS_Subset, FS_CardinalityType

\* The page after the one at c begins where that one ends.
LEMMA PageStarts ==
  ASSUME NEW c \in Nat \ {0}, NEW l \in Nat \ {0}
  PROVE  /\ c * l \in Nat /\ (c - 1) * l \in Nat
         /\ (c - 1) * l <= c * l
         /\ ((c + 1) - 1) * l = c * l
<1>1. c - 1 \in Nat
  OBVIOUS
<1>2. c * l = (c - 1) * l + l
  OBVIOUS
<1>3. c * l \in Nat /\ (c - 1) * l \in Nat
  BY <1>1
<1> QED BY <1>2, <1>3

\* What list_directory computes from the total is whether anything is left.
LEMMA DirectoryPages ==
  ASSUME NEW n \in Nat, NEW c \in Nat \ {0}, NEW l \in Nat \ {0},
         ~(n > 0 /\ c <= (n - 1) \div l)
  PROVE  n <= c * l
<1>1. c * l \in Nat
  BY PageStarts
<1>2. CASE n = 0
  BY <1>1, <1>2
<1>3. CASE n > 0
  <2> DEFINE q == (n - 1) \div l
  <2>1. q \in Nat /\ n - 1 < (q + 1) * l
    BY <1>3
  <2>2. q + 1 <= c
    BY <1>3, <2>1
  <2>3. (q + 1) * l <= c * l
    BY <2>1, <2>2
  <2> QED BY <1>1, <2>1, <2>3
<1> QED BY <1>2, <1>3

\* A page is what was not passed before the call and is passed after it.
PageAt(n) == {x \in items : ~Behind(x) /\ Cardinality(Ahead(x)) <= n}

\* A call returns the page at the cursor and moves the cursor behind it.
LEMMA PagesCall ==
  ASSUME PagesInv, Paginate \/ ListIssues
  PROVE  PagesInv'
<1> DEFINE Q == cursor * limit
<1> DEFINE P == (cursor - 1) * limit
<1>1. /\ Paged /\ reading = "idle" /\ UNCHANGED <<list, server, limit>>
      /\ cursor \in Nat \ {0} /\ limit \in Nat \ {0}
  BY PagingAssumption DEF PagesInv, Paged, Paginate, ListIssues
<1>2. Give(PageAt(Q))
  <2>1. P \in Nat /\ Q \in Nat
    BY <1>1, PageStarts
  <2>2. CASE Paginate
    <3>1. ASSUME NEW x \in items
          PROVE  P < Place(x) /\ Place(x) <= Q <=> ~Behind(x) /\ Cardinality(Ahead(x)) <= Q
      <4>1. Ahead(x) = {y \in items : y <= x}
        BY <2>2 DEF Paginate, Ahead
      <4>2. Cardinality(Ahead(x)) \in Nat
        BY AheadSize
      <4> QED BY <2>1, <4>1, <4>2 DEF Place, Behind
    <3>2. PageOf(cursor) = PageAt(Q)
      BY <3>1 DEF PageOf, PageAt
    <3> QED BY <2>2, <3>2 DEF Paginate
  <2>3. CASE ListIssues
    <3>1. ASSUME NEW x \in items
          PROVE  LET Rank == Cardinality({y \in items : y >= x}) IN
                 P < Rank /\ Rank <= Q <=> ~Behind(x) /\ Cardinality(Ahead(x)) <= Q
      <4>1. Ahead(x) = {y \in items : y >= x}
        BY <2>3 DEF ListIssues, Ahead
      <4>2. Cardinality(Ahead(x)) \in Nat
        BY AheadSize
      <4> QED BY <2>1, <4>1, <4>2 DEF Behind
    <3>2. IssuePage(cursor) = PageAt(Q)
      BY <3>1 DEF IssuePage, PageAt
    <3> QED BY <2>3, <3>2 DEF ListIssues
  <2> QED BY <2>2, <2>3
<1>3. P \in Nat /\ Q \in Nat /\ P <= Q /\ ((cursor + 1) - 1) * limit = Q
  BY <1>1, PageStarts
<1>4. \/ cursor' = cursor + 1 /\ reading' = "idle"
      \/ cursor' = cursor /\ reading' = "end" /\ Cardinality(items) <= Q
  <2>1. Cardinality(items) \in Nat
    BY AheadSize
  <2>2. HasNext(cursor) \/ Cardinality(items) <= Q
    BY <1>3, <2>1 DEF HasNext
  <2>3. DirectoryHasNext(cursor) \/ Cardinality(items) <= Q
    BY <1>1, <2>1, DirectoryPages DEF DirectoryHasNext
  <2> QED BY <1>1, <2>2, <2>3 DEF Paginate, ListIssues
<1>5. ASSUME NEW x \in items
      PROVE  /\ Cardinality(Ahead(x)) \in Nat
             /\ Cardinality(Ahead(x)) <= Cardinality(items)
             /\ Ahead(x)' = Ahead(x)
  BY <1>1, AheadSize DEF Ahead, server
<1>6. Paged' /\ items' = items /\ kept' = kept /\ added' = added /\ removed' = removed
      /\ limit' = limit /\ newest' = newest /\ list' = list
  BY <1>1 DEF Paged, server
<1>7. /\ ~added => repeated' = {} 
      /\ given' = given \cup PageAt(Q)
  BY <1>1, <1>2 DEF PagesInv, Give, PageAt
<1>8. ASSUME reading' = "idle"
      PROVE  /\ ~added => \A x \in given' \cap items : Behind(x)'
             /\ ~removed => \A x \in kept : x \in given' \/ ~Behind(x)'
  <2>1. ASSUME NEW x \in items PROVE Behind(x)' <=> Cardinality(Ahead(x)) <= Q
    BY <1>3, <1>4, <1>5, <1>6, <1>8 DEF Behind
  <2>2. ASSUME NEW x \in items, Behind(x) PROVE Cardinality(Ahead(x)) <= Q
    BY <1>3, <1>5, <2>2 DEF Behind
  <2>3. ~added => \A x \in given' \cap items : Behind(x)'
    BY <1>1, <1>7, <2>1, <2>2 DEF PagesInv, PageAt
  <2>4. ~removed => \A x \in kept : x \in given' \/ ~Behind(x)'
    BY <1>1, <1>7, <2>1 DEF PagesInv, PageAt
  <2> QED BY <2>3, <2>4
<1>9. ASSUME reading' = "end", ~removed PROVE kept \subseteq given'
  <2>1. ASSUME NEW x \in kept PROVE x \in given'
    <3>1. x \in items /\ (x \in given \/ ~Behind(x))
      BY <1>1, <1>9 DEF PagesInv
    <3>2. Cardinality(items) \in Nat
      BY AheadSize
    <3>3. Cardinality(Ahead(x)) <= Q
      BY <1>3, <1>4, <1>5, <1>9, <3>1, <3>2
    <3> QED BY <1>7, <3>1, <3>3 DEF PageAt
  <2> QED BY <2>1
<1> QED BY <1>1, <1>4, <1>6, <1>7, <1>8, <1>9 DEF PagesInv, PageAt

\* Whatever is added comes before or after x and moves it back at most.
LEMMA PagesEdit ==
  ASSUME PagesInv, AddItem \/ RemoveItem \/ ChangePull
  PROVE  PagesInv'
<1>1. /\ reading # "end" /\ UNCHANGED <<list, limit, cursor, reading, given, repeated>>
      /\ kept' \subseteq kept /\ limit \in Nat \ {0}
  BY PagingAssumption DEF AddItem, RemoveItem, ChangePull, Edit, result, PagesInv
<1> SUFFICES ASSUME Paged PROVE PagesInv'
  BY <1>1 DEF PagesInv, Paged, AddItem, RemoveItem, ChangePull, Edit
<1>2. (cursor - 1) * limit \in Nat /\ cursor \in Nat \ {0} /\ reading = "idle"
  BY <1>1, PageStarts DEF PagesInv
<1>3. ASSUME NEW x, Ahead(x) \subseteq Ahead(x)', IsFiniteSet(items')
      PROVE  Behind(x)' => Behind(x)
  <2>1. Ahead(x)' \in SUBSET items'
    BY DEF Ahead
  <2>2. IsFiniteSet(Ahead(x)') /\ IsFiniteSet(Ahead(x))
    BY <1>3, <2>1, FS_Subset
  <2>3. /\ Cardinality(Ahead(x)) <= Cardinality(Ahead(x)')
        /\ Cardinality(Ahead(x)) \in Nat /\ Cardinality(Ahead(x)') \in Nat
    BY <1>3, <2>2, FS_Subset, FS_CardinalityType
  <2> QED BY <1>1, <1>2, <2>3 DEF Behind
<1>4. ASSUME NEW x, Ahead(x)' \subseteq Ahead(x)
      PROVE  Behind(x) => Behind(x)'
  <2>1. Ahead(x) \in SUBSET items /\ IsFiniteSet(items)
    BY AheadSize DEF Ahead
  <2>2. IsFiniteSet(Ahead(x)') /\ IsFiniteSet(Ahead(x))
    BY <1>4, <2>1, FS_Subset
  <2>3. /\ Cardinality(Ahead(x)') <= Cardinality(Ahead(x))
        /\ Cardinality(Ahead(x)) \in Nat /\ Cardinality(Ahead(x)') \in Nat
    BY <1>4, <2>2, FS_Subset, FS_CardinalityType
  <2> QED BY <1>1, <1>2, <2>3 DEF Behind
<1>5. CASE AddItem
  <2>1. PICK x \in Items \ items : /\ Numbered => x = newest + 1
                                  /\ items' = items \cup {x}
                                  /\ newest' = IF x > newest THEN x ELSE newest
    BY <1>5 DEF AddItem
  <2>2. added' = TRUE /\ UNCHANGED <<kept, removed>>
    BY <1>5 DEF AddItem
  <2>3. IsFiniteSet(items') /\ items' \subseteq Items
    BY <2>1, ItemsFinite, FS_Subset DEF PagesInv
  <2>4. ASSUME NEW y PROVE Behind(y)' => Behind(y)
    <3>1. Ahead(y) \subseteq Ahead(y)'
      BY <1>1, <2>1 DEF Ahead
    <3> QED BY <1>3, <2>3, <3>1
  <2>5. list' = "issues" => newest' \in Nat /\ \A y \in items' : y <= newest'
    <3> SUFFICES ASSUME list' = "issues" PROVE newest' \in Nat /\ \A y \in items' : y <= newest'
      OBVIOUS
    <3>1. /\ newest \in Nat /\ x \in Nat /\ items \subseteq Nat
          /\ \A y \in items : y <= newest
      BY <1>1 DEF PagesInv, Items
    <3>2. newest' = x /\ x = newest + 1
      BY <1>1, <2>1, <3>1 DEF Numbered
    <3> QED BY <2>1, <3>1, <3>2
  <2> QED BY <1>1, <1>2, <2>1, <2>2, <2>3, <2>4, <2>5 DEF PagesInv, Paged
<1>6. CASE RemoveItem
  <2>1. PICK x \in items : items' = items \ {x} /\ kept' = kept \ {x}
    BY <1>6 DEF RemoveItem
  <2>2. removed' = TRUE /\ UNCHANGED <<newest, added>>
    BY <1>6 DEF RemoveItem
  <2>3. ASSUME NEW y PROVE Behind(y) => Behind(y)'
    <3>1. Ahead(y)' \subseteq Ahead(y)
      BY <1>1, <2>1 DEF Ahead
    <3> QED BY <1>4, <3>1
  <2> QED BY <1>1, <1>2, <2>1, <2>2, <2>3 DEF PagesInv, Paged
<1>7. CASE ChangePull
  BY <1>7 DEF ChangePull, Paged
<1> QED BY <1>5, <1>6, <1>7

\* Page numbers keep their promise: without additions nothing is repeated, without
\* removals nothing is skipped (git.go:139, repositories.go:103, contents.go:60).
THEOREM PagesAreExact == PagingSpec => []PagesKeepUp
<1>1. PagingInit => PagesInv
  <2> SUFFICES ASSUME PagingInit PROVE PagesInv
    OBVIOUS
  <2>1. Paged => cursor = 1
    BY DEF PagingInit, Paged
  <2>2. ASSUME NEW x \in kept, Paged PROVE ~Behind(x)
    <3>1. x \in items
      BY DEF PagingInit
    <3>2. Ahead(x) \in SUBSET items /\ IsFiniteSet(items)
      BY ItemsFinite, FS_Subset DEF PagingInit, Ahead
    <3>3. x \in Ahead(x)
      <4> x \in Nat
        BY <3>1 DEF PagingInit, Items
      <4> QED BY <3>1 DEF Ahead
    <3>4. Cardinality(Ahead(x)) \in Nat /\ Cardinality(Ahead(x)) # 0
      BY <3>2, <3>3, FS_Subset, FS_CardinalityType, FS_EmptySet
    <3>5. (cursor - 1) * limit = 0
      BY <2>1, <2>2, PagingAssumption DEF PagingInit
    <3> QED BY <3>4, <3>5 DEF Behind
  <2>3. list = "issues" => newest \in Nat /\ \A x \in items : x <= newest
    BY PagingAssumption DEF PagingInit
  <2>4. items \subseteq Items /\ kept \subseteq items /\ limit \in Limits
    BY DEF PagingInit
  <2> QED BY <2>1, <2>2, <2>3, <2>4 DEF PagingInit, PagesInv, Paged
<1>2. PagesInv /\ [PagingNext]_pagingVars => PagesInv'
  <2> SUFFICES ASSUME PagesInv, [PagingNext]_pagingVars PROVE PagesInv'
    OBVIOUS
  <2>1. CASE Paginate \/ ListIssues
    BY <2>1, PagesCall
  <2>2. CASE AddItem \/ RemoveItem \/ ChangePull
    BY <2>2, PagesEdit
  <2>3. CASE ListIssueComments \/ ListPullRefs \/ GetIssue \/ GetIssueFails \/ ScanReturns
    <3>1. UNCHANGED <<items, kept, limit, list>>
      BY <2>3 DEF ListIssueComments, ListPullRefs, GetIssue, GetIssueFails, ScanReturns, server
    <3>2. ~Paged
      BY <2>3 DEF Paged, PagesInv, ListIssueComments, ListPullRefs, GetIssue,
         GetIssueFails, ScanReturns
    <3> QED BY <3>1, <3>2 DEF PagesInv, Paged
  <2>4. CASE UNCHANGED pagingVars
    <3>1. \A x : Behind(x)' <=> Behind(x)
      BY <2>4 DEF pagingVars, server, Behind, Ahead
    <3> QED BY <2>4, <3>1 DEF pagingVars, server, result, PagesInv, Paged
  <2> QED BY <2>1, <2>2, <2>3, <2>4 DEF PagingNext
<1>3. PagesInv => PagesKeepUp
  BY DEF PagesInv, Paged, PagesKeepUp
<1> QED BY <1>1, <1>2, <1>3, PTL DEF PagingSpec


-----------------------------------------------------------------------------
\* Contents.

Resolving == {"default", "head", "branch", "tags", "revision"}
Answering == {"read", "content", "done"}

\* What refs point to now, they have pointed to during the call.
RefsInv ==
  /\ branch \in [Names -> CommitIDs \cup {Unset}]
  /\ tag \in [Names -> CommitIDs \cup {Unset}]
  /\ default \in Names /\ default \in defaults
  /\ DOMAIN denoted = Names
  /\ \A n \in Names : Named(branch, tag, n) \subseteq denoted[n]

CallInv ==
  /\ at \in Resolving \cup Answering \cup {"missing", "failed"}
  /\ ref \in Names \cup {Unset}
  /\ at \in Resolving => read = {}
  /\ at = "default" => ref = Unset
  /\ at \in (Resolving \cup Answering) \ {"default"} =>
       /\ usedRef \in Names
       /\ usedRef \in IF ref = Unset THEN defaults ELSE {ref}
  /\ at = "revision" => usedRef \in CommitIDs
  /\ at \in Answering => read \subseteq {sha} /\ sha \in denoted[usedRef]

OneCommitInv == RefsInv /\ CallInv

-----------------------------------------------------------------------------
\* A request that resolves: the default branch, a branch, a tag or a revision.
LEMMA ResolvingStep ==
  ASSUME OneCommitInv,
         \/ ResolveContentRef \/ ResolveDefault \/ HeadOfDefault
         \/ GetBranch \/ ListTags \/ GetCommit
  PROVE  OneCommitInv'
<1>1. RefsInv' /\ UNCHANGED <<ref, read, denoted, defaults>>
  BY DEF OneCommitInv, RefsInv, ResolveContentRef, ResolveDefault, HeadOfDefault, GetBranch,
         ListTags, GetCommit, repository, Named
<1>2. CASE ResolveContentRef \/ ResolveDefault
  <2>1. at = "default" /\ ref = Unset /\ at' \in {"branch", "head"} /\ usedRef' = default
    BY <1>2 DEF OneCommitInv, CallInv, ResolveContentRef, ResolveDefault
  <2> QED
    BY <1>1, <2>1 DEF OneCommitInv, RefsInv, CallInv, Resolving, Answering
<1>3. CASE HeadOfDefault \/ GetBranch
  <2>1. at \in {"head", "branch"} /\ UNCHANGED usedRef
    BY <1>3 DEF HeadOfDefault, GetBranch
  <2>2. usedRef \in Names /\ read = {}
    BY <2>1 DEF OneCommitInv, CallInv, Resolving, Answering
  <2>3. CASE branch[usedRef] # Unset
    <3>1. at' = "read" /\ sha' = branch[usedRef]
      BY <1>3, <2>3 DEF HeadOfDefault, GetBranch, Found
    <3>2. branch[usedRef] \in denoted[usedRef]
      BY <2>2, <2>3 DEF OneCommitInv, RefsInv, Named
    <3> QED
      BY <1>1, <2>1, <2>2, <3>1, <3>2 DEF OneCommitInv, CallInv, Resolving, Answering
  <2>4. CASE branch[usedRef] = Unset
    <3>1. at' \in {"missing", "tags"}
      BY <1>3, <2>4 DEF HeadOfDefault, GetBranch
    <3> QED
      BY <1>1, <2>1, <2>2, <3>1 DEF OneCommitInv, CallInv, Resolving, Answering
  <2> QED
    BY <2>3, <2>4
<1>4. CASE ListTags
  <2>1. at = "tags" /\ UNCHANGED usedRef /\ usedRef \in Names /\ read = {}
    BY <1>4 DEF ListTags, OneCommitInv, CallInv, Resolving, Answering
  <2>2. CASE tag[usedRef] # Unset
    <3>1. at' = "read" /\ sha' = tag[usedRef]
      BY <1>4, <2>2 DEF ListTags, Found
    <3>2. tag[usedRef] \in denoted[usedRef]
      BY <2>1, <2>2 DEF OneCommitInv, RefsInv, Named
    <3> QED
      BY <1>1, <2>1, <3>1, <3>2 DEF OneCommitInv, CallInv, Resolving, Answering
  <2>3. CASE tag[usedRef] = Unset
    <3>1. at' \in {"missing", "revision"} /\ (at' = "revision" => usedRef \in CommitIDs)
      BY <1>4, <2>3 DEF ListTags
    <3> QED
      BY <1>1, <2>1, <3>1 DEF OneCommitInv, CallInv, Resolving, Answering
  <2> QED
    BY <2>2, <2>3
<1>5. CASE GetCommit
  <2>1. /\ at = "revision" /\ UNCHANGED usedRef /\ read = {}
        /\ usedRef \in Names /\ usedRef \in CommitIDs
        /\ at' = "missing" \/ (at' = "read" /\ sha' = usedRef)
    BY <1>5 DEF GetCommit, Found, OneCommitInv, CallInv, Resolving, Answering
  <2>2. usedRef \in denoted[usedRef]
    BY <2>1 DEF OneCommitInv, RefsInv, Named
  <2> QED
    BY <1>1, <2>1, <2>2 DEF OneCommitInv, CallInv, Resolving, Answering
<1> QED
  BY <1>2, <1>3, <1>4, <1>5

\* A request that reads, and the end of the call.
LEMMA ReadingStep ==
  ASSUME OneCommitInv,
         DirectoryTree \/ ContentPrefix \/ GetContent \/ DownloadArchive \/ Return \/ Fail
  PROVE  OneCommitInv'
<1>1. RefsInv' /\ UNCHANGED <<ref, usedRef, sha, denoted, defaults>>
  BY DEF OneCommitInv, RefsInv, DirectoryTree, ContentPrefix, GetContent, DownloadArchive,
     Return,
         Fail, Reads, repository, Named
<1>2. CASE Fail
  BY <1>1, <1>2 DEF Fail, OneCommitInv, CallInv, Resolving, Answering
<1>3. CASE ~Fail
  <2>1. at \in Answering /\ at' \in Answering /\ read' \subseteq read \cup {sha}
    BY <1>3 DEF DirectoryTree, ContentPrefix, GetContent, DownloadArchive, Return, Reads,
       Answering
  <2> QED
    BY <1>1, <2>1 DEF OneCommitInv, CallInv, Resolving, Answering
<1> QED
  BY <1>2, <1>3

\* Others move refs.
LEMMA ChangeStep ==
  ASSUME OneCommitInv, Push \/ Tag \/ SetDefault
  PROVE  OneCommitInv'
<1>1. /\ UNCHANGED call
      /\ denoted' = [n \in Names |-> denoted[n] \cup Named(branch', tag', n)]
      /\ defaults' = defaults \cup {default'}
  BY DEF Push, Tag, SetDefault, Change
<1>2. /\ branch' \in [Names -> CommitIDs \cup {Unset}]
      /\ tag' \in [Names -> CommitIDs \cup {Unset}]
      /\ default' \in Names
  BY DEF OneCommitInv, RefsInv, Push, Tag, SetDefault
<1>3. RefsInv'
  <2>1. \A n \in Names : Named(branch', tag', n) \subseteq denoted'[n]
    BY <1>1
  <2> QED
    BY <1>1, <1>2, <2>1 DEF RefsInv, Named
<1>4. \A n \in Names : denoted[n] \subseteq denoted'[n]
  BY <1>1
<1> QED
  BY <1>1, <1>3, <1>4 DEF OneCommitInv, CallInv, Resolving, Answering, call

\* Every step keeps the invariant of the answers.
LEMMA OneCommitStep == OneCommitInv /\ [ContentsNext]_contentsVars => OneCommitInv'
<1> SUFFICES ASSUME OneCommitInv, [ContentsNext]_contentsVars PROVE OneCommitInv'
  OBVIOUS
<1>1. CASE \/ ResolveContentRef \/ ResolveDefault \/ HeadOfDefault
           \/ GetBranch \/ ListTags \/ GetCommit
  BY <1>1, ResolvingStep
<1>2. CASE DirectoryTree \/ ContentPrefix \/ GetContent \/ DownloadArchive \/ Return \/ Fail
  BY <1>2, ReadingStep
<1>3. CASE Push \/ Tag \/ SetDefault
  BY <1>3, ChangeStep
<1>4. CASE UNCHANGED contentsVars
  BY <1>4 DEF OneCommitInv, RefsInv, CallInv, contentsVars, repository, call, Named
<1> QED
  BY <1>1, <1>2, <1>3, <1>4 DEF ContentsNext

\* All that a call returns is of one commit, and the ref it reports is the one
\* asked for, or a default branch, and had that commit during the call
\* (ResolveCommitSHA and the reads of gogs/content.go).
THEOREM AnswersAreOfOneCommit == ContentsSpec => []OneCommit
<1>1. ContentsInit => OneCommitInv
  BY DEF ContentsInit, OneCommitInv, RefsInv, CallInv, Resolving, Answering, Named
<1>2. OneCommitInv => OneCommit
  BY DEF OneCommitInv, CallInv, OneCommit, Resolving, Answering
<1> QED
  BY <1>1, <1>2, OneCommitStep, PTL DEF ContentsSpec


-----------------------------------------------------------------------------
\* IssueTools.

-----------------------------------------------------------------------------
\* create_issue and update_issue.

References == {"push", "labels", "milestone", "assignee"}

\* What is so now has been so during the call.
EverInv ==
  /\ push => everPush
  /\ users \subseteq Users /\ users \subseteq everUsers
  /\ DOMAIN named = LabelIds \cup MilestoneIds
  /\ \A i \in DOMAIN named : <<i, named[i]>> \in everNamed

IssueTypeOK ==
  /\ op \in {"create", "update"}
  /\ asked.text \in {"new", Keep} /\ asked.labels \subseteq Labels
  /\ asked.assignee \in Users \cup {Keep, Nobody}
  /\ asked.milestone \in Titles \cup {Keep, Nobody}
  /\ op = "update" => asked.labels = {}
  /\ step \in {"start", "look", "sent", "refused"}
  /\ todo \in Seq(References)
  /\ options \in [text : {"new", Keep}, labels : SUBSET LabelIds,
                  assignee : Users \cup {Keep, Nobody},
                  milestone : MilestoneIds \cup {Keep, Nobody}]

\* What the request will carry of a reference is what was asked for.
Resolved(x) ==
  /\ x = "push" => everPush
  /\ x = "labels" => \A n \in asked.labels : \E i \in options.labels : <<i, n>> \in everNamed
  /\ x = "milestone" => <<options.milestone, asked.milestone>> \in everNamed
  /\ x = "assignee" => options.assignee = asked.assignee /\ asked.assignee \in everUsers

\* Every reference is looked up, or will be; nothing else is, so that the other
\* fields are those of the input.
LookInv ==
  /\ step = "look" => \A x \in Needed(asked) : x \in ToSet(todo) \/ Resolved(x)
  /\ step = "look" => ToSet(todo) \subseteq Needed(asked)
  /\ step = "sent" => \A x \in Needed(asked) : Resolved(x)
  /\ \A i \in options.labels : \E n \in asked.labels : <<i, n>> \in everNamed
  /\ options.text = asked.text
  /\ asked.assignee \notin Users => options.assignee = asked.assignee
  /\ asked.milestone \notin Titles => options.milestone = asked.milestone
  /\ step \in {"start", "look"} => outcome = "none"

IssueInv == EverInv /\ IssueTypeOK /\ LookInv

-----------------------------------------------------------------------------

\* A conditional element is a sequence of at most that one.
LEMMA Singles ==
  ASSUME NEW S, NEW c \in BOOLEAN, NEW x \in S
  PROVE  /\ (IF c THEN <<x>> ELSE <<>>) \in Seq(S)
         /\ ToSet(IF c THEN <<x>> ELSE <<>>) = {y \in {x} : c}
BY DEF ToSet

\* What two sequences hold together, their concatenation holds.
LEMMA JoinedSets ==
  ASSUME NEW S, NEW s \in Seq(S), NEW t \in Seq(S)
  PROVE  s \o t \in Seq(S) /\ ToSet(s \o t) = ToSet(s) \cup ToSet(t)
<1> DEFINE k == Len(s)
<1> DEFINE l == Len(t)
<1> DEFINE u == s \o t
<1>1. k \in Nat /\ l \in Nat /\ DOMAIN s = 1..k /\ DOMAIN t = 1..l
  BY LenProperties
<1>2. /\ u \in Seq(S) /\ Len(u) = k + l
      /\ \A i \in 1..k + l : u[i] = IF i <= k THEN s[i] ELSE t[i - k]
  BY ConcatProperties
<1>3. DOMAIN u = 1..(k + l)
  BY <1>2, LenProperties
<1> HIDE DEF k, l, u
<1>4. ASSUME NEW i \in 1..(k + l) PROVE u[i] \in ToSet(s) \cup ToSet(t)
  <2>1. CASE i <= k
    <3>1. i \in 1..k /\ u[i] = s[i]
      BY <1>1, <1>2, <2>1
    <3> QED BY <1>1, <3>1 DEF ToSet
  <2>2. CASE ~(i <= k)
    <3>1. i - k \in 1..l /\ u[i] = t[i - k]
      BY <1>1, <1>2, <2>2
    <3> QED BY <1>1, <3>1 DEF ToSet
  <2> QED BY <2>1, <2>2
<1>5. ASSUME NEW i \in 1..k PROVE s[i] \in ToSet(u)
  <2>1. i \in 1..(k + l) /\ u[i] = s[i]
    BY <1>1, <1>2
  <2> QED BY <1>3, <2>1 DEF ToSet
<1>6. ASSUME NEW i \in 1..l PROVE t[i] \in ToSet(u)
  <2>1. k + i \in 1..(k + l) /\ ~(k + i <= k) /\ (k + i) - k = i
    BY <1>1
  <2>2. u[k + i] = t[i]
    BY <1>2, <2>1
  <2> QED BY <1>3, <2>1, <2>2 DEF ToSet
<1>7. ToSet(u) \subseteq ToSet(s) \cup ToSet(t)
  BY <1>3, <1>4 DEF ToSet
<1>8. ToSet(s) \cup ToSet(t) \subseteq ToSet(u)
  BY <1>1, <1>5, <1>6 DEF ToSet
<1> QED BY <1>2, <1>7, <1>8 DEF u

\* What a sequence holds is its head and what its tail holds.
LEMMA HeadAndTail ==
  ASSUME NEW S, NEW s \in Seq(S), s # <<>>
  PROVE  Tail(s) \in Seq(S) /\ Head(s) \in S /\ ToSet(s) = {Head(s)} \cup ToSet(Tail(s))
<1>1. /\ Head(s) \in S /\ Tail(s) \in Seq(S) /\ Len(Tail(s)) = Len(s) - 1
      /\ \A i \in 1..Len(Tail(s)) : Tail(s)[i] = s[i + 1]
      /\ Head(s) = s[1]
  BY HeadTailProperties
<1>2. /\ DOMAIN s = 1..Len(s) /\ Len(s) \in Nat /\ Len(s) # 0
      /\ DOMAIN Tail(s) = 1..(Len(s) - 1)
  BY <1>1, LenProperties, EmptySeq
<1>3. ToSet(s) \subseteq {Head(s)} \cup ToSet(Tail(s))
  <2> SUFFICES ASSUME NEW i \in 1..Len(s) PROVE s[i] \in {Head(s)} \cup ToSet(Tail(s))
    BY <1>2 DEF ToSet
  <2>1. CASE i = 1
    BY <1>1, <2>1
  <2>2. CASE i # 1
    <3>1. i - 1 \in 1..(Len(s) - 1) /\ (i - 1) + 1 = i
      BY <1>2, <2>2
    <3>2. Tail(s)[i - 1] = s[i]
      BY <1>1, <3>1
    <3> QED BY <1>2, <3>1, <3>2 DEF ToSet
  <2> QED BY <2>1, <2>2
<1>4. {Head(s)} \cup ToSet(Tail(s)) \subseteq ToSet(s)
  <2>1. ASSUME NEW i \in 1..(Len(s) - 1) PROVE Tail(s)[i] \in ToSet(s)
    <3>1. i + 1 \in 1..Len(s) /\ Tail(s)[i] = s[i + 1]
      BY <1>1, <1>2
    <3> QED BY <1>2, <3>1 DEF ToSet
  <2>2. Head(s) \in ToSet(s)
    <3>1. 1 \in 1..Len(s)
      BY <1>2
    <3> QED BY <1>1, <1>2, <3>1 DEF ToSet
  <2> QED BY <1>2, <2>1, <2>2 DEF ToSet
<1> QED BY <1>1, <1>3, <1>4

\* Start asks for what is needed, in whichever order.
LEMMA LookupsAreNeeded ==
  ASSUME IssueTypeOK
  PROVE  Lookups(asked) \in Seq(References) /\ ToSet(Lookups(asked)) = Needed(asked)
<1> DEFINE If(x) == IF x \in Needed(asked) THEN <<x>> ELSE <<>>
<1>1. \A x \in References : If(x) \in Seq(References) /\ ToSet(If(x)) = {y \in {x} : x \in Needed(asked)}
  BY Singles
<1> HIDE DEF If
<1>2. \A s, t \in Seq(References) : s \o t \in Seq(References) /\ ToSet(s \o t) = ToSet(s) \cup ToSet(t)
  BY JoinedSets
<1> DEFINE p == If("push")
<1>6. p \in Seq(References) /\ ToSet(p) = {y \in {"push"} : "push" \in Needed(asked)}
  BY <1>1 DEF References
<1>3. Lookups(asked) = p \o IF op = "create"
                                     THEN If("labels") \o If("milestone") \o If("assignee")
                                     ELSE If("assignee") \o If("milestone")
  BY DEF Lookups, If
<1>4. CASE op = "create"
  <2> DEFINE a == If("labels") \o If("milestone")
  <2> DEFINE b == a \o If("assignee")
  <2>1. /\ a \in Seq(References)
        /\ ToSet(a) = {y \in {"labels"} : "labels" \in Needed(asked)}
                      \cup {y \in {"milestone"} : "milestone" \in Needed(asked)}
    BY <1>1, <1>2 DEF References
  <2> HIDE DEF a
  <2>2. /\ b \in Seq(References)
        /\ ToSet(b) = ToSet(a) \cup {y \in {"assignee"} : "assignee" \in Needed(asked)}
    BY <1>1, <1>2, <2>1 DEF References
  <2>3. Lookups(asked) = p \o b
    BY <1>3, <1>4 DEF a
  <2> HIDE DEF b
  <2>4. /\ Lookups(asked) \in Seq(References)
        /\ ToSet(Lookups(asked)) = {y \in {"push"} : "push" \in Needed(asked)} \cup ToSet(b)
    <3> HIDE DEF p
    <3> QED BY <1>2, <1>6, <2>2, <2>3
  <2> QED BY <2>1, <2>2, <2>4 DEF Needed
<1>5. CASE op = "update"
  <2> DEFINE b == If("assignee") \o If("milestone")
  <2>1. /\ b \in Seq(References)
        /\ ToSet(b) = {y \in {"assignee"} : "assignee" \in Needed(asked)}
                      \cup {y \in {"milestone"} : "milestone" \in Needed(asked)}
    BY <1>1, <1>2 DEF References
  <2>2. Lookups(asked) = p \o b
    BY <1>3, <1>5
  <2> HIDE DEF b
  <2>3. /\ Lookups(asked) \in Seq(References)
        /\ ToSet(Lookups(asked)) = {y \in {"push"} : "push" \in Needed(asked)} \cup ToSet(b)
    <3> HIDE DEF p
    <3> QED BY <1>2, <1>6, <2>1, <2>2
  <2> QED BY <1>5, <2>1, <2>3 DEF Needed, IssueTypeOK
<1> QED BY <1>4, <1>5 DEF IssueTypeOK

\* Begins to look up what is needed, and nothing else.
LEMMA StartKeeps ==
  ASSUME IssueInv, Start
  PROVE  IssueInv'
<1>1. /\ EverInv /\ IssueTypeOK /\ LookInv /\ step = "start"
      /\ options' = Options(asked) /\ UNCHANGED <<others, issue, op, asked, outcome>>
  BY DEF IssueInv, Start
<1>2. options' \in [text : {"new", Keep}, labels : SUBSET LabelIds,
                    assignee : Users \cup {Keep, Nobody},
                    milestone : MilestoneIds \cup {Keep, Nobody}]
  BY <1>1 DEF Options, IssueTypeOK
<1>3. /\ options'.text = asked.text /\ options'.labels = {}
      /\ asked.assignee \notin Users => options'.assignee = asked.assignee
      /\ asked.milestone \notin Titles => options'.milestone = asked.milestone
  BY <1>1 DEF Options, IssueTypeOK
<1>4. \/ step' = "refused" /\ todo' = todo
      \/ step' = "look" /\ todo' = Lookups(asked)
  BY DEF Start
<1>5. todo' \in Seq(References)
  BY <1>1, <1>4, LookupsAreNeeded DEF IssueTypeOK
<1>6. EverInv' /\ IssueTypeOK'
  BY <1>1, <1>2, <1>4, <1>5 DEF EverInv, IssueTypeOK, others
<1>7. Needed(asked)' = Needed(asked)
  BY <1>1 DEF Needed, Managed
<1>8. step' = "look" => ToSet(todo') = Needed(asked)
  BY <1>1, <1>4, LookupsAreNeeded
<1>9. LookInv'
  BY <1>1, <1>3, <1>4, <1>7, <1>8 DEF LookInv
<1> QED BY <1>6, <1>9 DEF IssueInv

\* One lookup resolves its reference and leaves the others as they are.
LEMMA LookedUp ==
  ASSUME IssueInv, step = "look", todo # <<>>, Passed,
         UNCHANGED <<others, issue, op, asked, outcome>>,
         NEW x, x = Head(todo),
         options' \in [text : {"new", Keep}, labels : SUBSET LabelIds,
                       assignee : Users \cup {Keep, Nobody},
                       milestone : MilestoneIds \cup {Keep, Nobody}],
         options'.text = options.text,
         x # "labels" => options'.labels = options.labels,
         x # "assignee" => options'.assignee = options.assignee,
         x # "milestone" => options'.milestone = options.milestone,
         Resolved(x)',
         \A i \in options'.labels : \E n \in asked.labels : <<i, n>> \in everNamed
  PROVE  IssueInv'
<1>1. EverInv /\ IssueTypeOK /\ LookInv /\ todo' = Tail(todo) /\ step' = step
  BY DEF IssueInv, Passed
<1>2. /\ todo' \in Seq(References) /\ x \in References
      /\ ToSet(todo) = {x} \cup ToSet(todo')
  BY <1>1, HeadAndTail DEF IssueTypeOK
<1>3. EverInv' /\ IssueTypeOK'
  BY <1>1, <1>2 DEF EverInv, IssueTypeOK, others
<1>4. Needed(asked)' = Needed(asked) /\ x \in Needed(asked)
  BY <1>1, <1>2 DEF Needed, Managed, LookInv
<1>5. /\ x = "assignee" => asked.assignee \in Users
      /\ x = "milestone" => asked.milestone \in Titles
  BY <1>4 DEF Needed
<1>6. \A y \in References : y # x /\ Resolved(y) => Resolved(y)'
  BY DEF Resolved, References, others
<1>7. Needed(asked) \subseteq References
  BY DEF Needed, References
<1>8. \A y \in Needed(asked) : y \in ToSet(todo') \/ Resolved(y)'
  <2> SUFFICES ASSUME NEW y \in Needed(asked), y \notin ToSet(todo') PROVE Resolved(y)'
    OBVIOUS
  <2>1. CASE y = x
    BY <2>1 DEF Resolved
  <2>2. CASE y # x
    BY <1>1, <1>2, <1>6, <1>7, <2>2 DEF LookInv
  <2> QED BY <2>1, <2>2
<1>9. LookInv'
  BY <1>1, <1>2, <1>4, <1>5, <1>8 DEF LookInv, others
<1> QED BY <1>3, <1>9 DEF IssueInv

\* A lookup that finds nothing, or fails, ends the call.
LEMMA RefusedKeeps ==
  ASSUME IssueInv, Refused, UNCHANGED <<others, issue, op, asked, options, outcome>>
  PROVE  IssueInv'
<1>1. step' = "refused" /\ UNCHANGED <<todo, others, issue, op, asked, options, outcome>>
  BY DEF Refused
<1>2. EverInv /\ IssueTypeOK /\ LookInv
  BY DEF IssueInv
<1>3. EverInv'
  BY <1>1, <1>2 DEF EverInv, others
<1>4. IssueTypeOK'
  BY <1>1, <1>2 DEF IssueTypeOK, others
<1>5. LookInv'
  BY <1>1, <1>2 DEF LookInv, others
<1> QED BY <1>3, <1>4, <1>5 DEF IssueInv

\* A lookup keeps the invariant, whatever it finds.
LEMMA LookupKeeps ==
  ASSUME IssueInv,
         CheckPush \/ ResolveLabels \/ ResolveMilestone \/ CheckUser \/ LookupFails
  PROVE  IssueInv'
<1>1. EverInv /\ IssueTypeOK /\ LookInv
  BY DEF IssueInv
<1>2. CASE Refused /\ UNCHANGED <<others, issue, op, asked, options, outcome>>
  BY <1>2, RefusedKeeps
<1>3. CASE CheckPush /\ Passed
  <2>1. /\ step = "look" /\ todo # <<>> /\ Head(todo) = "push" /\ push
        /\ UNCHANGED <<others, issue, op, asked, options, outcome>>
    BY <1>3 DEF CheckPush, LookingUp, Passed, Refused
  <2>2. Resolved("push")'
    BY <1>1, <2>1 DEF Resolved, EverInv, others
  <2> QED BY <1>1, <1>3, <2>1, <2>2, LookedUp DEF IssueTypeOK, LookInv
<1>4. CASE ResolveLabels /\ Passed
  <2>1. /\ step = "look" /\ todo # <<>> /\ Head(todo) = "labels"
        /\ UNCHANGED <<others, issue, op, asked, outcome>>
    BY <1>4 DEF ResolveLabels, LookingUp
  <2>2. PICK id \in [asked.labels -> LabelIds] :
          /\ \A n \in asked.labels : named[id[n]] = n
          /\ options' = [options EXCEPT !.labels = {id[n] : n \in asked.labels}]
    BY <1>4, <2>1 DEF ResolveLabels, Passed, Refused
  <2>3. \A n \in asked.labels : <<id[n], n>> \in everNamed
    BY <1>1, <2>2 DEF EverInv
  <2>4. /\ options' \in [text : {"new", Keep}, labels : SUBSET LabelIds,
                         assignee : Users \cup {Keep, Nobody},
                         milestone : MilestoneIds \cup {Keep, Nobody}]
        /\ options'.labels = {id[n] : n \in asked.labels}
        /\ options'.text = options.text /\ options'.assignee = options.assignee
        /\ options'.milestone = options.milestone
    BY <1>1, <2>2 DEF IssueTypeOK
  <2>5. Resolved("labels")'
    BY <2>1, <2>3, <2>4 DEF Resolved, others
  <2>6. \A i \in options'.labels : \E n \in asked.labels : <<i, n>> \in everNamed
    BY <2>3, <2>4
  <2> QED BY <1>4, <2>1, <2>4, <2>5, <2>6, LookedUp
<1>5. CASE ResolveMilestone /\ Passed
  <2>1. /\ step = "look" /\ todo # <<>> /\ Head(todo) = "milestone"
        /\ UNCHANGED <<others, issue, op, asked, outcome>>
    BY <1>5 DEF ResolveMilestone, LookingUp
  <2>2. PICK i \in MilestoneIds :
          named[i] = asked.milestone /\ options' = [options EXCEPT !.milestone = i]
    BY <1>5, <2>1 DEF ResolveMilestone, Passed, Refused
  <2>3. <<i, asked.milestone>> \in everNamed
    BY <1>1, <2>2 DEF EverInv
  <2>4. /\ options' \in [text : {"new", Keep}, labels : SUBSET LabelIds,
                         assignee : Users \cup {Keep, Nobody},
                         milestone : MilestoneIds \cup {Keep, Nobody}]
        /\ options'.milestone = i
        /\ options'.text = options.text /\ options'.assignee = options.assignee
        /\ options'.labels = options.labels
    BY <1>1, <2>2 DEF IssueTypeOK
  <2>5. Resolved("milestone")'
    BY <2>1, <2>3, <2>4 DEF Resolved, others
  <2> QED BY <1>1, <1>5, <2>1, <2>4, <2>5, LookedUp DEF LookInv
<1>6. CASE CheckUser /\ Passed
  <2>1. /\ step = "look" /\ todo # <<>> /\ Head(todo) = "assignee"
        /\ UNCHANGED <<others, issue, op, asked, outcome>>
        /\ asked.assignee \in users /\ options' = [options EXCEPT !.assignee = asked.assignee]
    BY <1>1, <1>6 DEF CheckUser, LookingUp, Passed, Refused
  <2>2. /\ options' \in [text : {"new", Keep}, labels : SUBSET LabelIds,
                         assignee : Users \cup {Keep, Nobody},
                         milestone : MilestoneIds \cup {Keep, Nobody}]
        /\ options'.assignee = asked.assignee
        /\ options'.text = options.text /\ options'.milestone = options.milestone
        /\ options'.labels = options.labels
    BY <1>1, <2>1 DEF IssueTypeOK
  <2>3. Resolved("assignee")'
    BY <1>1, <2>1, <2>2 DEF Resolved, others, EverInv
  <2> QED BY <1>1, <1>6, <2>1, <2>2, <2>3, LookedUp DEF LookInv
<1> QED
  BY <1>2, <1>3, <1>4, <1>5, <1>6
     DEF CheckPush, ResolveLabels, ResolveMilestone, CheckUser, LookupFails

\* The request is sent when nothing is left to look up.
LEMMA SendKeeps ==
  ASSUME IssueInv, Send
  PROVE  IssueInv'
<1>1. /\ EverInv /\ IssueTypeOK /\ LookInv /\ step = "look" /\ todo = <<>> /\ step' = "sent"
      /\ UNCHANGED <<others, op, asked, todo, options>>
  BY DEF IssueInv, Send
<1>2. Needed(asked)' = Needed(asked)
  BY <1>1 DEF Needed, Managed
<1>3. ToSet(todo) = {}
  BY <1>1 DEF ToSet
<1>4. \A x \in Needed(asked) : Resolved(x)'
  BY <1>1, <1>3 DEF LookInv, Resolved, others
<1> QED BY <1>1, <1>2, <1>4 DEF IssueInv, EverInv, IssueTypeOK, LookInv, others

\* What others do is added to what has been so.
LEMMA OthersKeep ==
  ASSUME IssueInv, ChangePush \/ ChangeUser \/ ChangeName \/ EditIssue
  PROVE  IssueInv'
<1>1. EverInv /\ IssueTypeOK /\ LookInv /\ UNCHANGED request
  BY DEF IssueInv, ChangePush, ChangeUser, ChangeName, EditIssue, Others
<1>2. /\ everPush' = (everPush \/ push') /\ everUsers' = everUsers \cup users'
      /\ everNamed' = everNamed \cup {<<i, named'[i]>> : i \in DOMAIN named}
  BY DEF ChangePush, ChangeUser, ChangeName, EditIssue, Others
<1>3. users' \subseteq Users /\ DOMAIN named' = DOMAIN named
  BY <1>1 DEF ChangePush, ChangeUser, ChangeName, EditIssue, EverInv
<1>4. EverInv'
  BY <1>1, <1>2, <1>3 DEF EverInv
<1>5. IssueTypeOK' /\ Needed(asked)' = Needed(asked)
  BY <1>1 DEF IssueTypeOK, request, Needed, Managed
<1>6. \A x : Resolved(x) => Resolved(x)'
  BY <1>1, <1>2 DEF Resolved, request
<1>7. LookInv'
  BY <1>1, <1>2, <1>5, <1>6 DEF LookInv, request
<1> QED BY <1>4, <1>5, <1>7 DEF IssueInv

\* Every step keeps the invariant of the references.
LEMMA IssueStep == IssueInv /\ [IssueNext]_issueVars => IssueInv'
<1> SUFFICES ASSUME IssueInv, [IssueNext]_issueVars PROVE IssueInv'
  OBVIOUS
<1>1. CASE UNCHANGED issueVars
  <2>1. Needed(asked)' = Needed(asked) /\ \A x : Resolved(x) => Resolved(x)'
    BY <1>1 DEF Needed, Managed, Resolved, issueVars, request, others
  <2> QED
    BY <1>1, <2>1 DEF IssueInv, EverInv, IssueTypeOK, LookInv, issueVars, request, others
<1> QED
  BY <1>1, StartKeeps, LookupKeeps, SendKeeps, OthersKeep DEF IssueNext, CreateIssue,
     UpdateIssue

\* It holds before the first lookup.
LEMMA IssueBegins == IssueInit => IssueInv
<1> SUFFICES ASSUME IssueInit PROVE IssueInv
  OBVIOUS
<1>1. /\ op \in {"create", "update"}
      /\ asked.text \in {"new", Keep} /\ asked.labels \subseteq Labels
      /\ asked.assignee \in Users \cup {Keep, Nobody}
      /\ asked.milestone \in Titles \cup {Keep, Nobody}
      /\ op = "update" => asked.labels = {}
  BY DEF IssueInit, Inputs
<1>2. /\ options.text = asked.text /\ options.labels = {}
      /\ asked.assignee \notin Users => options.assignee = asked.assignee
      /\ asked.milestone \notin Titles => options.milestone = asked.milestone
      /\ options \in [text : {"new", Keep}, labels : SUBSET LabelIds,
                      assignee : Users \cup {Keep, Nobody},
                      milestone : MilestoneIds \cup {Keep, Nobody}]
  BY <1>1 DEF IssueInit, Options
<1>3. EverInv
  BY DEF IssueInit, EverInv
<1>4. IssueTypeOK
  BY <1>1, <1>2 DEF IssueInit, IssueTypeOK
<1>5. LookInv
  BY <1>2 DEF IssueInit, LookInv
<1> QED BY <1>3, <1>4, <1>5 DEF IssueInv

\* The invariant of the references holds in every state.
LEMMA IssueAlways == IssueSpec => []IssueInv
BY IssueBegins, IssueStep, PTL DEF IssueSpec

\* A request that is sent carries what was asked for, and what it carries had that
\* name during the call; the user could push during it (issues.go:330).
THEOREM ReferencesAreChecked == IssueSpec => []ReferencesChecked
<1>1. IssueInv => ReferencesChecked
  <2> SUFFICES ASSUME IssueInv, step = "sent" PROVE ReferencesChecked
    BY DEF ReferencesChecked
  <2>1. IssueTypeOK /\ LookInv /\ \A x \in Needed(asked) : Resolved(x)
    BY DEF IssueInv, LookInv
  <2>2. Managed(asked) => everPush
    BY <2>1 DEF Needed, Resolved
  <2>3. asked.labels # {} => Resolved("labels")
    BY <2>1 DEF Needed
  <2>4. asked.milestone \in Titles => Resolved("milestone")
    BY <2>1 DEF Needed
  <2>5. asked.assignee \in Users => Resolved("assignee")
    BY <2>1 DEF Needed
  <2> QED BY <2>1, <2>2, <2>3, <2>4, <2>5 DEF ReferencesChecked, Resolved, LookInv
<1> QED BY <1>1, IssueAlways, PTL

\* An update changes what it was given and nothing else, whatever others do between
\* its lookups and its request (issue.go:205).
THEOREM UpdatesAreExact == IssueSpec => UpdateIsExact
<1> DEFINE Exact ==
      op = "update" /\ step' \in {"sent", "refused"} /\ step' # step =>
       /\ asked.text = Keep => issue'.text = issue.text
       /\ asked.assignee = Keep => issue'.assignee = issue.assignee
       /\ asked.milestone = Keep => issue'.milestone = issue.milestone
       /\ outcome' \in {"none", "error"} => issue' = issue
       /\ outcome' = "success" /\ push =>
            /\ asked.assignee = Nobody => issue'.assignee = Nobody
            /\ asked.milestone = Nobody => issue'.milestone = Nobody
<1>1. IssueInv /\ [IssueNext]_issueVars => [Exact]_issueVars
  <2> SUFFICES ASSUME IssueInv, IssueNext, step' \in {"sent", "refused"}, step' # step
               PROVE  Exact
    OBVIOUS
  <2>1. EverInv /\ IssueTypeOK /\ LookInv
    BY DEF IssueInv
  <2>2. CASE Start \/ CheckPush \/ ResolveLabels \/ ResolveMilestone \/ CheckUser \/ LookupFails
    <3>1. issue' = issue /\ outcome' = outcome /\ step \in {"start", "look"}
      BY <2>2 DEF Start, CheckPush, ResolveLabels, ResolveMilestone, CheckUser,
         LookupFails, LookingUp
    <3>2. outcome' # "success"
      BY <2>1, <3>1 DEF LookInv
    <3> QED BY <3>1, <3>2
  <2>3. CASE Send
    <3>1. CASE issue' = issue /\ outcome' \in {"error", "unknown"}
      BY <3>1
    <3>2. CASE issue' = Applied(options) /\ outcome' \in {"success", "unknown"}
      <4>1. options.text = asked.text
        BY <2>1 DEF LookInv
      <4>2. asked.text = Keep => issue'.text = issue.text
        BY <3>2, <4>1 DEF Applied
      <4>3. /\ Keep \notin Users \cup {Nobody} /\ Nobody \notin Users
            /\ Keep \notin Titles /\ Nobody \notin Titles
            /\ Keep \notin MilestoneIds \cup {Nobody}
        BY IssueAssumption
      <4>4. asked.assignee = Keep => issue'.assignee = issue.assignee
        BY <2>1, <3>2, <4>3 DEF Applied, LookInv, EverInv
      <4>5. asked.milestone = Keep => issue'.milestone = issue.milestone
        BY <2>1, <3>2, <4>3 DEF Applied, LookInv
      <4>6. push /\ asked.assignee = Nobody => issue'.assignee = Nobody
        BY <2>1, <3>2, <4>3 DEF Applied, LookInv
      <4>7. push /\ asked.milestone = Nobody => issue'.milestone = Nobody
        BY <2>1, <3>2, <4>3 DEF Applied, LookInv
      <4> QED BY <3>2, <4>2, <4>4, <4>5, <4>6, <4>7
    <3> QED BY <2>3, <3>1, <3>2 DEF Send
  <2>4. CASE ChangePush \/ ChangeUser \/ ChangeName \/ EditIssue
    <3>1. step' = step
      BY <2>4 DEF ChangePush, ChangeUser, ChangeName, EditIssue, Others, request
    <3> QED BY <3>1
  <2> QED BY <2>2, <2>3, <2>4 DEF IssueNext, CreateIssue, UpdateIssue
<1> QED BY <1>1, IssueAlways, PTL DEF IssueSpec, UpdateIsExact


-----------------------------------------------------------------------------
\* Output.

-----------------------------------------------------------------------------
\* Bodies, files and results.

\* What was read of a body that nobody edited.
BodyInv ==
  text.kind = "body" /\ ~edited =>
    /\ text \in Bodies /\ pos \in Bounds(text)
    /\ got = [i \in 1..pos |-> i - 1]
    /\ progress = "more" \/ (progress = "end" /\ pos = text.len)

\* What was read of a file: all lines before the next, and a prefix of those that
\* alone exceed the limit.
FileInv ==
  text.kind = "file" =>
    /\ text \in Files
    /\ pos \in 1..(Len(text.lines) + 1)
    /\ got = [i \in 1..(pos - 1) |-> i]
    /\ cut = {i \in 1..(pos - 1) : text.lines[i] > FileBytes}
    /\ progress = "more" \/ (progress = "end" /\ pos = Len(text.lines) + 1)

\* A result as it is cut: while it does not fit, the last limit would make of it
\* what it would make of the result that the handler returned.
ResultInv ==
  text.kind = "result" =>
    /\ text \in [kind : {"result"}, fixed : Nat, text : Nat, members : Seq(Nat)]
    /\ progress = "more" /\ pos > 0 =>
         /\ pos \in Nat
         /\ ~Fits(got[1])
         /\ got[1] \in [kind : {"result"}, fixed : Nat, text : Nat, members : Seq(Nat)]
         /\ Len(text.members) = Len(got[1].members)
         /\ TrimOutput(text, 1) = TrimOutput(Warned(got[1]), 1)

OutputInv ==
  /\ text.kind \in {"body", "file", "result"}
  /\ progress \in {"more", "end", "refused"}
  /\ BodyInv /\ FileInv /\ ResultInv /\ OutputFits

-----------------------------------------------------------------------------
\* What was returned grows by the next part.
LEMMA NextPart ==
  ASSUME NEW a \in Nat, NEW b \in Nat, a <= b, NEW d \in Int
  PROVE  [i \in 1..a |-> i + d] \o [i \in 1..(b - a) |-> a + i + d] = [i \in 1..b |-> i + d]
<1> DEFINE s == [i \in 1..a |-> i + d]
<1> DEFINE t == [i \in 1..(b - a) |-> a + i + d]
<1> DEFINE u == [i \in 1..b |-> i + d]
<1>1. b - a \in Nat /\ a + (b - a) = b
  OBVIOUS
<1>2. s \in Seq(Int) /\ Len(s) = a /\ t \in Seq(Int) /\ Len(t) = b - a
      /\ u \in Seq(Int) /\ Len(u) = b
  <2>1. s \in [1..a -> Int] /\ t \in [1..(b - a) -> Int] /\ u \in [1..b -> Int]
    OBVIOUS
  <2>2. s \in Seq(Int) /\ t \in Seq(Int) /\ u \in Seq(Int)
    BY <1>1, <2>1, SeqDef
  <2>3. DOMAIN s = 1..a /\ DOMAIN t = 1..(b - a) /\ DOMAIN u = 1..b
    OBVIOUS
  <2> HIDE DEF s, t, u
  <2>4. \A k, m \in Nat : 1..k = 1..m => k = m
    <3> SUFFICES ASSUME NEW k \in Nat, NEW m \in Nat, 1..k = 1..m, k < m PROVE FALSE
      BY DEF s
    <3>1. m \in 1..m /\ m \notin 1..k
      OBVIOUS
    <3> QED BY <3>1
  <2> QED BY <1>1, <2>2, <2>3, <2>4, LenProperties
<1>3. \A i \in 1..a : s[i] = i + d
  OBVIOUS
<1>4. \A i \in 1..(b - a) : t[i] = a + i + d
  OBVIOUS
<1>5. \A i \in 1..b : u[i] = i + d
  OBVIOUS
<1> HIDE DEF s, t, u
<1>6. /\ s \o t \in Seq(Int) /\ Len(s \o t) = b
      /\ \A i \in 1..b : (s \o t)[i] = IF i <= a THEN s[i] ELSE t[i - a]
  BY <1>1, <1>2, ConcatProperties
<1>7. ASSUME NEW i \in 1..b PROVE (s \o t)[i] = u[i]
  <2>1. CASE i <= a
    BY <1>3, <1>5, <1>6, <2>1
  <2>2. CASE ~(i <= a)
    <3>1. i - a \in 1..(b - a) /\ a + (i - a) = i
      BY <2>2
    <3>2. (s \o t)[i] = t[i - a]
      BY <1>6, <2>2
    <3> QED BY <1>4, <1>5, <3>1, <3>2
  <2> QED BY <2>1, <2>2
<1>8. s \o t = u
  BY <1>2, <1>6, <1>7, SeqEqual
<1> QED BY <1>8 DEF s, t, u

\* The offsets at which a chunk of a body may begin or end.
LEMMA BodyHas ==
  ASSUME NEW b \in Bodies
  PROVE  /\ b.len \in Nat /\ b.starts \subseteq Nat
         /\ Bounds(b) \subseteq Nat /\ b.len \in Bounds(b)
         /\ \A p \in Bounds(b) : p <= b.len
         /\ b.kind = "body"
         /\ 0 \in Bounds(b)
BY OutputAssumption DEF Bodies, Bounds

\* A chunk that begins at the start of a character ends at one, and is not empty
\* unless the body is at its end.
LEMMA ChunkEnds ==
  ASSUME NEW b \in Bodies, NEW p \in Bounds(b), NEW max \in Nat
  PROVE  /\ BodyEnd(b, p, max) \in Bounds(b)
         /\ BodyEnd(b, p, max) >= p
<1> DEFINE From == {q \in Bounds(b) : q >= p}
<1> DEFINE o == Min(From)
<1> DEFINE m == IF max = 0 \/ max > ChunkBytes THEN ChunkBytes ELSE max
<1> DEFINE In == {q \in Bounds(b) : o <= q /\ q <= o + m}
<1> DEFINE e == Max(In)
<1> DEFINE Beyond == {q \in Bounds(b) : q > o}
<1>1. /\ Bounds(b) \subseteq Nat /\ b.len \in Bounds(b) /\ b.len \in Nat
      /\ \A q \in Bounds(b) : q <= b.len
  BY BodyHas
<1>2. o = p
  <2>1. From \in SUBSET Nat /\ p \in From
    BY <1>1
  <2>2. o \in From /\ \A q \in From : o <= q
    <3> HIDE DEF From
    <3> QED BY <2>1, MinIs, Zenon
  <2> HIDE DEF o
  <2>3. o \in Nat /\ p \in Nat /\ o >= p /\ o <= p
    BY <1>1, <2>1, <2>2
  <2> QED BY <2>3
<1>3. m \in Nat
  BY OutputAssumption
<1> HIDE DEF o, m
<1>4. e \in In
  <2>1. In \in SUBSET Nat /\ p \in In
    BY <1>1, <1>2, <1>3
  <2>2. o + m \in Nat /\ \A q \in In : q <= o + m
    BY <1>1, <1>2, <1>3
  <2> HIDE DEF In
  <2>3. In # {}
    BY <2>1
  <2> QED BY <2>1, <2>2, <2>3, MaxIs, Zenon
<1>5. o < b.len => Min(Beyond) \in Beyond
  <2>1. SUFFICES ASSUME o < b.len PROVE Min(Beyond) \in Beyond
    OBVIOUS
  <2>2. Beyond \in SUBSET Nat /\ b.len \in Beyond
    BY <1>1, <2>1
  <2> HIDE DEF Beyond
  <2>3. Beyond # {}
    BY <2>2
  <2> QED BY <2>2, <2>3, MinIs, Zenon
<1>6. BodyEnd(b, p, max) = IF e = o /\ o < b.len THEN Min(Beyond) ELSE e
  BY Zenon DEF BodyEnd, o, m
<1>7. e \in Bounds(b) /\ e >= p
  BY <1>2, <1>4
<1> HIDE DEF e
<1>8. CASE e = o /\ o < b.len
  <2>1. Min(Beyond) \in Beyond
    BY <1>5, <1>8
  <2>2. BodyEnd(b, p, max) \in Beyond
    BY <1>6, <1>8, <2>1
  <2>3. \A q \in Beyond : q \in Bounds(b) /\ q \in Nat /\ o \in Nat /\ q > o
    BY <1>1, <1>2
  <2> HIDE DEF Beyond
  <2> QED BY <1>2, <2>2, <2>3
<1>9. CASE ~(e = o /\ o < b.len)
  BY <1>6, <1>7, <1>9
<1> QED BY <1>8, <1>9

\* A body that is read grows by its next chunk.
LEMMA ReadBodyKeeps ==
  ASSUME OutputInv, ReadBody
  PROVE  OutputInv'
<1>1. text.kind = "body" /\ text' = text /\ cut' = cut /\ edited' = edited
  BY DEF ReadBody
<1>2. text'.kind = "body"
  BY <1>1
<1>3. FileInv' /\ ResultInv' /\ OutputFits'
  BY <1>2 DEF FileInv, ResultInv, OutputFits
<1>4. progress' \in {"more", "end", "refused"}
  BY DEF ReadBody
<1>5. ASSUME ~edited
      PROVE  /\ text \in Bodies /\ pos' \in Bounds(text)
             /\ got' = [i \in 1..pos' |-> i - 1]
             /\ progress' = "more" \/ (progress' = "end" /\ pos' = text.len)
  <2>1. text \in Bodies /\ pos \in Bounds(text) /\ got = [i \in 1..pos |-> i - 1]
    BY <1>1, <1>5 DEF OutputInv, BodyInv
  <2>2. PICK max \in 0..(MaxRune + 1) :
          LET end == BodyEnd(text, pos, max) IN
            /\ got' = got \o [i \in 1..(end - pos) |-> pos + i - 1]
            /\ pos' = end
            /\ progress' = IF end < text.len THEN "more" ELSE "end"
    BY <2>1 DEF ReadBody, ValidOffset
  <2>3. max \in Nat
    BY OutputAssumption
  <2>4. /\ pos' = BodyEnd(text, pos, max)
        /\ got' = got \o [i \in 1..(pos' - pos) |-> pos + i - 1]
        /\ progress' = IF pos' < text.len THEN "more" ELSE "end"
    BY <2>2, Zenon
  <2>5. pos' \in Bounds(text) /\ pos' >= pos
    BY <2>1, <2>3, <2>4, ChunkEnds
  <2>6. pos \in Nat /\ pos' \in Nat /\ text.len \in Nat /\ pos' <= text.len
    BY <2>1, <2>5, BodyHas
  <2>7. got' = [i \in 1..pos' |-> i - 1]
    <3>1. [i \in 1..pos |-> i + (-1)] \o [i \in 1..(pos' - pos) |-> pos + i + (-1)]
            = [i \in 1..pos' |-> i + (-1)]
      <4>1. \A a, b \in Nat : a <= b =>
              [i \in 1..a |-> i + (-1)] \o [i \in 1..(b - a) |-> a + i + (-1)]
                = [i \in 1..b |-> i + (-1)]
        <5>1. SUFFICES ASSUME NEW a \in Nat, NEW b \in Nat, a <= b, NEW d \in Int
                       PROVE  [i \in 1..a |-> i + d] \o [i \in 1..(b - a) |-> a + i + d]
                                = [i \in 1..b |-> i + d]
          OBVIOUS
        <5> QED BY <5>1, NextPart
      <4> QED BY <2>5, <2>6, <4>1
    <3>2. /\ [i \in 1..pos |-> i + (-1)] = [i \in 1..pos |-> i - 1]
          /\ [i \in 1..(pos' - pos) |-> pos + i + (-1)] = [i \in 1..(pos' - pos) |-> pos + i - 1]
          /\ [i \in 1..pos' |-> i + (-1)] = [i \in 1..pos' |-> i - 1]
      BY <2>6
    <3> QED BY <2>1, <2>4, <3>1, <3>2, Zenon
  <2>8. progress' = "more" \/ (progress' = "end" /\ pos' = text.len)
    BY <2>4, <2>6
  <2> QED BY <2>1, <2>5, <2>7, <2>8
<1>6. BodyInv'
  BY <1>1, <1>5 DEF BodyInv
<1> QED BY <1>2, <1>3, <1>4, <1>6 DEF OutputInv

\* The next chunk is then of another body.
LEMMA EditBodyKeeps ==
  ASSUME OutputInv, EditBody
  PROVE  OutputInv'
<1>1. text'.kind = "body" /\ edited' = TRUE /\ progress' = progress
  BY DEF EditBody, Bodies
<1> QED BY <1>1 DEF OutputInv, BodyInv, FileInv, ResultInv, OutputFits

-----------------------------------------------------------------------------
\* Lines of a file: one alone is as long as it is, and none is longer than the
\* range it is in.
LEMMA EncodedIsSum ==
  ASSUME NEW lines, NEW p, NEW k
  PROVE  Encoded(lines, p, k) = SumFcn(lines, p..k)[p..k] + Separator * (k - p)
BY Zenon DEF Encoded, SumFcn, Chosen, MapThenSumSet, MapThenFoldSet

\* A range of lines is at least as long as each of its lines.
LEMMA EncodedHas ==
  ASSUME NEW lines, NEW p \in Nat, NEW k \in Nat, p <= k,
         \A i \in p..k : lines[i] \in Nat
  PROVE  /\ Encoded(lines, p, k) \in Nat
         /\ \A i \in p..k : lines[i] <= Encoded(lines, p, k)
         /\ k = p => Encoded(lines, p, k) = lines[p]
<1> DEFINE sum == SumFcn(lines, p..k)[p..k]
<1>1. sum \in Nat /\ \A i \in p..k : lines[i] <= sum
  <2>1. IsFiniteSet(p..k)
    BY FS_Interval
  <2> QED BY <2>1, SumHasTerms
<1>2. Encoded(lines, p, k) = sum + Separator * (k - p)
  BY EncodedIsSum
<1>3. k = p => sum = lines[p]
  <2> SUFFICES ASSUME k = p PROVE sum = lines[p]
    OBVIOUS
  <2>1. p..k = {p} /\ lines[p] \in Nat
    OBVIOUS
  <2>2. SumFcn(lines, {p})[{p}] = lines[p]
    BY <2>1, SumOfOne
  <2> QED BY <2>1, <2>2, Zenon
<1> HIDE DEF sum
<1>4. Separator * (k - p) \in Nat /\ (k = p => Separator * (k - p) = 0)
  BY OutputAssumption
<1>5. \A x, y \in Nat : x + y \in Nat /\ x <= x + y /\ (y = 0 => x + y = x)
  OBVIOUS
<1>6. Encoded(lines, p, k) \in Nat /\ sum <= Encoded(lines, p, k)
  BY <1>1, <1>2, <1>4, <1>5
<1>7. \A i \in p..k : lines[i] <= Encoded(lines, p, k)
  <2> SUFFICES ASSUME NEW i \in p..k PROVE lines[i] <= Encoded(lines, p, k)
    OBVIOUS
  <2>1. lines[i] \in Nat /\ lines[i] <= sum
    BY <1>1
  <2> QED BY <1>1, <1>6, <2>1
<1> QED BY <1>1, <1>2, <1>3, <1>4, <1>5, <1>6, <1>7

\* The lines that fit are short enough each; when none does, the first is too long.
LEMMA FittingLines ==
  ASSUME NEW lines, NEW p \in Nat \ {0}, NEW end \in Nat, p <= end,
         \A i \in p..end : lines[i] \in Nat
  PROVE  /\ LastFitting(lines, p, end) \in (p - 1)..end
         /\ LastFitting(lines, p, end) < p => lines[p] > FileBytes
         /\ \A i \in p..LastFitting(lines, p, end) : lines[i] <= FileBytes
<1> DEFINE Good == {k \in p..end : Encoded(lines, p, k) <= FileBytes}
<1> DEFINE fit == Max({p - 1} \cup Good)
<1>1. ASSUME NEW k \in p..end
      PROVE  /\ Encoded(lines, p, k) \in Nat
             /\ \A i \in p..k : lines[i] <= Encoded(lines, p, k)
             /\ k = p => Encoded(lines, p, k) = lines[p]
  <2>1. k \in Nat /\ p <= k /\ \A i \in p..k : lines[i] \in Nat
    OBVIOUS
  <2> QED BY <2>1, EncodedHas
<1>2. fit \in {p - 1} \cup Good /\ \A k \in {p - 1} \cup Good : fit >= k
  <2>1. {p - 1} \cup Good \in SUBSET Nat /\ {p - 1} \cup Good # {}
        /\ \A k \in {p - 1} \cup Good : k <= end
    OBVIOUS
  <2> HIDE DEF Good
  <2> QED BY <2>1, MaxIs, Zenon
<1>3. LastFitting(lines, p, end) = fit
  BY DEF LastFitting
<1> HIDE DEF fit
<1>4. fit \in (p - 1)..end
  BY <1>2
<1>5. ASSUME fit < p PROVE lines[p] > FileBytes
  <2>1. p \notin Good
    BY <1>2, <1>4, <1>5
  <2>2. p \in p..end /\ Encoded(lines, p, p) = lines[p] /\ lines[p] \in Nat
    BY <1>1
  <2> QED BY <2>1, <2>2, OutputAssumption
<1>6. ASSUME NEW i \in p..fit PROVE lines[i] <= FileBytes
  <2>1. fit \in Good
    BY <1>2, <1>4
  <2>2. fit \in p..end /\ Encoded(lines, p, fit) <= FileBytes /\ i \in p..end
    BY <1>4, <2>1
  <2>3. lines[i] <= Encoded(lines, p, fit) /\ Encoded(lines, p, fit) \in Nat /\ lines[i] \in Nat
    BY <1>1, <2>2
  <2> QED BY <2>2, <2>3, OutputAssumption
<1> QED BY <1>3, <1>4, <1>5, <1>6

\* A file has as many lines as it has lengths of lines.
LEMMA FileHas ==
  ASSUME NEW f \in Files
  PROVE  /\ f.kind = "file"
         /\ Len(f.lines) \in Nat /\ DOMAIN f.lines = 1..Len(f.lines)
         /\ \A i \in 1..Len(f.lines) : f.lines[i] \in Nat
<1>1. PICK s \in SeqOf(0..(FileBytes + 1), MaxLines) : f = [kind |-> "file", lines |-> s]
  BY DEF Files
<1>2. PICK m \in 0..MaxLines : s \in [1..m -> 0..(FileBytes + 1)]
  BY DEF SeqOf
<1>3. m \in Nat /\ 0..(FileBytes + 1) \subseteq Nat
  BY OutputAssumption
<1>4. s \in [1..m -> Nat]
  BY <1>2, <1>3
<1>5. s \in Seq(Nat)
  BY <1>3, <1>4, SeqDef
<1>6. Len(s) \in Nat /\ DOMAIN s = 1..Len(s) /\ \A i \in 1..Len(s) : s[i] \in Nat
  BY <1>5, LenProperties, ElementOfSeq
<1> QED BY <1>1, <1>6

\* A file that is read grows by the lines that fit, or by a prefix of one that
\* alone does not.
LEMMA ReadFileKeeps ==
  ASSUME OutputInv, ReadFile
  PROVE  OutputInv'
<1>1. text.kind = "file" /\ text' = text /\ edited' = edited /\ progress = "more"
  BY DEF ReadFile
<1>2. BodyInv' /\ ResultInv' /\ OutputFits'
  BY <1>1 DEF BodyInv, ResultInv, OutputFits
<1>3. progress' \in {"more", "end", "refused"}
  BY DEF ReadFile
<1> DEFINE n == Len(text.lines)
<1>4. /\ text \in Files /\ pos \in 1..(n + 1)
      /\ got = [i \in 1..(pos - 1) |-> i]
      /\ cut = {i \in 1..(pos - 1) : text.lines[i] > FileBytes}
  BY <1>1 DEF OutputInv, FileInv
<1>5. n \in Nat /\ \A i \in 1..n : text.lines[i] \in Nat
  BY <1>4, FileHas
<1> HIDE DEF n
<1>6. CASE pos > n
  <2>1. progress' = "end" /\ pos' = pos /\ got' = got /\ cut' = cut
    BY <1>6 DEF ReadFile, n
  <2>2. pos' = n + 1
    BY <1>4, <1>5, <1>6, <2>1
  <2>3. FileInv'
    BY <1>1, <1>4, <2>1, <2>2 DEF FileInv, n
  <2> QED BY <1>1, <1>2, <1>3, <2>3 DEF OutputInv
<1>7. CASE ~(pos > n)
  <2>1. PICK count \in 1..MaxLines :
          LET end == Min({pos + count - 1, n})
              fit == LastFitting(text.lines, pos, end)
              last == IF fit < pos THEN pos ELSE fit
          IN /\ got' = got \o [i \in 1..(last - pos + 1) |-> pos + i - 1]
             /\ cut' = IF fit < pos THEN cut \cup {pos} ELSE cut
             /\ pos' = last + 1
             /\ progress' = IF last < n THEN "more" ELSE "end"
    BY <1>7 DEF ReadFile, n
  <2> DEFINE end == Min({pos + count - 1, n})
  <2> DEFINE fit == LastFitting(text.lines, pos, end)
  <2> DEFINE last == IF fit < pos THEN pos ELSE fit
  <2>2. /\ got' = got \o [i \in 1..(last - pos + 1) |-> pos + i - 1]
        /\ cut' = IF fit < pos THEN cut \cup {pos} ELSE cut
        /\ pos' = last + 1
        /\ progress' = IF last < n THEN "more" ELSE "end"
    BY <2>1, Zenon
  <2>3. pos \in Nat \ {0} /\ count \in Nat \ {0} /\ pos <= n
    BY <1>4, <1>5, <1>7, OutputAssumption
  <2>4. end \in pos..n
    <3>1. {pos + count - 1, n} \in SUBSET Nat
      BY <1>5, <2>3
    <3>2. end \in {pos + count - 1, n} /\ \A x \in {pos + count - 1, n} : end <= x
      BY <3>1, MinIs
    <3> HIDE DEF end
    <3> QED BY <1>5, <2>3, <3>2
  <2> HIDE DEF end
  <2>5. /\ fit \in (pos - 1)..end
        /\ fit < pos => text.lines[pos] > FileBytes
        /\ \A i \in pos..fit : text.lines[i] <= FileBytes
    <3>1. end \in Nat /\ pos <= end /\ \A i \in pos..end : text.lines[i] \in Nat
      BY <1>5, <2>3, <2>4
    <3> QED BY <2>3, <3>1, FittingLines
  <2> HIDE DEF fit
  <2>6. last \in pos..n /\ last \in Nat
    BY <1>5, <2>3, <2>4, <2>5
  <2>7. got' = [i \in 1..last |-> i]
    <3>1. \A a, b \in Nat : a <= b =>
            [i \in 1..a |-> i] \o [i \in 1..(b - a) |-> a + i] = [i \in 1..b |-> i]
      <4>1. \A a, b \in Nat : a <= b =>
              [i \in 1..a |-> i + 0] \o [i \in 1..(b - a) |-> a + i + 0]
                = [i \in 1..b |-> i + 0]
        <5>1. SUFFICES ASSUME NEW a \in Nat, NEW b \in Nat, a <= b, NEW d \in Int
                       PROVE  [i \in 1..a |-> i + d] \o [i \in 1..(b - a) |-> a + i + d]
                                = [i \in 1..b |-> i + d]
          OBVIOUS
        <5> QED BY <5>1, NextPart
      <4>2. ASSUME NEW a \in Nat, NEW b \in Nat, a <= b
            PROVE  /\ [i \in 1..a |-> i + 0] = [i \in 1..a |-> i]
                   /\ [i \in 1..(b - a) |-> a + i + 0] = [i \in 1..(b - a) |-> a + i]
                   /\ [i \in 1..b |-> i + 0] = [i \in 1..b |-> i]
        OBVIOUS
      <4> QED BY <4>1, <4>2
    <3> HIDE DEF last
    <3>2. pos - 1 \in Nat /\ pos - 1 <= last /\ last - (pos - 1) = last - pos + 1
      BY <2>3, <2>6
    <3>3. [i \in 1..(pos - 1) |-> i] \o [i \in 1..(last - (pos - 1)) |-> (pos - 1) + i]
            = [i \in 1..last |-> i]
      BY <2>6, <3>1, <3>2
    <3>4. [i \in 1..(last - (pos - 1)) |-> (pos - 1) + i]
            = [i \in 1..(last - pos + 1) |-> pos + i - 1]
      BY <2>3, <2>6, <3>2
    <3> QED BY <1>4, <2>2, <3>3, <3>4
  <2>8. cut' = {i \in 1..last : text.lines[i] > FileBytes}
    <3>1. CASE fit < pos
      <4>1. last = pos /\ cut' = cut \cup {pos} /\ text.lines[pos] > FileBytes
        BY <2>2, <2>5, <3>1
      <4>2. \A i : i \in 1..pos <=> (i \in 1..(pos - 1) \/ i = pos)
        BY <2>3
      <4> QED BY <1>4, <4>1, <4>2
    <3>2. CASE ~(fit < pos)
      <4>1. last = fit /\ cut' = cut
        BY <2>2, <3>2
      <4>2. \A i \in pos..last : ~(text.lines[i] > FileBytes)
        <5> SUFFICES ASSUME NEW i \in pos..last PROVE ~(text.lines[i] > FileBytes)
          OBVIOUS
        <5>1. i \in 1..n /\ i \in pos..fit
          BY <1>5, <2>3, <2>6, <4>1
        <5>2. text.lines[i] \in Nat /\ text.lines[i] <= FileBytes
          BY <1>5, <2>5, <5>1
        <5> QED BY <5>2, OutputAssumption
      <4> HIDE DEF last
      <4>3. \A i : i \in 1..last <=> (i \in 1..(pos - 1) \/ i \in pos..last)
        BY <2>3, <2>6
      <4> QED BY <1>4, <4>1, <4>2, <4>3
    <3> QED BY <3>1, <3>2
  <2> HIDE DEF last
  <2>9. pos' \in 1..(n + 1) /\ pos' - 1 = last
    BY <1>5, <2>2, <2>3, <2>6
  <2>10. progress' = "more" \/ (progress' = "end" /\ pos' = n + 1)
    BY <1>5, <2>2, <2>6
  <2>11. FileInv'
    BY <1>1, <1>4, <2>7, <2>8, <2>9, <2>10 DEF FileInv, n
  <2> QED BY <1>1, <1>2, <1>3, <2>11 DEF OutputInv
<1> QED BY <1>6, <1>7

-----------------------------------------------------------------------------
\* Results.

ResultTypes == [kind : {"result"}, fixed : Nat, text : Nat, members : Seq(Nat)]

\* A result that was cut is one, with as many members; and a limit of 1 makes of
\* it what it makes of the result as it was.
LEMMA CutTwice ==
  ASSUME NEW r \in ResultTypes, NEW k \in Nat, k >= 1
  PROVE  /\ TrimOutput(r, k) \in ResultTypes
         /\ Len(TrimOutput(r, k).members) = Len(r.members)
         /\ TrimOutput(TrimOutput(r, k), 1) = TrimOutput(r, 1)
<1> DEFINE Cut(q, l) == [i \in DOMAIN q.members |-> Trimmed(q.members[i], l)]
<1>1. /\ r.kind = "result" /\ r.fixed \in Nat /\ r.text \in Nat /\ r.members \in Seq(Nat)
      /\ r = [kind |-> "result", fixed |-> r.fixed, text |-> r.text, members |-> r.members]
  BY DEF ResultTypes
<1>2. \A l \in Nat : l >= 1 =>
        \A x \in Nat : Trimmed(x, l) \in Nat /\ Trimmed(Trimmed(x, l), 1) = Trimmed(x, 1)
  BY DEF Trimmed
<1>3. ASSUME NEW q \in ResultTypes, NEW l \in Nat, l >= 1
      PROVE  /\ Cut(q, l) \in Seq(Nat) /\ Len(Cut(q, l)) = Len(q.members)
             /\ DOMAIN Cut(q, l) = DOMAIN q.members
             /\ TrimOutput(q, l) = [kind |-> "result", fixed |-> q.fixed,
                                    text |-> Trimmed(q.text, l), members |-> Cut(q, l)]
             /\ TrimOutput(q, l) \in ResultTypes
  <2>1. /\ q.fixed \in Nat /\ q.text \in Nat /\ q.members \in Seq(Nat)
        /\ q = [kind |-> "result", fixed |-> q.fixed, text |-> q.text, members |-> q.members]
    BY DEF ResultTypes
  <2>2. DOMAIN q.members = 1..Len(q.members) /\ Len(q.members) \in Nat
        /\ \A i \in DOMAIN q.members : q.members[i] \in Nat
    BY <2>1
  <2>3. Cut(q, l) \in [1..Len(q.members) -> Nat]
    BY <1>2, <1>3, <2>2
  <2>4. Cut(q, l) \in Seq(Nat) /\ DOMAIN Cut(q, l) = 1..Len(q.members)
    BY <2>2, <2>3, SeqDef
  <2>5. Len(Cut(q, l)) = Len(q.members)
    <3> HIDE DEF Cut
    <3>1. Len(Cut(q, l)) \in Nat /\ DOMAIN Cut(q, l) = 1..Len(Cut(q, l))
      BY <2>4, LenProperties
    <3> SUFFICES ASSUME Len(Cut(q, l)) # Len(q.members) PROVE FALSE
      OBVIOUS
    <3>2. \A x \in Nat : x \in 1..x \/ x = 0
      OBVIOUS
    <3> QED BY <2>2, <2>4, <3>1, <3>2
  <2>6. TrimOutput(q, l) = [kind |-> "result", fixed |-> q.fixed,
                            text |-> Trimmed(q.text, l), members |-> Cut(q, l)]
    <3>1. q.kind = "result"
      BY DEF ResultTypes
    <3> QED BY <3>1, Zenon DEF TrimOutput
  <2>7. TrimOutput(q, l) \in ResultTypes
    <3> HIDE DEF Cut
    <3> QED BY <1>2, <1>3, <2>1, <2>4, <2>6 DEF ResultTypes
  <2> QED BY <2>2, <2>4, <2>5, <2>6, <2>7
<1>3a. \A q \in ResultTypes : \A l \in Nat : l >= 1 =>
         /\ Cut(q, l) \in Seq(Nat) /\ Len(Cut(q, l)) = Len(q.members)
         /\ DOMAIN Cut(q, l) = DOMAIN q.members
         /\ TrimOutput(q, l) = [kind |-> "result", fixed |-> q.fixed,
                                text |-> Trimmed(q.text, l), members |-> Cut(q, l)]
         /\ TrimOutput(q, l) \in ResultTypes
  BY <1>3
<1> DEFINE c == TrimOutput(r, k)
<1>4. /\ c \in ResultTypes /\ c.fixed = r.fixed /\ c.text = Trimmed(r.text, k)
      /\ c.members = Cut(r, k) /\ DOMAIN c.members = DOMAIN r.members
      /\ Len(c.members) = Len(r.members)
  <2> HIDE DEF c, Cut
  <2>1. c = [kind |-> "result", fixed |-> r.fixed, text |-> Trimmed(r.text, k), members |-> Cut(r, k)]
    BY <1>3 DEF c
  <2> QED BY <1>3, <2>1 DEF c
<1>5. Cut(c, 1) = Cut(r, 1)
  <2>1. \A i \in DOMAIN r.members : Trimmed(c.members[i], 1) = Trimmed(r.members[i], 1)
    <3> SUFFICES ASSUME NEW i \in DOMAIN r.members
                 PROVE  Trimmed(c.members[i], 1) = Trimmed(r.members[i], 1)
      OBVIOUS
    <3>1. c.members[i] = Trimmed(r.members[i], k) /\ r.members[i] \in Nat
      BY <1>1, <1>4
    <3> QED BY <1>2, <3>1
  <2> HIDE DEF c
  <2> QED BY <1>4, <2>1, Zenon
<1>6. Trimmed(c.text, 1) = Trimmed(r.text, 1)
  <2> HIDE DEF c
  <2> QED BY <1>1, <1>2, <1>4
<1>7. TrimOutput(c, 1) = TrimOutput(r, 1)
  <2> HIDE DEF c, Cut
  <2>0. 1 \in Nat /\ 1 >= 1
    OBVIOUS
  <2>1. TrimOutput(c, 1) = [kind |-> "result", fixed |-> c.fixed, text |-> Trimmed(c.text, 1), members |-> Cut(c, 1)]
    BY <1>3a, <1>4, <2>0, Zenon
  <2>2. TrimOutput(r, 1) = [kind |-> "result", fixed |-> r.fixed, text |-> Trimmed(r.text, 1), members |-> Cut(r, 1)]
    BY <1>3a, <2>0, Zenon
  <2> QED BY <1>4, <1>5, <1>6, <2>1, <2>2
<1> QED BY <1>4, <1>7 DEF c

\* A result that fits is sent as it is.
LEMMA MeasureKeeps ==
  ASSUME OutputInv, Measure
  PROVE  OutputInv'
<1>1. /\ text.kind = "result" /\ text \in ResultTypes /\ progress = "more"
      /\ got' = <<text>> /\ pos' = TrimFrom
  BY DEF Measure, OutputInv, ResultInv, ResultTypes
<1>2. got'[1] = text
  BY <1>1
<1>3. CASE Fits(text)
  <2>1. progress' = "end" /\ text' = text
    BY <1>3 DEF Measure
  <2> QED BY <1>1, <1>2, <1>3, <2>1 DEF OutputInv, BodyInv, FileInv, ResultInv, OutputFits,
             ResultTypes
<1>4. CASE ~Fits(text)
  <2>1. text' = Warned(text) /\ progress' = progress
    BY <1>4 DEF Measure
  <2>2. /\ Warned(text) \in ResultTypes /\ Warned(text).kind = "result"
        /\ Warned(text).members = text.members
    <3>1. \A k, f, t, m, w : [[kind |-> k, fixed |-> f, text |-> t, members |-> m]
                                EXCEPT !.fixed = f + w]
                               = [kind |-> k, fixed |-> f + w, text |-> t, members |-> m]
      OBVIOUS
    <3>2. PICK r \in ResultTypes : r = text
      BY <1>1
    <3>3. r = [kind |-> "result", fixed |-> r.fixed, text |-> r.text, members |-> r.members]
          /\ r.fixed \in Nat /\ r.text \in Nat /\ r.members \in Seq(Nat)
      BY DEF ResultTypes
    <3>4. Warned(r) = [kind |-> "result", fixed |-> r.fixed + WarningBytes,
                       text |-> r.text, members |-> r.members]
      BY <3>3 DEF Warned
    <3>5. r.fixed + WarningBytes \in Nat
      BY <3>3, OutputAssumption
    <3> QED BY <3>2, <3>3, <3>4, <3>5 DEF ResultTypes
  <2>3. ResultInv'
    BY <1>1, <1>2, <1>4, <2>1, <2>2, OutputAssumption DEF ResultInv, ResultTypes
  <2> QED BY <1>1, <2>1, <2>2, <2>3 DEF OutputInv, BodyInv, FileInv, OutputFits
<1> QED BY <1>3, <1>4

\* One turn of the loop.
LEMMA TrimKeeps ==
  ASSUME OutputInv, Trim
  PROVE  OutputInv'
<1>1. /\ text.kind = "result" /\ progress = "more" /\ pos > 0
      /\ text' = TrimOutput(text, pos) /\ pos' = pos \div 2 /\ got' = got
  BY DEF Trim
<1>2. /\ text \in ResultTypes /\ pos \in Nat /\ ~Fits(got[1])
      /\ got[1] \in ResultTypes
      /\ Len(text.members) = Len(got[1].members)
      /\ TrimOutput(text, 1) = TrimOutput(Warned(got[1]), 1)
  BY <1>1 DEF OutputInv, ResultInv, ResultTypes
<1>3. /\ text' \in ResultTypes
      /\ Len(text'.members) = Len(got[1].members)
      /\ TrimOutput(text', 1) = TrimOutput(Warned(got[1]), 1)
  BY <1>1, <1>2, CutTwice
<1>4. text'.kind = "result"
  BY <1>3 DEF ResultTypes
<1>5. progress' = IF Fits(text') THEN "end" ELSE IF pos > 1 THEN "more" ELSE "refused"
  BY DEF Trim
<1>6. pos' \in Nat
  BY <1>1, <1>2
<1>7. ResultInv'
  BY <1>1, <1>2, <1>3, <1>6 DEF ResultInv, ResultTypes
<1>8. OutputFits'
  <2>1. ASSUME progress' = "end"
        PROVE  Fits(text') /\ Len(text'.members) = Len(got'[1].members) /\ ~Fits(got'[1])
    BY <1>1, <1>2, <1>3, <1>5, <2>1
  <2>2. ASSUME progress' = "refused" PROVE ~Fits(TrimOutput(Warned(got'[1]), 1))
    <3>1. ~Fits(text') /\ pos = 1
      BY <1>1, <1>2, <1>5, <2>2
    <3>2. text' = TrimOutput(Warned(got'[1]), 1)
      BY <1>1, <1>2, <3>1
    <3> QED BY <3>1, <3>2, Zenon
  <2> QED BY <1>4, <2>1, <2>2 DEF OutputFits
<1> QED BY <1>4, <1>5, <1>7, <1>8 DEF OutputInv, BodyInv, FileInv

-----------------------------------------------------------------------------

\* The invariant holds before anything is read.
LEMMA OutputBegins ==
  ASSUME OutputInit
  PROVE  OutputInv
<1>1. progress = "more" /\ got = <<>> /\ cut = {} /\ edited = FALSE
  BY DEF OutputInit
<1>2. <<>> = [i \in 1..0 |-> i] /\ <<>> = [i \in 1..0 |-> i - 1]
  OBVIOUS
<1>3. CASE text \in Bodies
  <2>1. text.kind = "body"
    BY <1>3, BodyHas
  <2>2. pos = 0
    BY <2>1 DEF OutputInit
  <2>3. pos \in Bounds(text)
    BY <1>3, <2>2, BodyHas
  <2> QED BY <1>1, <1>2, <1>3, <2>1, <2>2, <2>3
          DEF OutputInv, BodyInv, FileInv, ResultInv, OutputFits
<1>4. CASE text \in Files
  <2>1. text.kind = "file" /\ pos = 1
    BY <1>4 DEF Files, OutputInit
  <2>2. Len(text.lines) \in Nat
    BY <1>4, FileHas
  <2>3. 1 \in 1..(Len(text.lines) + 1)
    BY <2>2
  <2>4. got = [i \in 1..(pos - 1) |-> i] /\ cut = {i \in 1..(pos - 1) : text.lines[i] > FileBytes}
    BY <1>1, <1>2, <2>1
  <2> QED BY <1>1, <1>4, <2>1, <2>3, <2>4
          DEF OutputInv, BodyInv, FileInv, ResultInv, OutputFits
<1>5. CASE text \in Results
  <2>1. PICK f \in 0..OutputBytes, t \in 0..MaxText, s \in SeqOf(0..MaxText, 2) :
          text = [kind |-> "result", fixed |-> f, text |-> t, members |-> s]
    BY <1>5 DEF Results
  <2>2. s \in Seq(Nat)
    <3>1. PICK m \in 0..2 : s \in [1..m -> 0..MaxText]
      BY DEF SeqOf
    <3>2. s \in [1..m -> Nat]
      BY <3>1, OutputAssumption
    <3> QED BY <3>2, SeqDef
  <2>3. f \in Nat /\ t \in Nat
    BY OutputAssumption
  <2>4. text.kind = "result" /\ pos = 0
    BY <2>1 DEF OutputInit
  <2>5. text \in ResultTypes
    BY <2>1, <2>2, <2>3 DEF ResultTypes
  <2> QED BY <1>1, <2>4, <2>5
          DEF OutputInv, BodyInv, FileInv, ResultInv, OutputFits, ResultTypes
<1> QED BY <1>3, <1>4, <1>5 DEF OutputInit

\* The invariant of what is read and sent.
LEMMA OutputAlways == OutputSpec => []OutputInv
<1>1. OutputInit => OutputInv
  BY OutputBegins
<1>2. OutputInv /\ [OutputNext]_outputVars => OutputInv'
  <2> SUFFICES ASSUME OutputInv, [OutputNext]_outputVars PROVE OutputInv'
    OBVIOUS
  <2>1. CASE ReadBody
    BY <2>1, ReadBodyKeeps
  <2>2. CASE EditBody
    BY <2>2, EditBodyKeeps
  <2>3. CASE ReadFile
    BY <2>3, ReadFileKeeps
  <2>4. CASE Measure
    BY <2>4, MeasureKeeps
  <2>5. CASE Trim
    BY <2>5, TrimKeeps
  <2>6. CASE UNCHANGED outputVars
    BY <2>6 DEF outputVars, OutputInv, BodyInv, FileInv, ResultInv, OutputFits
  <2> QED BY <2>1, <2>2, <2>3, <2>4, <2>5, <2>6 DEF OutputNext
<1> QED BY <1>1, <1>2, PTL DEF OutputSpec

\* For any limits, any characters and any lines: whoever follows the offsets that
\* are returned gets every byte of a body that nobody edits, and every line of a
\* file, once and in order (EveryPartOnce).
THEOREM PartsAreDelivered == OutputSpec => []EveryPartOnce
<1>1. OutputInv => EveryPartOnce
  <2> SUFFICES ASSUME OutputInv PROVE EveryPartOnce
    OBVIOUS
  <2>1. ASSUME text.kind = "body", ~edited
        PROVE  /\ progress # "refused"
               /\ progress = "end" => got = [i \in 1..text.len |-> i - 1]
               /\ got # <<>> => Len(got) \in Bounds(text)
    <3>1. /\ text \in Bodies /\ pos \in Bounds(text)
          /\ got = [i \in 1..pos |-> i - 1]
          /\ progress = "more" \/ (progress = "end" /\ pos = text.len)
      BY <2>1 DEF OutputInv, BodyInv
    <3>2. pos \in Nat
      BY <3>1, BodyHas
    <3>3. Len(got) = pos
      BY <3>1, <3>2
    <3> QED BY <3>1, <3>3
  <2>2. ASSUME text.kind = "file", progress = "end"
        PROVE  /\ got = [i \in 1..Len(text.lines) |-> i]
               /\ cut = {i \in DOMAIN text.lines : text.lines[i] > FileBytes}
    <3> DEFINE n == Len(text.lines)
    <3>1. /\ text \in Files /\ pos = n + 1 /\ pos \in 1..(n + 1)
          /\ got = [i \in 1..(pos - 1) |-> i]
          /\ cut = {i \in 1..(pos - 1) : text.lines[i] > FileBytes}
      BY <2>2 DEF OutputInv, FileInv
    <3>2. n \in Nat /\ DOMAIN text.lines = 1..n
      BY <3>1, FileHas
    <3> HIDE DEF n
    <3>3. pos - 1 = n
      BY <3>1, <3>2
    <3> QED BY <3>1, <3>2, <3>3 DEF n
  <2> QED BY <2>1, <2>2 DEF EveryPartOnce
<1> QED BY <1>1, OutputAlways, PTL

\* For any budget and any result: what is sent fits and has all its members, and
\* a result is refused only if a limit of 1 does not make it fit (OutputFits).
THEOREM OutputsFit == OutputSpec => []OutputFits
<1>1. OutputInv => OutputFits
  BY DEF OutputInv
<1> QED BY <1>1, OutputAlways, PTL
=============================================================================
