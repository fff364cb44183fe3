-------------------------------- MODULE Paging --------------------------------
(***************************************************************************)
(* The lists a tool returns in parts, while others change what is listed:   *)
(*                                                                         *)
(*   comments  list_issue_comments, continued by the last ID returned;     *)
(*   pulls     list_pull_requests, continued by the last number examined;  *)
(*   pages     list_repositories, search_repositories, list_branches and   *)
(*             list_directory, continued by a page number;                 *)
(*   issues    list_issues, whose pages Gogs cuts.                         *)
(*                                                                         *)
(* An item is its place in the order of its list: comments by ID, pull     *)
(* requests by number, the rest by name.  One caller reads one list to its  *)
(* end.  Comments and pull requests are numbered upwards; names may appear *)
(* anywhere in the order.                                                  *)
(***************************************************************************)
EXTENDS Naturals, FiniteSets

CONSTANTS
  MaxItem,   \* items are 1..MaxItem
  Limits,    \* values of max_comments, limit, per_page, and the page size of Gogs
  ScanLimit, \* issues one call of list_pull_requests reads: 100 in the code
  MaxEdits   \* bound on the changes made while the list is read

Items == 1..MaxItem

ASSUME PagingAssumption ==
  /\ MaxItem \in Nat /\ MaxEdits \in Nat
  /\ ScanLimit \in Nat \ {0}
  /\ Limits \subseteq Nat \ {0}

VARIABLES
  list,       \* which list is read
  items,      \* what Gogs holds now
  newest,     \* the last number given to a comment or pull request
  shown,      \* the pull requests that the state filter lets through now
  missing,    \* the pull requests whose issue answers 404 now
  limit,      \* the caller's limit
  cursor,     \* after_id, before or page of the next call
  reading,    \* "idle" between calls, "scan" in scanPullRefs, "end"
  refs,       \* pull refs that the call under way has still to examine
  batch,      \* the summaries it has gathered
  scanned,    \* the refs it has examined
  examined,   \* the last of them, next in scanPullRefs
  given,      \* all items returned so far
  repeated,   \* those returned more than once
  kept,       \* what was listed, and matched, ever since the first call
  edits,      \* changes so far
  added, removed  \* was something added or removed since the first call?

scan == <<refs, batch, scanned, examined>>
result == <<given, repeated>>
server == <<items, newest, shown, missing, kept, edits, added, removed>>
pagingVars == <<list, server, limit, cursor, reading, scan, result>>

Give(page) ==
  /\ given' = given \cup page
  /\ repeated' = repeated \cup (given \cap page)

-----------------------------------------------------------------------------
\* list_issue_comments.

\* What commentsWithin may keep of the first max: a first part of the list that
\* holds at least one comment if there is one, because a preview is short.
Within(rest, max) ==
  {s \in SUBSET rest : /\ Cardinality(s) <= max
                       /\ \A a \in s, b \in rest \ s : a < b
                       /\ s = {} => rest = {}}

\* One call.  NextAfterID is the last ID selected, and absent when nothing is left.
ListIssueComments ==
  /\ list = "comments" /\ reading = "idle"
  /\ LET rest == {c \in items : c > cursor} IN
     \E s \in Within(rest, limit) :
       /\ Give(s)
       /\ IF s = rest
          THEN reading' = "end" /\ UNCHANGED cursor
          ELSE /\ cursor' \in s /\ \A c \in s : c <= cursor'
               /\ UNCHANGED reading
  /\ UNCHANGED <<list, server, limit, scan>>

-----------------------------------------------------------------------------
\* list_pull_requests.

\* ListPullRefs, and the refs below before.
ListPullRefs ==
  /\ list = "pulls" /\ reading = "idle"
  /\ refs' = {n \in items : cursor = 0 \/ n < cursor}
  /\ batch' = {} /\ scanned' = 0 /\ examined' = 0
  /\ reading' = "scan"
  /\ UNCHANGED <<list, server, limit, cursor, result>>

CallIsFull == scanned >= ScanLimit \/ Cardinality(batch) >= limit

\* One turn of the loop of scanPullRefs: the issue is read now, and one that is
\* missing or does not match is passed over, but counts as examined.
GetIssue ==
  /\ reading = "scan" /\ refs # {} /\ ~CallIsFull
  /\ \E n \in refs :
       /\ \A m \in refs : m <= n
       /\ refs' = refs \ {n}
       /\ examined' = n
       /\ batch' = IF n \in shown \ missing THEN batch \cup {n} ELSE batch
  /\ scanned' = scanned + 1
  /\ UNCHANGED <<list, server, limit, cursor, reading, result>>

\* Any other error fails the call: what it gathered is not returned.
GetIssueFails ==
  /\ reading = "scan" /\ refs # {} /\ ~CallIsFull
  /\ reading' = "idle"
  /\ UNCHANGED <<list, server, limit, cursor, scan, result>>

\* Mutant: the cursor is the last pull request returned.
ScanReturnsLast ==
  /\ reading = "scan"
  /\ refs = {} \/ CallIsFull
  /\ Give(batch)
  /\ IF refs = {} \/ batch = {}
     THEN reading' = "end" /\ UNCHANGED cursor
     ELSE /\ reading' = "idle"
          /\ cursor' \in batch /\ \A n \in batch : cursor' <= n
  /\ UNCHANGED <<list, server, limit, scan>>

\* The call returns at the first ref it may not examine, or after the last ref.
ScanReturns ==
  /\ reading = "scan"
  /\ refs = {} \/ CallIsFull
  /\ Give(batch)
  /\ IF refs = {}
     THEN reading' = "end" /\ UNCHANGED cursor
     ELSE reading' = "idle" /\ cursor' = examined
  /\ UNCHANGED <<list, server, limit, scan>>

-----------------------------------------------------------------------------
\* Pages by number.

Place(x) == Cardinality({y \in items : y <= x})

\* Mutant: pages are counted from zero.
PageFromZero(page) ==
  {x \in items : page * limit < Place(x) /\ Place(x) <= (page + 1) * limit}

\* paginateRepositories, paginateBranches and, over the page that the client
\* cut, paginateDirectory: sorted, so the order of the answer does not matter.
PageOf(page) ==
  {x \in items : (page - 1) * limit < Place(x) /\ Place(x) <= page * limit}

\* next_page: end < len(sorted).
HasNext(page) == page * limit < Cardinality(items)

\* next_page of list_directory, which has only the total.
DirectoryHasNext(page) ==
  Cardinality(items) > 0 /\ page <= (Cardinality(items) - 1) \div limit

Paginate ==
  /\ list \in {"pages", "directory"} /\ reading = "idle"
  /\ Give(PageOf(cursor))
  /\ IF IF list = "pages" THEN HasNext(cursor) ELSE DirectoryHasNext(cursor)
     THEN cursor' = cursor + 1 /\ UNCHANGED reading
     ELSE reading' = "end" /\ UNCHANGED cursor
  /\ UNCHANGED <<list, server, limit, scan>>

\* Gogs cuts the pages of list_issues, newest first.
IssuePage(page) ==
  LET Rank(x) == Cardinality({y \in items : y >= x}) IN
  {x \in items : (page - 1) * limit < Rank(x) /\ Rank(x) <= page * limit}

\* ListIssues: the next page is the one that the Link header names.
ListIssues ==
  /\ list = "issues" /\ reading = "idle"
  /\ Give(IssuePage(cursor))
  /\ IF HasNext(cursor)
     THEN cursor' = cursor + 1 /\ UNCHANGED reading
     ELSE reading' = "end" /\ UNCHANGED cursor
  /\ UNCHANGED <<list, server, limit, scan>>

-----------------------------------------------------------------------------
\* Others change what is listed.

Edit ==
  /\ reading # "end"
  /\ edits < MaxEdits /\ edits' = edits + 1
  /\ UNCHANGED <<list, limit, cursor, reading, scan, result>>

Numbered == list \in {"comments", "pulls", "issues"}

AddItem ==
  /\ Edit
  /\ \E x \in Items \ items :
       /\ Numbered => x = newest + 1
       /\ items' = items \cup {x}
       /\ newest' = IF x > newest THEN x ELSE newest
       /\ shown' \in {shown, shown \cup {x}}
  /\ added' = TRUE
  /\ UNCHANGED <<missing, kept, removed>>

RemoveItem ==
  /\ Edit
  /\ \E x \in items : items' = items \ {x} /\ kept' = kept \ {x}
  /\ removed' = TRUE
  /\ UNCHANGED <<newest, shown, missing, added>>

\* A pull request is closed, opened, hidden or shown again.
ChangePull ==
  /\ list = "pulls"
  /\ Edit
  /\ \E x \in items :
       \/ /\ shown' = IF x \in shown THEN shown \ {x} ELSE shown \cup {x}
          /\ UNCHANGED missing
       \/ /\ missing' = IF x \in missing THEN missing \ {x} ELSE missing \cup {x}
          /\ UNCHANGED shown
  /\ kept' = kept \cap (shown' \ missing')
  /\ UNCHANGED <<items, newest, added, removed>>

-----------------------------------------------------------------------------
PagingInit ==
  /\ list \in {"comments", "pulls", "pages", "directory", "issues"}
  /\ items \in SUBSET Items
  /\ newest \in 0..MaxItem /\ \A x \in items : x <= newest
  /\ (~Numbered => newest = MaxItem)
  /\ shown \in SUBSET items /\ missing \in SUBSET items
  /\ (list # "pulls" => shown = items /\ missing = {})
  /\ limit \in Limits
  /\ cursor = IF list \in {"comments", "pulls"} THEN 0 ELSE 1
  /\ reading = "idle"
  /\ refs = {} /\ batch = {} /\ scanned = 0 /\ examined = 0
  /\ given = {} /\ repeated = {}
  /\ kept = shown \ missing
  /\ edits = 0 /\ added = FALSE /\ removed = FALSE

PagingNext ==
  \/ ListIssueComments \/ ListPullRefs \/ GetIssue \/ GetIssueFails \/ ScanReturns
  \/ Paginate \/ ListIssues
  \/ AddItem \/ RemoveItem \/ ChangePull

PagingSpec == PagingInit /\ [][PagingNext]_pagingVars

-----------------------------------------------------------------------------
\* Properties.

\* However pages are cut, and whatever is added, deleted, closed or hidden
\* meanwhile, an item that stays listed and matches the filter throughout is
\* returned exactly once, and none is returned twice, even if calls return
\* nothing or fail (issues.go:190, pull.go:109, README.md:91).
CursorsDeliverOnce ==
  list \in {"comments", "pulls"} =>
    repeated = {} /\ (reading = "end" => kept \subseteq given)

\* Page numbers promise less: a list to which nothing is added repeats nothing,
\* and one from which nothing is removed skips nothing (git.go:139,
\* repositories.go:103, contents.go:60).
PagesKeepUp ==
  list \in {"pages", "directory", "issues"} =>
    /\ ~added => repeated = {}
    /\ reading = "end" /\ ~removed => kept \subseteq given
=============================================================================
