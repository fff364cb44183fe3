# A TLA+ model of gogs-mcp

gogs-mcp lets language models work with a Gogs server over MCP. A call of a tool
becomes requests to Gogs, and the answers become a result that must not be too long.
What can go wrong in ways tests hardly reach: a disk cache that several processes
share through `flock(2)` locks, a byte budget enforced while files are written, a
token cache with single-flight probes, an API client that must say what became of a
write, answers put together from several requests while others change what is read,
cursors into lists that change, and the history of a pull request read off a commit
graph. These are modelled here and checked with TLC; all but what says that something
will happen is also proved with TLAPS.

## 1. The system

| component | source | state | operations | hard because | what makes it correct |
|---|---|---|---|---|---|
| Disk cache: locks, removal | `diskcache/cache.go` | lock files (one writer lock per user, one per entry), directory trees | `Acquire`, `TryLock`, `Share`, `Close`, `RemoveTree` | several processes; crashes; conversion of a lock is not atomic | nothing that somebody reads is removed |
| Disk cache: budget | `diskcache/cache.go`, `filesystem.go` | `Budget.ready`, `free`; sizes and times on disk | `MakeRoom`, `Reserve`, `Size`, budgeted writes | decisions from a list that ages; accounts over failures | bytes stay within the limit; evictions have a reason |
| Snapshot manager | `snapshot/snapshot.go`, `eviction.go` | published commits, temporaries | `Ensure`, `Release`, `RemoveUser`, `RemoveAll`, sweep | check, lock, check again; publication by rename; eviction by others | a snapshot is complete for as long as it is held, and is the tree of its commit |
| Code search | `snapshot/search.go`, `glob.go`, `pattern.go` | none | `Search` | many limits, each with its flag | without a flag, every match is there |
| Pull engine | `gogs/gitdiff.go` | one bare repository per Gogs repository, with one shared base ref | `DiffPull`, `ListPullRefs`, `CleanCache` | shared mutable ref; graph walks; renames under a path filter | a diff is of its own base and of the selected files; merge base, commits and state are right |
| Pull list | `gogs/pull.go` | `pullEngine`, made once | `ListPullRequests` | cursor over probed refs; limits on probes | what stays is listed once |
| Gogs client | `gogs/client.go`, `errors.go`, `issue.go`, `content.go`, `snapshot.go` | none | reads with retries, writes without; resolution of refs | lost, late and redirected messages; refs that move between two requests | what is said of a write is true; an answer is of one commit |
| HTTP server | `httpserver/` | LRU of users, negative cache, flights | `withAuthentication`, `resolve`, `buildUser`, `invalidate` | requests with the same token meet; revocation; expiry | only proven tokens are served; only rejected ones are refused |
| MCP tools | `mcpserver/` | `toolSlots`, `identityCache` | the tools, `toolBudget`, `trimOutput` | slots held while waiting; cursors; results cut to a size; lookups before a write | every call ends; parts make the whole; a write carries what was asked for |
| Application | `app/`, `cmd/` | none | `serve`, `cache clean` | a process beside the server's | its effect on the disk is in `UserCache` |
| Config, log redaction, packages, version | `config/`, `securelog/`, `packagegen/`, `package/`, `version/` | none | | | not modelled: pure functions and build tooling |

How they interact. A call of a tool first waits for a *slot* of the process. A search
then asks who the user is, resolves its ref to a commit, calls `Manager.Ensure`, reads
the snapshot and calls `Release`; a pull request tool calls `DiffPull`. Both take the
*writer lock* of the Gogs user before they change the cache, the lock of the *entry*
they work on, and, through `Budget.MakeRoom`, try the locks of the entries they would
evict. `cache clean` runs in a process of its own and meets them only at these locks.
All of them call Gogs through `gogs.Client`. In HTTP mode a request first passes the
token cache, which holds the client and MCP server of each user.

The hazards found in this survey are listed in `PROJECT.json` with their lines
and the properties that cover them.

## 2. The modules

| module | models | checked by |
|---|---|---|
| `UserCache` | locks, `Ensure`, `DiffPull`, eviction, `RemoveTree` | `user_cache`, `user_cache_faults`, `snapshot_partial`, and under `tool_calls` |
| `SnapshotStore` | what `UserCache` promises, abstractly | refinement in `user_cache` |
| `ToolCalls` | slots and identity locks in front of `UserCache` | `tool_calls` |
| `CacheBudget` | `MakeRoom`, `Reserve` and who calls them | `cache_budget`, `budget_stale` |
| `TokenCache` | `withAuthentication`, `resolve`, the caches | `token_cache`, `token_reprobe` |
| `GogsClient` | one API call against an unreliable network | `gogs_client`, `write_redirect` |
| `Paging` | lists returned in parts | `tools` |
| `Contents` | refs to commits to answers | `tools` |
| `CodeSearch` | archive to files to matches | `tools`, `archive_wrapper` |
| `PullHistory` | the walks and the merge state of `DiffPull` | `tools` |
| `PullDiff` | selection, renames and text of `DiffPull` | `tools` |
| `IssueTools` | lookups, then a write | `tools` |
| `Output` | chunks, lines, trimming | `tools` |
| `Tools` | a caller who uses one of the seven above | `tools` |
| `UserCacheProofs`, `UserCacheDiskProofs` | theorems about `UserCache`; the second also that it implements `SnapshotStore` | tlapm |
| `CacheBudgetProofs`, `TokenCacheProofs`, `GogsClientProofs` | theorems about the module they are named for | tlapm |
| `CodeProofs` | theorems about `PullHistory`, `PullDiff` and `CodeSearch` | tlapm |
| `ToolsProofs` | theorems about `Paging`, `Contents`, `IssueTools` and `Output`, and that `Tools` composes them | tlapm |
| `InductionLemmas` | induction over numbers and finite sets, sums, recursion: what the other proofs share | tlapm |
| `MC*` | definitions for TLC: symmetry, small sets | |

A definition that begins with the comment "Mutant" is a deliberate mistake; it is
used by no specification, and shows that the property it is paired with in
`PROJECT.json` would notice.

### UserCache

A request is one `Ensure` with its search, one `DiffPull`, or one `RemoveTree`;
its `pc` is the line it is about to execute, cut at every lock operation and at
every change to the disk. The model has one user: users share no files. Locks are
two functions from lock files to the requests that hold them exclusively and
shared; `flock` works per open file, so there is no difference between requests of
one process and of several. `Lock.Share` is two steps, as the manual says it is.

A directory is a record: does it exist, is the tree absent, partial or whole, is
`metadata.json` there. `os.RemoveAll` removes in the order the directory is listed,
so what is left at any moment is any smaller content (`Remains`). `HasSnapshot` is
`Ensure`'s `os.Stat`; `Listed` is `Budget.entries`. Which entry `MakeRoom` picks,
and whether it succeeds, is open here: `CacheBudget` has the arithmetic.

`Spec` has no faults; `FaultySpec` adds the death of a request at any point
(its locks go, its files stay) and removals that fail half way. `DiffPull` then discards
its repository or keeps it, as the place of the failure has it (`RemoveError`).

### ToolCalls

Extends `UserCache`: a request of the cache is now the middle of a call, which first
waits for a slot (`toolBudget`), then for the mutex behind which the first caller asks
Gogs who the user is (`identityCache.userIDFor`, `pullEngine`). A call without use for
the cache only has a slot and a request to Gogs. `cache clean` has neither. What a
call holds while it waits for what is the point of the module.

### CacheBudget

The writer lock serialises writers, so there is one writer. Readers pin, touch and
release entries at any moment; time passes at any moment. `MakeRoom` is split
where others may interfere: `Size`, the list, each entry's `TryLock`, removal. An
entry remembers the time it was listed with, as the code's slice does. `Reserve` and
the write it allows are separate steps, with aborted downloads, truncation, failed
removals (what is left keeps some of the bytes) and `cache clean` between writers.

### TokenCache

One request runs from the `Authorization` header to the answer. Each critical
section of `userCache`, `invalidTokens` and the flight map is an action, so that
everything may happen between two of them. Gogs accepts a token until it is
revoked; a probe may also get no answer. `proven` and `denied` are history:
what Gogs has ever said of a token.

### GogsClient

A call passes through connecting, TLS, waiting, and for reads pausing to try again;
the server's side keeps the copies of a write that have `arrived` and how often it
was `written`. Responses come from Gogs or from a gateway, may be lost with the
connection, may come after the client gave up, may redirect, and may not decode. A
caller repeats a write only after a failure that says nothing was written. What net/http
and Gogs do is external and is modelled by what the client relies on.

### Paging

Items are numbers: the ID of a comment, the number of a pull request, the place of a
name in its order. A caller reads one list to its end while others add, remove, close
and hide items. `list_issue_comments` and `list_pull_requests` continue after an ID; the
latter walks the refs one issue at a time, and a call may end because it has enough, has
examined enough or has failed. The other lists continue by page number and are cut
either here (`paginate...`) or by Gogs (`list_issues`).

### Contents

A call resolves its ref (default branch, branch, tag, commit) by up to four requests
and then reads trees, prefixes of files or an archive by more. Between any two of them
refs move, appear and vanish. A read is represented by the commit it read of, and
`denoted` remembers which commits each name has had during the call.

### CodeSearch

A tree is a function from paths to kinds. The archive lists it below a wrapper in
some order, as a stream of blocks: a header for each entry, what a file holds, and a
marker at the end. `extractArchive` takes entries until a limit, of entries or of the
stream, `flattenArchivePrefix` takes the
wrapper away, `Search` walks the files and `search_code` cuts the result. What a
pattern or a glob matches is arbitrary: a file has some number of matches or is excluded.

### PullHistory and PullDiff

`Visit` is one turn of the loop of `reachableCommits`; the other actions are what
`DiffPull`, `boundedMergeBases`, `commitsSince` and `mergeStateFor` do with the result.
The properties compare with `History`, a recursive definition of reachability over all
parents, as the loop follows them; the comment that speaks of first parents is one of the
divergences of section 3. With several merge bases the commits listed may hold some that the base
has through another of them, which the property allows and names. Of the
limits of a walk only the number of commits is there.

`PullDiff` goes on from the tree diff: `filterChanges`, `renameCandidates` (a rename is
detected by go-git, which pairs the most similar first in an order picked at the start),
conflict paths, the limit on files, and `limitedDiffWriter`, line by line.

### IssueTools

`create_issue` and `update_issue` look up permission, labels, milestone and user one
request at a time and then send one write, which Gogs applies as it does: what the user
may not set it drops. Others meddle in between. `Options` keeps apart a field that
is not given, one that is cleared and one that is set.

### Output

A body with characters of several bytes read in chunks by offset and edited in
between; a file read by lines; a result of fixed bytes, texts and list members, trimmed
until it fits. Sizes are small numbers in the proportions of the code's limits.

### Tools

Composes the seven modules above: the caller uses one of them, and the others stand in
one initial state. The handlers share no state but what `GogsClient`, `UserCache` and
`ToolCalls` model, so this is a disjoint union, checked in one run.

## 3. What is checked

`tlc -config X.cfg M` in this directory. All times are for two workers.

| run | instance | states | shows |
|---|---|---|---|
| `user_cache` | 3 requests, 2 commits, 1 repository, 2 bases, 1 temporary | 269,000 | lock rules, atomic publication, pins, own base, the implementation of `SnapshotStore` |
| `user_cache_faults` | 2 requests, 1 commit, 1 repository, 2 temporaries, faults | 483,000 | what survives crashes: live temporaries, listed entries under a lock |
| `tool_calls` | 2 requests, 1 of each entry, 1 other call, 2 slots | 49,000 | every call ends and gives its slot back; every request in the cache ends |
| `cache_budget` | 2 snapshots, 1 repository, 3 bytes, writes of 1, 2 and 4 | 1,255,000 | bytes within the budget, honest capacity errors, evictions with a reason |
| `token_cache` | 3 requests, 2 tokens, room for 1 user and 1 rejection, 2 slots | 2,361,000 | probes, admission, refusal, LRU consistency, expiry |
| `gogs_client` | an update and a read, 3 attempts, 2 redirects, 2 repetitions | 28,000 | writes at most once, truthful results, an answer to every call |
| `tools` | see below | 2,678,000 | cursors, pages, one commit per answer, the snapshot is the tree, search finds all, merge base, commits, merge state, refusals, the diff is of the selection, references checked, updates exact, parts make the whole, results fit |

`tools` per module: `Paging` 4 items, 2 edits, pages of 1 or 2, 2 refs per call;
`Contents` 2 names of which one is a commit's hash, 2 commits, 2 changes of refs;
`CodeSearch` trees of up to 2 files, one of them perhaps named as the wrapper, and a
stream of 10 blocks;
`PullHistory` every graph of 5 commits, 2 paths, walks of up to 4; `PullDiff` up to 2
deletions, 2 additions and a modification, every order of similarity, every filter;
`IssueTools` 2 labels, 1 milestone, 1 user, 2 changes by others; `Output` texts, lines
and lists on both sides of each limit.

Why the bounds suffice. Three requests are a holder, an evictor and a third that
slips in between; two commits let one be evicted for the other; two bases and one
repository collide in the shared ref. In `tool_calls` two calls fill the slots while
the third waits, and either may be waiting in the cache for the other or for a
`cache clean`. Three bytes and a write of four reach the
budget from below, exactly and beyond. Two tokens and room for one force eviction
and forgetting; two probes at once are one fewer than the requests. Four items and two
changes put an addition or a removal before, at and after a cursor. Two labels may have one
name; a hash that is also a name is a branch, a tag and a commit at once. Two deletions
and two additions are the least for which a filter may change which are paired. Five
commits hold a criss-cross merge with something on each side, and a history one longer
than the limit. Ten blocks are what an archive of two small files in a directory fills to
its end, so that a larger one is refused at a file or at the end.

Symmetry is over requests and, in `CacheBudget`, commits; it is not used
where liveness is checked. `CHECK_DEADLOCK FALSE` is set where the model ends
(`GogsClient`, `Tools`, `CodeSearch`). In the cache models, in `ToolCalls` and in
`TokenCache` deadlock is checked: some request can always move.

Fairness. In `tool_calls` each call is weakly fair in its own steps, and each request in
the cache in its: a goroutine is scheduled, but no slot and no file lock is ever promised
to it. That these waits end is due to the context's deadline (`toolBudget` and `Acquire`
select on it). The two mutexes are strongly fair, because Go hands a mutex over to
whoever has waited longest (after a millisecond), and no context ends that wait. A
request to Gogs ends because the client has a timeout. `RemoveUser` and `RemoveAll` pass
a context without a deadline, and of them only what happens after the writer lock is
promised. In `gogs_client` the client's goroutine is weakly fair, which is
`http.Client.Timeout`; the server and the network owe nothing.

Where the code does not do what its documents say (the five `violation` runs):

- `snapshot_partial`: publication is atomic but removal is not. After a crash or
  a failed `RemoveAll` in the middle of an eviction the rest of the tree is under its
  final name, unlocked, and `Ensure` serves it as a hit (`snapshot.go:164`).
- `budget_stale`: `MakeRoom` expires by the time it read before it had the lock, so
  an entry that was just used may go as "untouched" (`cache.go:138`).
- `token_reprobe`: `resolve` asks the negative cache before it joins a flight; a token
  rejected in between is probed again (`users.go:165`).
- `write_redirect`: a 301, 302 or 303 turns a `PATCH` into a `GET` whose answer is the
  issue as it was, reported as the updated one (`client.go:123`).
- `archive_wrapper`: a repository with a single directory or file of the wrapper's own
  name meets the clash that "cannot come from a prefix-wrapped archive"
  (`snapshot.go:505`).

Other divergences met while modelling, which the models follow and no run is about:

- The comment of `PullCommit` says "The walk is first-parent, which covers the common
  case of a linear head branch" (`gitdiff.go:54-55`). `reachableCommits` pushes every
  parent (`:772`), so the commits of branches that were merged into the head are listed and
  counted as well. `CommitsAreThePullRequests` states what the code does, against this
  sentence: over first parents it would be false of any head with a merge.
- `diverged` stands for "both sides moved on, but no file was touched by both"
  (`gitdiff.go:68`). `mergeStateFor` (`:469`, `:492`) compares the base with the merge base
  only, and reports a head that the base already contains as diverged too.
  `MergeStateIsRight` states what the code does.
- `mcpserver/pulls.go:265` says a path without a trailing slash matches one file exactly,
  and `matchAnyPath` (`gitdiff.go:400`) takes any filter as a directory too.

`boundedReader` (`snapshot.go:565`) fails on the first read after its maximum, even if
there is nothing left to read. For an archive this is the same as its comment's "more than
maximum": a tar stream ends with a marker, after which `archive/tar` reads nothing, so
only a stream that is longer than the limit meets the failure. `CodeSearch` counts
the whole stream in this way, headers and marker included.

## 4. What is proved

`tlapm X.tla`. The theorems hold for every value of the constants that satisfies the
named assumptions of the module: names of different kinds are different, attempts and
limits are at least one, and what is summed or counted is finite (the requests of
`TokenCache`, the entries of `CacheBudget`, the names of `CodeSearch`, the changed paths of
`PullDiff`). A path changes in one way (`DiffAssumption`), as in every difference of trees.

`UserCacheProofs`, for `FaultySpec` and so for `Spec` too. The property that
whoever holds an entry exclusively holds the writer lock is not inductive: it does not
say who is at a step that gives locks up. The invariant is
`TypeOK /\ JobInv /\ LockInv`: `JobInv` says which operation, entry, temporary
and victim go with each `pc`, `LockInv` which locks, in both directions. On it rest
`LiveTemporaryKept` (two requests with a temporary would both hold the writer lock) and
`ListedEntriesKept` (a removal has locked what it lists). `FaultInv` is all of this;
it survives crashes because `Return` resets a request and closes its locks together.

`UserCacheDiskProofs`, for `Spec`. What is on disk needs the absence of faults. `DiskInv`
says that only a removal under way, holding the entry, shows a partial entry
(`EntriesSettled`), and what each request knows of its own entry from where it
stands, or from where it goes on after `MakeRoom` (`DiskOK`, with `At`). From it
follow `PublicationAtomic`, `PinnedIsWhole`, `ShareKeepsSnapshot`,
`PublishFindsNoDirectory`, `DiffUsesOwnBase` and `HeldEntriesKept`. `Share`'s gap is the
step where all three are needed: the entry is unlocked, yet an evictor would hold the
writer lock that the sharer has kept.

`UserCacheDiskProofs` ends with the refinement: for `Spec`, the cache implements `SnapshotStore`
(`StoreImplemented`). No invariant is added. A step that makes a temporary starts the
download, and there is no other, because whoever has a temporary has the writer lock;
the rename publishes; a request that finds a snapshot under the shared lock pins it,
and it is whole because nobody who could be removing it holds the lock; a removal
that touches a whole snapshot has it locked, so nobody has pinned it, and what
`RemoveAll` leaves is never whole again. All other steps show nothing.

`GogsClientProofs`: `ClientInv` is `TypeOK /\ RetryLeft /\ WritesOK`; `WritesOK` says
that at most one copy of a write exists from the moment the request is sent,
and that a response on its way tells the truth about it. From it
follow `DefinitiveMeansUnwritten`, `WrittenAtMostOnce` and `SuccessIsReal`.

`TokenCacheProofs`: `TokenInv` ties the map of builds to the requests that lead them, in
both directions (`BuildsInv`), a follower to a leader with its own token or to an outcome
(`FollowInv`), and everything that is remembered or concluded of a token to what Gogs has
said of it (`SaidInv`). `AdmittedWasProven` alone is not inductive: a follower is admitted
by the outcome of another, who must have had the same token. The bound on probes needs the
slots only. `HitsDoNotExtend` is an action property from the same invariant.
`CacheConsistent` has an invariant of its own (`OrderInv`): the list has the tokens of the
map, each once; a token that is used is taken out and put in front, and what is taken out
of a sequence without repetitions is gone from it.

`CacheBudgetProofs`: `BudgetInv`. What is on disk, what is promised to a write and what
is free are sums and fit the budget at every step, a write that is under way included
(`Accounts`); that the account is honest is not inductive without where
the writer is (`Control`). `CapacityMeansInUse` is about the end of a walk over the
entries; what holds during it is that, as long as room is short, every entry is yet to be
visited, was found in use, is the one to keep, or is the rest of a removal that failed
(`ShortMeansAccounted`). `EvictionHasReason` is an action property from the same invariant.

`CodeProofs`, history. The runs compare with `History`, which is a recursive function; that
its equation has a solution is proved up the numbers of the commits, parents first.
`HistoryInv` says of a walk that what it has seen lies in the history of its start,
and that whatever it has seen has its parents seen, left out, or on the stack (`WalkInv`);
when the stack is empty the two are the same set. `FoundInv` keeps what the earlier
walks found, what the base has beyond the merge base, and the paths in conflict. `MergeBaseIsBest`, `CommitsAreThePullRequests`, `MergeStateIsRight` and
`RefusedOnlyIfLong` follow for every graph.

`CodeProofs`, search. `SearchInv` has a part for each stage. While an archive is extracted,
what was read of it is on disk or was skipped, and the blocks that were read are a sum over
its entries within the limits, so that a stream that is refused as too large is, and one that
is read to its end is not (`ExtractInv`). Afterwards the
disk has the regular files (`ShareInv`); taking the wrapper away cannot make two of them
one, because a file under the wrapper's own name keeps its place. During the walk what was
found is what the files hold that were read, up to the limit in each, or a limit was
reached (`ReadingInv`), which is what the flags say at the end (`MatchesInv`, `ReplyInv`).

`CodeProofs`, diff. Go-git's pairs are made one after the other, so what is said of them is
proved along the sequence of similar pairs: nothing is paired twice (`PairedIs`), and a side
that is paired is still paired, perhaps with another, if there are fewer competitors for
what it is paired with (`FewerTargets`, `FewerSources`). With these a filter can only take
competitors away from a selected path, whence what the property says of renames
(`RenamedStays`, `SameFiles`), and a path is in one file of the result (`WantedOnce`).
`DiffInv` says what is left to work on at each step, and that the text is all that was
listed or exactly full, with its partial line apart (`OutputRight`).

`ToolsProofs`: a step of `Tools` is a step of one tool, and the others stutter; so each
tool's own specification follows from `ToolsSpec` (`ToolsAreApart`), and what is proved of
it holds in the run. For each of them:

- `Paging`, by an ID: `CursorInv` says that the cursor divides the list: what has been given
  lies on one side, and what lies there and stayed has been given. During a scan of pull
  requests the frontier is the last ref examined, which becomes the cursor (`ScanInv`).
- `Paging`, by a page number: an item was passed if those ahead of it fit on the pages
  before. Without additions, what was given was passed; without removals, what was
  passed was given (`PagesInv`). Both compare cardinalities before and after a change.
- `Contents`: nothing is read before the commit is known; from then on only that
  commit is read, and that the ref had it remains true, because `denoted` only grows.
- `IssueTools`: what the request will carry is, field by field, what the input has or what
  a lookup found, and what is still to be looked up is an end of the order (`LookInv`);
  that it existed during the call remains true (`EverInv`).
- `Output`: what was returned is what precedes the next offset or line (`BodyInv`,
  `FileInv`). Trimming loses its own way back: of a result that was cut it is only known
  that the last limit would make of it what it would make of the first (`ResultInv`),
  because a cut at a limit can be repeated and a smaller limit undoes a larger one.

The library's induction theorems take an operator and cannot be used here. What
`InductionLemmas` has instead is stated with a set in place of the predicate and rests on
the least element of a set of numbers, which the library proves of well-founded relations
as a fact about sets. A sum over a function is what the community modules' fold
computes; that its defining equation has a solution is `SumEquation`.

Nothing about the assumptions is special: no theorem needs more than types, finiteness,
names that differ, and limits that are not zero. One limit may be zero: `MaxReply`,
because a single match, with ten lines before and after of up to 500 characters that JSON
may write as six each, can be too long for a result. The search then returns nothing and
says so, which is why `SearchFindsAll` promises a match under the flag only if one fits.

Only model-checked: liveness (`CallsEnd`, `CallsAnswered`), which is beyond the prover. All
other properties of passing runs are theorems. The five divergences that runs show need no proof: they
are counterexamples.

## 5. Not modelled

- The paths of an archive's entries (`safeJoin`): one more reason for extraction to fail.
- Git's transport and object store, go-git's similarity of files, the text of patches.
- What a pattern or a glob matches: any file may have any number of matches.
- Checks of arguments, conversions of fields, wording of results and warnings.
- `get_branch`, `get_commit`, `list_commits`, `get_repository` and
  `create_issue_comment`: one request each, with nothing beyond `GogsClient`.
- The construction of a user's MCP server, `http.Server` start, stop and timeouts. (A
  shutdown with calls that take more than ten seconds ends with an error.)
- Flags, environment, `verify`, configuration, redaction of logs, packaging,
  version: no state that steps could disturb.
- What go-git does with a repository that lost files: it may open or not.

## 6. Plan

What is left, in this order:

1. Faults in `ToolCalls` (the death of a process with calls in it), and more calls than
   two in the cache.
2. The start and the shutdown of the HTTP server with requests under way.
