------------------------------- MODULE Contents -------------------------------
(***************************************************************************)
(* list_directory, get_file and search_code (gogs/content.go,               *)
(* gogs/snapshot.go): a ref is resolved to a commit by several requests to  *)
(* Gogs, and what is returned is read by several more, while others push,  *)
(* tag, delete refs and change the default branch.                         *)
(*                                                                         *)
(* Of a commit only its identity is kept: a read returns the commit whose   *)
(* data it returns.  The hash of a commit is also a possible name of a      *)
(* branch or tag.  A read may always fail, and with it the call.           *)
(***************************************************************************)
EXTENDS Naturals

CONSTANTS
  Names,      \* names a branch or tag may have, hexadecimal ones among them
  CommitIDs,  \* commits; the hash of one may be in Names
  Unset,      \* the ref of a call that names none, and what no ref points to
  MaxPushes,  \* bound on changes of refs during the call
  MaxReads    \* bound on the trees and prefixes one call reads

ASSUME ContentsAssumption == Unset \notin Names \cup CommitIDs

VARIABLES
  branch,     \* branch[n]: the head of branch n, or Unset
  tag,        \* tag[n]: the commit of tag n, or Unset
  default,    \* the default branch of the repository
  pushes,     \* changes so far
  tool,       \* "list_directory", "get_file" or "search_code"
  ref,        \* the ref the call names, or Unset
  usedRef,    \* the ref it resolves, which the result names
  at,         \* which request comes next
  sha,        \* the commit it resolved to
  read,       \* the commits whose data the call has read
  reads,      \* how often it read
  defaults,   \* the default branches since the call began
  denoted     \* denoted[n]: the commits that n has named since the call began

repository == <<branch, tag, default, pushes, defaults, denoted>>
call == <<tool, ref, usedRef, at, sha, read, reads>>
contentsVars == <<repository, call>>

-----------------------------------------------------------------------------
\* The default branch.

\* resolveContentRef: a call without a ref takes the default branch, and from
\* there on is like one that names it.
ResolveContentRef ==
  /\ at = "default" /\ tool # "search_code"
  /\ usedRef' = default
  /\ at' = "branch"
  /\ UNCHANGED <<repository, tool, ref, sha, read, reads>>

\* ResolveCommitSHA with an empty ref.
ResolveDefault ==
  /\ at = "default" /\ tool = "search_code"
  /\ usedRef' = default
  /\ at' = "head"
  /\ UNCHANGED <<repository, tool, ref, sha, read, reads>>

Found(commit) == sha' = commit /\ at' = "read"

\* branchHeadSHA of the default branch: no fallback.
HeadOfDefault ==
  /\ at = "head"
  /\ IF branch[usedRef] # Unset
     THEN Found(branch[usedRef])
     ELSE at' = "missing" /\ UNCHANGED sha
  /\ UNCHANGED <<repository, tool, ref, usedRef, read, reads>>

-----------------------------------------------------------------------------
\* ResolveCommitSHA: branches, then tags, then revisions.

\* Only a 404 goes on to the tags.
GetBranch ==
  /\ at = "branch"
  /\ IF branch[usedRef] # Unset
     THEN Found(branch[usedRef])
     ELSE at' = "tags" /\ UNCHANGED sha
  /\ UNCHANGED <<repository, tool, ref, usedRef, read, reads>>

ListTags ==
  /\ at = "tags"
  /\ IF tag[usedRef] # Unset
     THEN Found(tag[usedRef])
     ELSE /\ at' = IF usedRef \in CommitIDs THEN "revision" ELSE "missing"
          /\ UNCHANGED sha
  /\ UNCHANGED <<repository, tool, ref, usedRef, read, reads>>

\* GetCommit, for what looks like a revision: it may not exist.
GetCommit ==
  /\ at = "revision"
  /\ \/ Found(usedRef)
     \/ at' = "missing" /\ UNCHANGED sha
  /\ UNCHANGED <<repository, tool, ref, usedRef, read, reads>>

-----------------------------------------------------------------------------
\* Reading.

\* One more request for data of a commit.
Reads(commit) ==
  /\ read' = read \cup {commit}
  /\ reads' = reads + 1
  /\ UNCHANGED <<repository, tool, ref, usedRef, sha>>

\* directoryTree: the tree of the commit, and one for each directory of the path.
DirectoryTree ==
  /\ at = "read" /\ tool # "search_code" /\ reads < MaxReads
  /\ at' \in {"read", "content"}
  /\ Reads(sha)

\* contentPrefix, for each entry of a page of list_directory, and for a file that
\* is too large for get_file.
ContentPrefix ==
  /\ at = "content" /\ reads < MaxReads
  /\ at' = IF tool = "get_file" THEN "done" ELSE "content"
  /\ Reads(sha)

\* Mutant: the file is requested by the ref, and Gogs resolves it again.
GetContentByRef ==
  /\ at = "content" /\ tool = "get_file"
  /\ at' = "done"
  /\ Reads(IF branch[usedRef] # Unset THEN branch[usedRef]
           ELSE IF tag[usedRef] # Unset THEN tag[usedRef] ELSE sha)

\* getContent: requested by the commit.
GetContent ==
  /\ at = "content" /\ tool = "get_file"
  /\ at' = "done"
  /\ Reads(sha)

\* The snapshot of the commit is not in the cache.
DownloadArchive ==
  /\ at = "read" /\ tool = "search_code"
  /\ at' = "done"
  /\ Reads(sha)

\* Every entry of the page has its type; or the snapshot is in the cache.
Return ==
  /\ \/ at = "content" /\ tool = "list_directory"
     \/ at = "read" /\ tool = "search_code"
  /\ at' = "done"
  /\ UNCHANGED <<repository, tool, ref, usedRef, sha, read, reads>>

Fail ==
  /\ at \notin {"done", "missing", "failed"}
  /\ at' = "failed"
  /\ UNCHANGED <<repository, tool, ref, usedRef, sha, read, reads>>

-----------------------------------------------------------------------------
\* Others.

Named(b, t, n) == ({b[n], t[n]} \ {Unset}) \cup ({n} \cap CommitIDs)

Change ==
  /\ at \notin {"done", "missing", "failed"}
  /\ pushes < MaxPushes /\ pushes' = pushes + 1
  /\ UNCHANGED call
  /\ denoted' = [n \in Names |-> denoted[n] \cup Named(branch', tag', n)]
  /\ defaults' = defaults \cup {default'}

Push ==
  /\ \E n \in Names, c \in CommitIDs \cup {Unset} : branch' = [branch EXCEPT ![n] = c]
  /\ UNCHANGED <<tag, default>>
  /\ Change

Tag ==
  /\ \E n \in Names, c \in CommitIDs \cup {Unset} : tag' = [tag EXCEPT ![n] = c]
  /\ UNCHANGED <<branch, default>>
  /\ Change

SetDefault ==
  /\ default' \in {n \in Names : branch[n] # Unset}
  /\ UNCHANGED <<branch, tag>>
  /\ Change

-----------------------------------------------------------------------------
ContentsInit ==
  /\ branch \in [Names -> CommitIDs \cup {Unset}]
  /\ tag \in [Names -> CommitIDs \cup {Unset}]
  /\ default \in Names
  /\ pushes = 0
  /\ defaults = {default}
  /\ denoted = [n \in Names |-> Named(branch, tag, n)]
  /\ tool \in {"list_directory", "get_file", "search_code"}
  /\ ref \in Names \cup {Unset}
  /\ usedRef = ref
  /\ at = IF ref = Unset THEN "default" ELSE "branch"
  /\ sha = Unset /\ read = {} /\ reads = 0

ContentsNext ==
  \/ ResolveContentRef \/ ResolveDefault \/ HeadOfDefault
  \/ GetBranch \/ ListTags \/ GetCommit
  \/ DirectoryTree \/ ContentPrefix \/ GetContent \/ DownloadArchive \/ Return \/ Fail
  \/ Push \/ Tag \/ SetDefault

ContentsSpec == ContentsInit /\ [][ContentsNext]_contentsVars

-----------------------------------------------------------------------------
\* All a call returns is from one commit, one that the ref it reports has named
\* during the call, and that ref is the one asked for or has been the default
\* branch during the call (snapshot.go:12, content.go:92).
OneCommit ==
  at = "done" =>
    /\ read \subseteq {sha}
    /\ sha \in denoted[usedRef]
    /\ usedRef \in IF ref = Unset THEN defaults ELSE {ref}
=============================================================================
