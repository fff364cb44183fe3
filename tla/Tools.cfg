\* Paging: four items, two changes while a list is read, calls of two refs.
\* Contents: a name that is also a hash, two changes of refs, two reads.
\* CodeSearch: up to two files, in a repository with one name of its own and one
\* that is the archive's, limits that the larger trees exceed.
\* PullHistory: every graph of five commits, walks of up to four.
\* PullDiff: up to two deletions, two additions and a modification.
\* IssueTools: two labels that may have one name, two changes by others.
\* Output: texts, lines and lists around the limits.
CONSTANTS
  MaxItem = 4
  Limits = {1, 2}
  ScanLimit = 2
  MaxEdits = 2
  Names = {n, c1}
  CommitIDs = {c1, c2}
  Unset = Unset
  MaxPushes = 2
  MaxReads = 2
  FileNames = {a, w}
  Wrapper = w
  MaxFiles = 2
  MaxHits = 2
  EntryLimit = 5
  SizeLimit = 10
  MaxResults = 2
  MaxReply = 1
  N = 5
  Paths = {f, g}
  MaxHistory = 4
  Deletions = {d1, d2}
  Additions = {a1, a2}
  Modifications = {m}
  Elsewhere = e
  None = None
  MaxChanged = 4
  Patches <- SmallPatches
  MaxDiff = 2
  Users = {u}
  LabelIds = {1, 2}
  Labels = {bug}
  MilestoneIds = {3}
  Titles = {v1}
  Keep = Keep
  Nobody = Nobody
  MaxMeddling = 2
  MaxBody = 6
  MaxRune = 3
  ChunkBytes = 4
  MaxLines = 3
  FileBytes = 5
  Separator = 2
  MaxText = 5
  TrimFrom = 4
  OutputBytes = 6
  WarningBytes = 1
SPECIFICATION ToolsSpec
CHECK_DEADLOCK FALSE
INVARIANTS
  CursorsDeliverOnce
  PagesKeepUp
  OneCommit
  SnapshotIsTree
  SearchFindsAll
  MergeBaseIsBest
  CommitsAreThePullRequests
  MergeStateIsRight
  RefusedOnlyIfLong
  DiffIsOfTheSelection
  ReferencesChecked
  EveryPartOnce
  OutputFits
PROPERTY
  UpdateIsExact
