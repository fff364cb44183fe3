\* A repository of one file, which may have the name of the archive's directory.
CONSTANTS
  FileNames = {a, w}
  Wrapper = w
  MaxFiles = 1
  MaxHits = 1
  EntryLimit = 5
  SizeLimit = 9
  MaxResults = 2
  MaxReply = 2
SPECIFICATION SearchSpec
CHECK_DEADLOCK FALSE
INVARIANT WrappedNeverClashes
