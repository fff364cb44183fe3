\* A request that dies while it evicts, and the reader that comes after it.
CONSTANTS
  Procs = {p1, p2}
  Snapshots = {s1, s2}
  Repos = {r1}
  Temps = {t1}
  Bases = {b1}
  Writer = Writer
  None = None
SPECIFICATION FaultySpec
INVARIANT
  PinnedIsWhole
