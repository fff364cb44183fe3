\* Two requests that may die at any point, and removals that fail half way.
CONSTANTS
  Procs = {p1, p2}
  Snapshots = {s1}
  Repos = {r1}
  Temps = {t1, t2}
  Bases = {b1}
  Writer = Writer
  None = None
SPECIFICATION FaultySpec
SYMMETRY Symmetry
INVARIANTS
  LiveTemporaryKept
PROPERTY
  ListedEntriesKept
