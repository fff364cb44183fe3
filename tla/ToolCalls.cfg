\* Two requests that are calls or cache cleans, a call without use for the cache,
\* two slots; no symmetry (liveness).
CONSTANTS
  Procs = {p1, p2}
  Others = {o}
  Slots = 2
  Snapshots = {s1}
  Repos = {r1}
  Temps = {t1}
  Bases = {b1}
  Writer = Writer
  None = None
SPECIFICATION ToolCallsSpec
PROPERTY
  CallsEnd
