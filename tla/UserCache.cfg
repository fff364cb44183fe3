\* Three requests, two commits, one repository: every interleaving of the locks.
CONSTANTS
  Procs = {p1, p2, p3}
  Snapshots = {s1, s2}
  Repos = {r1}
  Temps = {t1}
  Bases = {b1, b2}
  Writer = Writer
  None = None
SPECIFICATION Spec
SYMMETRY Symmetry
INVARIANTS
  TypeOK
  WriterGuardsEntries
  PublicationAtomic
  PinnedIsWhole
  PublishFindsNoDirectory
  DiffUsesOwnBase
  ShareKeepsSnapshot
PROPERTIES
  HeldEntriesKept
  KeepsStorePromises
