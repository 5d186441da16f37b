\* Deletions whose table is written but whose entry is not, and entries that a
\* check cannot clear, are left out of FailsAt: see the README.
SPECIFICATION Spec
CONSTANTS
  Names = {n1, n2}
  NoFile = NoFile
  NoTable = NoTable
  DirSize = 2
  FirstPage = 5
  TableSize = 8
  EntriesPerBlock = 7
  Sizes = {1, 2}
  FailsAt <- MCFailsAt
SYMMETRY Symmetry
INVARIANTS
  TypeOK
  SavedStays
  CacheIsTable
  NothingLost
PROPERTIES
  PakSpec
