SPECIFICATION Spec
CONSTANTS
  Threads = {t1, t2}
  Clients = {c1, c2}
  Blobs = {b1, b2}
  Keys = {plain, k1}
  Plain = plain
  FaultSets = {{"write", "read", "remove"}, {"write", "close", "read", "remove"}}
  NoData = nodata
  Garbage = garbage
  Blank = blank
  Torn = torn
  Absent = absent
  None = none
INVARIANTS NeverHalfWritten
PROPERTIES Refines SealsOpen
SYMMETRY Symmetry
