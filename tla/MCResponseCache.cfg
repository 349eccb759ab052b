SPECIFICATION Spec
CONSTANTS
  t1 = t1
  t2 = t2
  nothing = nothing
  Threads <- MCThreads
  ETags = {"e1"}
  Encodings = {"", "gzip"}
  Identity = ""
  Expires = {"soon"}
  Bodies = {"b1", "b2"}
  Hashes = {1, 2}
  HashOf <- MCHashOf
  Nothing <- nothing
SYMMETRY MCSymmetry
INVARIANTS
  TypeOK
  MissJustified
PROPERTIES
  ImplementsLossyStore
