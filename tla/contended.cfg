SPECIFICATION Spec
CONSTANTS
  a = a
  b = b
  d = d
  e = e
  None = None
  Partial = Partial
  Procs = {a, b}
  Dirs = {d, e}
  Names = {m}
  Home <- SomeShared
  Objs = {o1}
  Kinds <- Tokenizers
  MutableKinds <- NoKinds
  Data = {x, y}
  Confs = {u}
  MaxNumber = 1
  MaxLen = 1
INVARIANT ModelsIntact
