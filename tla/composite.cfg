SPECIFICATION Spec
CONSTANTS
  a = a
  b = b
  d = d
  e = e
  None = None
  Partial = Partial
  Procs = {a}
  Dirs = {d}
  Names = {m}
  Home <- OneHome
  Objs = {o1, o2}
  Kinds <- Composite
  MutableKinds <- Regexes
  Data = {x, y}
  Confs = {u, v}
  MaxNumber = 1
  MaxLen = 2
INVARIANTS IndInv LoadRestores
PROPERTIES SessionEnds ImplementsRepository
