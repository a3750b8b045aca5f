SPECIFICATION SpecBoth
CONSTANTS
  CellBits = 5
  MaxEdgeList = 2
  Separator = 1
  AnyWord = 2
  AnyChar = 3
  Junk = 7
  NoTrie = NoTrie
  Dangling = Dangling
  Crashed = Crashed
  KeyList <- FiveBitKeys
  Values = {0, 40}
  Careful = TRUE
  ReaderStarts <- CleanStart
INVARIANTS
  TypeOK
  QueriesAgree
PROPERTY ImplementsDictionary
