SPECIFICATION SpecBoth
CONSTANTS
  CellBits = 4
  MaxEdgeList = 2
  Separator = 1
  AnyWord = 2
  AnyChar = 3
  Junk = 7
  NoTrie = NoTrie
  Dangling = Dangling
  Crashed = Crashed
  KeyList <- FourBitKeys
  Values = {1, 9}
  Careful = FALSE
  ReaderStarts <- AnyStart
PROPERTY FreezeKeepsItems
