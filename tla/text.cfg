SPECIFICATION Spec
CONSTANTS
  CodePoints <- Codes
  LetterTable <- LetterRanges
  NumberTable <- NumberRanges
  SeparatorTable <- SeparatorRanges
  Space <- blank
  Quote <- quote
  Blanks <- BlankCodes
  Lower <- LowerCase
  Contractions <- ShortForms
  VocabFile <- GptFile
  MergeLines <- GptMerges
  VocabLines <- BertFile
  Punctuation <- Puncts
  Controls = {}
  Suffix <- Hashes
  Unknown <- Unk
  Start <- Cls
  End <- Sep
  Pad <- PadT
  Mask <- MaskT
  CleanUps <- CleaningUp
  Alphabet <- Typed
  MaxText = 4
  Specials <- SpecialStrings
INVARIANTS
  TypeOK
  GptSpellsText
  WordsOfPattern
  MergesByRank
  BertRoundTrip
  LongestPieces
  TruncatesToLimit
  TypesPartInputs
