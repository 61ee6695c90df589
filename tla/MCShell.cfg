SPECIFICATION Spec
CONSTANTS
  Nul = Nul
  Garbage = Garbage
  None = None
  PathMax = 14
  CompMax = 4
  PartMax = 6
  ArgMax = 2
  PathChars <- MCPathChars
  BlockSize = 2
  NameField = 8
  Mode <- MCMode
  FullMax = 12
  VnodeSize = 1
  DirDataSize = 3
  MaxFd = 2
  CatLen = 2
  HexLen = 2
  HeaderLen = 2
  ElfMax = 4
  ElfSize = 2
  Magic = "M"
  HeapLeft = 8
  Images <- MCImages
  Lines <- MCLines
  Conversions <- MCConversions
INVARIANTS
  TypeOK
  CanonMeans
  CanonFits
  ResolveMeans
  ListMeans
  ReadsWhole
  DescriptorsClosed
  CwdIsDirectory
  PrintfMeans
  SprintfAgrees
PROPERTIES
  ReadingEnds
