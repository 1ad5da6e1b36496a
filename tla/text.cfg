SPECIFICATION Spec
CONSTANTS
  Pieces <- MCPieces
  Separator <- MCSeparator
  MaxLen = 4
  IntMax <- MCIntMax
  Octet <- MCOctet
  PortWord <- MCPortWord
  Word <- MCWord
INVARIANTS
  CatIsText
  SearchIsExact
  ParsesExactly
  Base64Exact
  CombinesUnordered
