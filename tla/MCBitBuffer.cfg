SPECIFICATION BufferSpec
CONSTANTS
  Byte = 2
  Huffman <- SymbolCodes
  LongestCode = 3
  MaxSize = 9
  Reserve = 4
  Values <- SomeValues
  Texts <- SomeTexts
  MaxText = 3
  Percent = 3
  Dot = 1
  MaxWrites = 3
INVARIANTS ReadBack NoFalseEnd SlackKept
CHECK_DEADLOCK FALSE
