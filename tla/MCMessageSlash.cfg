CONSTANTS
  Symbols <- MCSymbols
  Keys <- KeysWithSlash
  Values <- OneText
  Memsizes <- None
  Lines <- None
  Junk <- SomeJunk
  bufsize = 9
  MaxDatagram = 10
  JsonFrame = 4
SPECIFICATION Spec
INVARIANT
  GetReturnsWhatWasSet
