CONSTANTS
  Symbols <- MCSymbols
  Keys <- CarriedKeys
  Values <- CarriedValues
  Memsizes <- InRange
  Lines <- TelnetLines
  Junk <- SomeJunk
  bufsize = 9
  MaxDatagram = 10
  JsonFrame = 4
SPECIFICATION Spec
INVARIANTS
  GetReturnsWhatWasSet
  StoredAreStrings
  NoUncaughtException
  NoStaleBytes
