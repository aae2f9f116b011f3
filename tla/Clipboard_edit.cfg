\* Two entries, one of them in a folder; one file outside.
SPECIFICATION Spec
CONSTANTS
  Entries <- MCEntries
  FileTitles = {"b"}
  Bytes = {"A", "B", "X"}
  External = {"X"}
  MaxNodes = 4
  MaxDepth = 2
  MaxCopy = 1
  MaxLayouts = 2
  MaxTurns = 4
  Mishaps = {}

CHECK_DEADLOCK FALSE

INVARIANTS
  TypeOK
  
  OthersGetTheEntries


  
  
