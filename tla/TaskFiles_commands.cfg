\* Two PBOs of one name, two folders, or a PBO of odd names, in one command.
SPECIFICATION FairSpec
CONSTANTS
  CurrentPath <- MCCurrentPath
  Contents <- MCContents
  Disks <- MCDisks
  Folders <- MCFolders
  UserCommands <- MCUserCommands
  Selections <- MCSelections
  Answers <- MCAnswers
  Modes = {"Abort", "Copy", "Overwrite"}
  Escapes <- MCEscapes
  Reserved <- MCReserved
  PrefixPaths <- MCPrefixPaths
  Threads = 2
  MaxCopy = 2
  MaxCommands = 1
  Faults = {"header", "folder", "open", "source", "config", "write"}

CHECK_DEADLOCK FALSE

INVARIANTS
  TypeOK
  
  
  CopiesApart
  


  
