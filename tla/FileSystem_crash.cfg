\* Names are made, linked and removed, files opened, and power fails.
CONSTANTS
  Names = {a, b}
  INODE_NUM = 4
  BLOCK_NUM = 4
  SectorEntries = 4
  BlockEntries = 5
  MAX_FILE_NUM = 1
  MaxCalls = 4
  NoName = NoName
  Calls = {"mkdir", "touch", "fopen", "fclose", "ln", "rm", "rmdir", "cd", "mkfs", "crash"}
SPECIFICATION Spec
INVARIANTS NamesLeadToInodes BlocksAreOwn DotsLeadBack CountsCoverNames OpenFilesStay BlockForEveryInode
PROPERTIES ImplementsTree
