SPECIFICATION FileDataSpec
CONSTANTS
  NrFiles = 2
  SECTOR_SIZE = 2
  NR_DEFAULT_FILE_SECTS = 2
  INSTALL_NR_SECTS = 8
  FSBUF_SECTS = 2
  UntarSects = 1
  Desc <- MCDesc
  Lens <- MCLens
  Written <- MCWritten
  Archives <- MCArchives
INVARIANTS
  WrittenKept
  ReadGivesWritten
  SizeCovers
  ArchiveExtracted
CHECK_DEADLOCK FALSE
