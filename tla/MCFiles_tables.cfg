SPECIFICATION FilesSpec
CONSTANTS
  p1 = p1
  p2 = p2
  p3 = p3
  x = x
  y = y
  Proc <- MCThree
  First = p1
  Name <- MCXY
  NR_FILES = 2
  NR_FILE_DESC = 2
  MaxFiles = 3
  MaxCnt = 4
  OpensDirs = FALSE
  BITS = 2
  NR_DEFAULT_FILE_SECTS = 4
  INSTALL_BIT = 17
SYMMETRY MCSymmetry
CONSTRAINT MCOneMore
INVARIANTS
  OpenFileKept
  DiskConsistent
  NoFsAssert
PROPERTIES
  DescriptorStable
CHECK_DEADLOCK FALSE
