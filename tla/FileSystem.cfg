\* Three names for two directory entries and five sectors besides the system's four, so that the directory, headers and data can run out; a file of five bytes is larger than a header can name. Type 4 is a wrong type. No deadlock check: the model stops after an undefined access.
CONSTANTS
  f = f
  g = g
  h = h
  x = x
  y = y
  Name = {f, g, h}
  Byte = {x, y}
  Size = {1, 4, 5}
  Count = {1, 3}
  Type = {0, 4}
  NumSectors = 9
  SectorSize = 2
  NumDirEntries = 2
  NumDirect = 2
  NumSlots = 3
  FreeMapFileSize = 1
  DirectoryFileSize = 2
  Absent = Absent
  Gone = Gone
  Kernel = Kernel
SPECIFICATION Spec
INVARIANT SectorsOwned
PROPERTY ImplementsFileStore
SYMMETRY Symmetry
VIEW View
CHECK_DEADLOCK FALSE
