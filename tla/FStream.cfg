SPECIFICATION Spec
CONSTANTS
  FileLength = 6
  Size = 4
  FileStart = 1
  GpuStart = 1
  ChunkSize = 2
  Bar1Len = 2
  Bar1Mapped = {TRUE, FALSE}
INVARIANT ReadArrives
CHECK_DEADLOCK FALSE
