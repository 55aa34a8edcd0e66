SPECIFICATION Spec
CONSTANTS
  Byte <- MCByte
  RequestLines <- MCRequestLines
  ContentLength <- MCContentLength
  ChunkSize <- MCChunkSize
  MaxBodySize = 2
  MaxRecv = 30
  UploadsFail = TRUE
  Requests <- OneChunk
  MaxRequests = 1
INVARIANT
  NeedsMoreData
CHECK_DEADLOCK FALSE
