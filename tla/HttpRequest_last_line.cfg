SPECIFICATION Spec
CONSTANTS
  Byte <- MCByte
  RequestLines <- MCRequestLines
  ContentLength <- MCContentLength
  ChunkSize <- MCChunkSize
  MaxBodySize = 2
  MaxRecv = 30
  UploadsFail = TRUE
  Requests <- OneChunk
  MaxRequests = 2
INVARIANT
  NoRequestLineWaits
CHECK_DEADLOCK FALSE
