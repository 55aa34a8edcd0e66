SPECIFICATION Spec
CONSTANTS
  Byte <- MCByte
  RequestLines <- MCRequestLines
  ContentLength <- MCContentLength
  ChunkSize <- MCChunkSize
  MaxBodySize = 2
  MaxRecv = 30
  UploadsFail = TRUE
  Requests <- MCRequests
  MaxRequests = 2
INVARIANTS
  CursorInBuffer
  BodyIsPayload
  
  BodyWithinLimit
  
  ErrorLeavesNoUpload
  NeedsMoreDataOrChunkEnd
CHECK_DEADLOCK FALSE
