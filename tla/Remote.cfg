SPECIFICATION RemoteSpec
CONSTANTS
  INPUT_BUFFER_SIZE = 58
  RPC_BUFFER_SIZE = 24
  BLOCK_LIMIT = 16
  Words <- MCWords
  Tenths <- MCTenths
  Faults <- MCFaults
  ChunkSizes <- MCChunks
  Callers <- MCCallers
  Payloads <- MCPayloads
  Overlong <- MCOverlong
  Replies <- MCReplies
INVARIANTS
  ExecutedIsAsked
  
  AnswerMeant
  RepliesUnderstood
PROPERTY
  CallReturns
