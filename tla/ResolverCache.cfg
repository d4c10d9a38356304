SPECIFICATION Spec
CONSTANTS
  None = None
  Text <- MCText
  Plain <- MCPlain
  Trimmed <- MCTrimmed
  Bare <- MCBare
  FileName <- MCFileName
  Words <- MCWords
  AppIdLike <- MCAppIdLike
  Assignment <- MCAssignment
  Ids <- MCIds
  Unknown <- MCUnknown
  Request <- MCRequest
  Pid = {1}
  Program <- MCProgram
  Directories <- MCDirectories
  Capacity = 2
  MaxCalls = 4
  MaxChanges = 2
INVARIANTS CacheConsistent RecentIsCached AnswersCurrent UnknownSaysNothing UserOverridesSystem
