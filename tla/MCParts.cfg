\* Three threads that share three addresses, two takers of two values each from a queue of
\* four, and every text of up to seven characters with every pattern of up to six; the
\* other instances are given in MCParts.
CONSTANTS
  Threads = {t1, t2, t3}
  Addresses = {1, 2, 3}
  Takers = {"t1", "t2"}
  Puts = 4
  Wanted = 2
  Chars = {1, 2}
  MaxText = 7
  MaxPattern = 6
  MaxKey = 7
  MaxFd = 3
  MaxAddr = 2
  Retries = 3
  MaxCalls = 2
  MaxSessions = 3
  MaxRows = 1
  Columns = {"a", "b"}
  MaxCmd = 6
  Password = TRUE
  DictKeys = {1, 2, 3, 4}
  Vals = {1, 2}
  Hash <- KeyHashes
  DICT_HT_INITIAL_SIZE = 1
  Width5 = 4
  Width8 = 8
  SDS_MAX_PREALLOC = 6
  MaxLen = 7
  Texts <- PutTexts
  Indexes <- RangeIndexes
  Trimmed = {1}
SPECIFICATION PartsSpec
\* Some of the programs end.
CHECK_DEADLOCK FALSE
INVARIANTS ToldTheTruth SearchRight DataRight QueueRight CallsFaithful 
   
