SPECIFICATION Spec
CONSTANTS
  Posters = {cmd}
  Driver = driver
  Codes = {KeyDone}
  NoEvent = NoEvent
  Data = {none}
  Oversize = Oversize
  NoData = NoData
  MaxActiveInterrupts = 1
  Commander = cmd
  KeyDone = KeyDone
  KeyLen = 1
  IndexLen = 1
  InfoLen = 1
  MaxDataSize = 2
  Bytes = {0, 1}
  Keys <- MCKeys
  SizeOf <- MCSizeOf
  Readable <- MCKeys
  Writable <- MCWritable
  Private = {}
  Special = {}
  NameAt <- MCNameAt
  InfoOf <- MCInfoOf
  Readings <- MCReadings
  Initial <- MCInitial
INVARIANTS
  TypeOK
  NoValueLeft
