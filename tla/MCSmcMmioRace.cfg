SPECIFICATION Spec
CONSTANTS
  Posters = {cmd, als}
  Driver = driver
  Codes = {KeyDone, ALSChange}
  NoEvent = NoEvent
  Data = {none}
  Oversize = Oversize
  NoData = NoData
  MaxActiveInterrupts = 1
  Commander = cmd
  KeyDone = KeyDone
  KeyLen = 1
  IndexLen = 1
  InfoLen = 1
  MaxDataSize = 2
  Bytes = {0}
  Keys = {}
  SizeOf <- NoKeys
  Readable = {}
  Writable = {}
  Private = {}
  Special = {}
  NameAt <- NoKeys
  InfoOf <- NoKeys
  Readings <- NoKeys
  Initial <- NoKeys
INVARIANTS
  CompletionVisible
  EventStatusFresh
