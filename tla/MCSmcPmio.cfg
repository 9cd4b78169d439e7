SPECIFICATION Spec
CONSTANTS
  KeyLen = 2
  IndexLen = 1
  InfoLen = 4
  MaxDataSize = 4
  Bytes <- MCBytes
  Keys <- MCKeys
  SizeOf <- MCSizeOf
  Readable <- MCReadable
  Writable <- MCWritable
  Private <- MCPrivate
  Special <- MCSpecial
  NameAt <- MCNameAt
  InfoOf <- MCInfoOf
  Readings <- MCReadings
  Initial <- MCInitial
INVARIANTS
  TypeOK
  NotPanicked
  NoStaleBytes
  PhaseConsistent
PROPERTY
  TransactionSpec
