SPECIFICATION Spec
CONSTANTS
  p1 = p1
  p2 = p2
  p3 = p3
  Plugins = {p1, p2, p3}
  None = None
  Store = Store
  Base <- MCBase
  Offers <- MCOffers
  PluginMax = 2
  KeyCount = 1
  KPPW = 10
  Readable <- MCReadable
  Writable <- MCWritable
  Private <- MCPrivate
INVARIANTS
  TypeOK
  ReachableAlive
  NamesAreFound
  EnumeratedOnce
  OverrideAnswers
PROPERTY
  DirectorySpec
