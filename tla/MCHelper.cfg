SPECIFICATION FairHSpec
CONSTANTS
  Conns = {c1, c2}
  Client = c1
  Devices <- MCDevices
  Strays = {"x"}
  MaxHandles = 2
  MaxChunk = 4
  Threads = {t1, t2}
  Writers = {t1}
  NoThread = NoThread
  Device <- MCDevice
  Block = 2
  Bytes = {0, 1}
  NewByte = 1
  MaxLen = 2
  OwnDevices <- MCOwn
  Scenes <- MCScenes
INVARIANTS
  HandlesNameTheirDevice
PROPERTIES
  BehavesAsADevice
  CallsReturn
CHECK_DEADLOCK FALSE
