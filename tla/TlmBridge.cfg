\* Packets of every kind, one after the other, against the device.
CONSTANTS
  RegisterCount = 3
  ByteWidth = 2
  Byte <- MCByte
  Addresses <- MCAddresses
  Payloads <- MCPayloads
SPECIFICATION Spec
INVARIANTS
  TypeOK
  DataMovesExactly
  OkTakesTime
PROPERTIES
  BTransportStaysInRange
  RefusedPacketChangesNothing
  ReadsDoNotStore
