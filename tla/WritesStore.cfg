CONSTANTS
  RegisterCount = 3
  ByteWidth = 2
  Byte <- MCByte
  Addresses <- MCAddresses
  Payloads <- MCPayloads
SPECIFICATION Spec
PROPERTY WritesStore
