\* Two tests of two registers, over a connection that splits at will.
CONSTANTS
  RegisterCount = 4
  ByteWidth = 1
  Byte <- MCByte
  Addresses <- MCAddresses
  Payloads <- MCPayloads
  HeaderBytes = 2
  REGCNT = 2
  TESTCNT = 2
  MaxMisreads = 1
SPECIFICATION Spec
INVARIANTS
  TypeOK
  CountsAreRegisters
  TestsPassUnlessSplit
  AnswerUnderWay
