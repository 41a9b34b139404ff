SPECIFICATION Spec
CONSTANTS
  Raised = Raised
  Null = Null
  Garbage = Garbage
  NaN = NaN
  Unsupported = Unsupported
  NoParam = NoParam
  DateHalf = 128
  DateOffset = 10
  MinDate <- MCMinDate
  MaxDate = 120
  TsHalf = 128
  TsOffset = 30
  MinTs <- MCMinTs
  MaxTs = 120
  PgEndTs = 125
  Kilo = 4
  ByteHalf = 2
  DEC_DIGITS = 2
  DigitMod = 65536
  TypeHalf <- MCTypeHalf
  TypeWidth <- MCTypeWidth
  MaxDatums = 8
  PgColumns <- MCPgColumns
  PgRows <- MCPgRows
  DuckColumns <- MCDuckColumns
  DuckRows <- MCDuckRows
INVARIANTS
  TypeOK
  RowsPreserved
  ResultsFaithful
  RaisedForCause
  OrderPreserved
  ParameterAgrees
CHECK_DEADLOCK FALSE
