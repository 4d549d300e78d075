SPECIFICATION Spec
CONSTANTS
  BYTE_BITS = 2
  DIGIT_MAX = 2
  ROW_SIZE_LIMIT = 8
  Schema <- MCSchema
  Input <- MCInput
INVARIANTS
  RowIsTheEncodingOfItsValues
  CarrierIsDecodedWhole
  PrefixAgreesWithTheRow
CHECK_DEADLOCK FALSE
