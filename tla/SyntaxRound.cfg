SPECIFICATION Spec
CONSTANTS
  Dictionary <- MCDictionary
  Sources <- MCSources
  ConfigsOf <- MCConfigsOf
  DamagesOf <- MCDamagesOf
  Lexed <- MCLexed
  Parsed <- MCParsed
  Formatted <- MCFormatted
  Printed <- MCPrinted
CHECK_DEADLOCK FALSE
PROPERTIES
  ReadsAsWritten
  FormatKeepsProgram
  PlainFormatIsIdempotent
  CommentsSurvive
  DisplayKeepsProgram
  DamageIsContained
