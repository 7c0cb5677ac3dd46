\* Every combination of headers in one turn, conversations of three turns;
\* responses of up to 8 bytes in all cuts; two responses of every dialect.
SPECIFICATION ExchangeSpec
CONSTANTS
  Cases <- MCCases
  BackendHeaders <- MCBackendHeaders
  Illegal = "illegal"
  Endpoints = {"chat", "completions", "embeddings"}
  NoText = nothing
  Tls = TRUE
  MaxPrefix = 2
  Bytes <- MCBytes
  NL = "nl"
  MaxLine = 3
  MaxBody = 4
  MaxReceived = 8
  Parse <- MCParse
  ParseBody <- MCParseBody
  NoUsage = NoUsage
  Unknown = Unknown
  Text = words
  Unnamed = unknown
  Names <- MCNames
  BaseOf <- MCBaseOf
  Prices <- MCPrices
  Garbage <- MCGarbage
  MaxInt <- MCMaxInt
  MaxCost <- MCMaxCost
  MaxPrompt = 1
  MaxOutput = 2
  MaxRows = 2
  nothing = nothing
  words = words  big = big  quantized = quantized  unknown = unknown
INVARIANTS TypeOK RecordsWhatWasSent RecordedIsExact RowsAddUp OnlyWhatShouldCross
  ConversationKeepsHash
CHECK_DEADLOCK FALSE
