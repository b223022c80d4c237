CONSTANTS
  Key <- MCKey
  Prefix <- MCPrefix
  Value = {v1, v2}
  NoValue = NoValue
  MaxKeyLen = 8
  Concurrent = FALSE
  CopyKey <- MCCopyKey
  CopyMaxKeyLen = 5
  Sender = {t1}
  MaxLen = 3
  MaxSent = 2
  MaxWire = 8
  Width = 3
  Char <- MCChar
  Text <- MCText
  Stray <- MCStray
  PrintLimit = 2
  MaxPackets = 3
  MaxPrints = 1
SPECIFICATION MCSpec
INVARIANTS CompletesTight CompletionAsserts PacketsWhole MessagesUnderstood
PROPERTIES ImplementsMap TriesAreMaps CompletionAnswered
CHECK_DEADLOCK FALSE
