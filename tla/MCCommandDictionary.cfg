SPECIFICATION DictionarySpec
CONSTANTS
  Letters = {1, 2, 3}
  Commands <- SomeCommands
  DictSize = 4
  MaxDistance = 2
  MaxPrefix = 1
  MaxTokens = 3
  MaxWritten = 6
INVARIANTS ReadExact DictionariesAgree KeptOnce
CHECK_DEADLOCK FALSE
