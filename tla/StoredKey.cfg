INIT ConfigInit
NEXT ConfigNext
CONSTANTS
  KeyedProviders = {openai, google}
  Keys = {key1, key2}
  NoKey = NoKey
  NoEntry = NoEntry
  Unreadable = Unreadable
  NoSettings = NoSettings
  MaxHandlers = 1
  MaxSaves = 2
  MaxLaunches = 3
INVARIANT HeldKeyIsAsked
CHECK_DEADLOCK FALSE
