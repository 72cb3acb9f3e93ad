SPECIFICATION Spec
CONSTANTS
  Conversations = {c1, c2}
  NoConversation = NoConversation
  Queries = {q1, q2}
  NoQuery = NoQuery
  Items = {i1}
  MaxCommands = 2
  Providers = {openai, litellm, ollama}
  Ollama = ollama
  BuiltIn = {openai, ollama}
  NoProvider = NoProvider
  NoForm = NoForm
  MaxCalls = 2
  MaxEdits = 3
  KeyedProviders = {openai, litellm}
  Keys = {key1, key2}
  NoKey = NoKey
  NoEntry = NoEntry
  Unreadable = Unreadable
  NoSettings = NoSettings
  MaxHandlers = 2
  MaxSaves = 2
  MaxLaunches = 3
INVARIANTS TypeOK DefaultIsKept KeysHeld
PROPERTIES InputReturns AnswersStay CommandsAdvance
CHECK_DEADLOCK FALSE
