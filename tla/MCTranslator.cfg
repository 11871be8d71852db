SPECIFICATION TranslatorSpec
CONSTANTS
  UpstreamChunks <- AllChunks
  MaxChunks = 4
  MaxTools = 2
  Budgets <- MCBudgets
  Declared = {"read", "write"}
  MaxHallucinations = 2
  MaxRepetitions = 1
  NamesKept = 3
  MinNames = 2
  RecentWindow = 2
  RepeatsInWindow = 2
INVARIANT ContentArrives CallsArriveOnce
PROPERTY HonoursContract
