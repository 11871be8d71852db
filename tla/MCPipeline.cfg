SPECIFICATION Spec
CONSTANTS
  Chunks <- AllChunks
  MaxChunks = 5
  MaxTools = 2
  Declared = {"read", "write"}
  MaxHallucinations = 2
  MaxRepetitions = 1
  NamesKept = 3
  MinNames = 2
  RecentWindow = 2
  RepeatsInWindow = 2
INVARIANT ToolCallsArrive OnlySafetyLeavesOpen
PROPERTY HonoursContract
