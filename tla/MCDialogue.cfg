SPECIFICATION Spec
CONSTANTS
  Names <- ToolNames
  Sanitized <- SanitizedNames
  Internal = {}
  Declarations <- ToolLists
  AnthropicIds = {t1, t2, t3, t4}
  t1 = t1
  t2 = t2
  t3 = t3
  t4 = t4
  UpstreamIds = {c1, c2}
  c1 = c1
  c2 = c2
  Asked = {1, 9}
  MaxContext = 12
  MaxOutput = 5
  MinOutput = 2
  Headroom = 1
  KeptTools = 1
  MessageTokens = 2
  ToolTokens = 3
  ExitToolTokens = 1
  MaxSystem = 2
  MaxCalls = 2
  MaxTurns = 2
  None = None
SYMMETRY Interchangeable
INVARIANT ResultsFollowCalls FittingIsMinimal AnswerFits IdsDistinct CallsArrive
