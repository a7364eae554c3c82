SPECIFICATION Spec
CONSTANTS
  a = a
  b = b
  Null = Null
  Session = {a, b}
  Template = {t}
  TemplatesOf <- OwnTemplate
  NSeq = 1
  NReq = 4
  SessionOf <- FourRequests
  ParentOf <- NoParent
  Images = {}
  PromptLen = 1
  MaxTokens = 1
  ChanCap = 1
  NBatch = 2
  Actions = {"save", "idle", "delete"}
  ActionBudget = 2
  Serial = TRUE
  Faults = {"restart"}
INVARIANTS
  Aligned
  Isolated
PROPERTIES
  ImplementsSessionLog
  Continued
