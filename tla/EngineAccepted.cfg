SPECIFICATION Spec
CONSTANTS
  a = a
  b = b
  Null = Null
  Session = {a}
  Template = {t}
  TemplatesOf <- OwnTemplate
  NSeq = 1
  NReq = 1
  SessionOf <- OneRequest
  ParentOf <- NoParent
  Images = {}
  PromptLen = 1
  MaxTokens = 1
  ChanCap = 1
  NBatch = 2
  Actions = {"save", "idle"}
  ActionBudget = 2
  Serial = TRUE
  Faults = {}
PROPERTY
  AcceptedActionsHappen
