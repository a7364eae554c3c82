SPECIFICATION Spec
CONSTANTS
  a = a
  b = b
  Null = Null
  Session = {a}
  Template = {t}
  TemplatesOf <- OwnTemplate
  NSeq = 1
  NReq = 2
  SessionOf <- TwoTurns
  ParentOf <- NoParent
  Images = {}
  PromptLen = 1
  MaxTokens = 1
  ChanCap = 1
  NBatch = 2
  Actions = {"delete"}
  ActionBudget = 1
  Serial = TRUE
  Faults = {}
INVARIANT
  SystemPromptFirst
