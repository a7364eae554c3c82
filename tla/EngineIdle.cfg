SPECIFICATION FairSpec
CONSTANTS
  a = a
  b = b
  Null = Null
  Session = {a}
  Template = {t}
  TemplatesOf <- OwnTemplate
  NSeq = 1
  NReq = 1
  SessionOf <- OneRequest
  ParentOf <- NoParent
  Images = {}
  PromptLen = 1
  MaxTokens = 1
  ChanCap = 1
  NBatch = 2
  Actions = {"idle"}
  ActionBudget = 1
  Serial = TRUE
  Faults = {}
PROPERTY
  Answered
