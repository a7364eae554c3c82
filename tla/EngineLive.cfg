SPECIFICATION FairSpec
CONSTANTS
  a = a
  b = b
  Null = Null
  Session = {a, b}
  Template = {t}
  TemplatesOf <- OwnTemplate
  NSeq = 2
  NReq = 3
  SessionOf <- ThreeRequests
  ParentOf <- NoParent
  Images = {3}
  PromptLen = 1
  MaxTokens = 1
  ChanCap = 1
  NBatch = 3
  Actions = {}
  ActionBudget = 0
  Serial = FALSE
  Faults = {"evict", "decode"}
INVARIANT
  NothingLost
PROPERTY
  Answered
