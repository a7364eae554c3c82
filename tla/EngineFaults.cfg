SPECIFICATION Spec
CONSTANTS
  a = a
  b = b
  Null = Null
  Session = {a, b}
  Template = {t}
  TemplatesOf <- OwnTemplate
  NSeq = 2
  NReq = 3
  SessionOf <- TurnsAndFork
  ParentOf <- ForkOfFirst
  Images = {3}
  PromptLen = 2
  MaxTokens = 1
  ChanCap = 1
  NBatch = 3
  Actions = {"save", "idle", "delete"}
  ActionBudget = 1
  Serial = FALSE
  Faults = {"evict", "save", "decode", "restart"}
INVARIANTS
  TypeOK
  VramExclusive
  OnePlace
