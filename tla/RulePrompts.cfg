SPECIFICATION PromptSpec
CONSTANTS
  tool1 = tool1
  tool2 = tool2
  Reply = Reply
  App = App
  Tools <- TwoTools
  Loops <- OneLoop
  Ids = {"check", "stop", "first", "hint", "tell", "bye"}
  PromptRules = {"hint", "tell"}
  Contexts = {"fine", "bad"}
  ContextOf <- CallsDiffer
  RuleLists <- TwoLists
  MaxReloads = 1
  Sessions <- FreshOrResumed
  ActiveLists <- SomeActive
SYMMETRY SameTools
CHECK_DEADLOCK FALSE
INVARIANTS
  RequestWhole
  OncePerLoad
  RejectedNeverRuns
PROPERTIES
  OnlyConversationKept
