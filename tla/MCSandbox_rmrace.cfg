SPECIFICATION Spec
CONSTANTS
  self = self
  del = del
  a = a
  NoRun = NoRun
  Names = {a}
  Configs <- OnlyPlain
  Hosts <- OneHost
  MaxPid = 1
  PidsMax = 4
  ChildConfigs <- Default
  Callers = {"sudo"}
  Resolvs = {"none"}
  Refusals <- NothingRefused
  Boxes <- OnlyNew
  Prone = {}
  CommandEnds <- TwoEnds
  Scenes <- Deleted
INVARIANTS
  RmLeavesNothing
