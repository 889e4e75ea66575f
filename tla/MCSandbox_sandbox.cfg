SPECIFICATION MCSpec
CONSTANTS
  self = self
  del = del
  a = a
  NoRun = NoRun
  Names = {a}
  Configs <- WaitOrNot
  Hosts <- TwoHosts
  MaxPid = 1
  PidsMax = 4
  ChildConfigs <- Default
  Callers = {"sudo"}
  Resolvs = {"none"}
  Refusals <- SomeRefused
  Boxes <- OnlyNew
  Prone = {self}
  CommandEnds <- TwoEnds
  Scenes <- Every
INVARIANTS
  TypeOK
  RemovedAfterBox
  RmClean
  JournalTrue
PROPERTIES
  KeepsContract
  RunReturns
