SPECIFICATION FairSpec
CONSTANTS
  r1 = r1
  r2 = r2
  a = a
  b = b
  NoRun = NoRun
  Runs = {r1, r2}
  Names = {a, b}
  Configs <- Crossing
  Hosts <- OneHost
  MaxPid = 1
  PidsMax <- MCPidsMax
  Killable = {r1}
  Sweeping = TRUE
PROPERTIES
  LauncherReturns
