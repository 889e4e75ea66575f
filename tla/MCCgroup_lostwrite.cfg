SPECIFICATION Spec
CONSTANTS
  r1 = r1
  r2 = r2
  a = a
  b = b
  NoRun = NoRun
  Runs = {r1, r2}
  Names = {a, b}
  Configs <- TwoNames
  Hosts <- OneHost
  MaxPid = 1
  PidsMax <- MCPidsMax
  Killable = {}
  Sweeping = FALSE
INVARIANTS
  ApplyReportsTruth
