SPECIFICATION Spec
CONSTANTS
  r1 = r1
  r2 = r2
  a = a
  b = b
  NoRun = NoRun
  Runs = {r1, r2}
  Names = {a, b}
  Configs <- SameName
  Hosts <- OneHost
  MaxPid = 1
  PidsMax <- MCPidsMax
  Killable = {}
  Sweeping = TRUE
SYMMETRY Symmetry
INVARIANTS
  TypeOK
  NoLeak
  ReturnsAfterBox
