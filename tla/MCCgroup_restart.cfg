SPECIFICATION SerialSpec
CONSTANTS
  r1 = r1
  r2 = r2
  a = a
  b = b
  NoRun = NoRun
  Runs = {r1, r2}
  Names = {a, b}
  Configs <- SameName
  Hosts <- OneHost
  MaxPid = 1
  PidsMax <- MCPidsMax
  Killable = {r1, r2}
  Sweeping = FALSE
SYMMETRY Symmetry
INVARIANTS
  OwnLimitsOnly
  RestartConfines
