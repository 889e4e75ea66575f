SPECIFICATION FairSpec
CONSTANTS
  box = box
  upper = upper
  f = f
  g = g
  dir = dir
  p1 = p1
  p2 = p2
  p3 = p3
  Root = box
  Dirs <- MCDirs
  Nodes <- MCNodes
  Parent <- MCParent
  Late = {dir}
  Procs = {p1, p2, p3}
  Deletes = {p3}
  Prone = {p1}
INVARIANTS
  TypeOK
  BoxGoes
  SuccessMeansGone
PROPERTIES
  RemoverEnds
