SPECIFICATION FairSpec
CONSTANTS
  Configs <- Config
  Callers <- CallerKinds
  Resolvs <- ResolvKinds
  Refusals <- AnyTwo
  Boxes <- ThreeBoxes
INVARIANTS
  TypeOK
  HostUntouched
  CommandConfined
  CommandUnprivileged
  FilterInForce
PROPERTIES
  CommandReached
