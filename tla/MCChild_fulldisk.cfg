SPECIFICATION Spec
CONSTANTS
  Configs <- Config
  Callers <- CallerKinds
  Resolvs <- ResolvKinds
  Refusals <- OnlyUnlink
  Boxes <- OnlyNew
INVARIANTS
  HostFilesUntouched
