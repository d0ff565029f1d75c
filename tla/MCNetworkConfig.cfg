SPECIFICATION Spec
CONSTANTS
  e1 = e1
  e2 = e2
  nic1 = nic1
  nic2 = nic2
  tenant = tenant
  NoNic = NoNic
  None = None
  Nics <- MCNics
  Pos <- MCPos
  NumberAlias <- MCNumberAlias
  NicKeys = {"name", "port"}
  Lookups <- MCLookups
  Templates <- MCTemplates
  SafeDefaults = TRUE
INVARIANTS
  TypeOK
  ResolvedMapping
  SkipsOnlyWhenDone
