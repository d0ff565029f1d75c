SPECIFICATION Spec
CONSTANTS
  top = top
  instance = instance
  disk = disk
  other = other
  skipped = skipped
  nova = nova
  host = host
  qemu = qemu
  Paths <- MCPaths
  Top = top
  Dirs <- MCDirs
  Parent <- MCParent
  Excluded = {skipped}
  Unlabelled = {instance}
  Uids = {nova, host, qemu}
  Gids = {nova}
  Target <- MCTarget
  Previous <- MCPrevious
  Absent = Absent
  Contexts = TRUE
INVARIANTS
  TypeOK
  FilesKeepOwners
  MarkerOutlivesWork
  LabelsStayOff
