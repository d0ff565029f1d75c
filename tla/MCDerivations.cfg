SPECIFICATION Spec
CONSTANTS
  p1 = p1
  p2 = p2
  v11 = v11
  v12 = v12
  v21 = v21
  v22 = v22
  Pfs <- MCPfs
  Vfs <- MCVfs
  VfOf <- MCVfOf
  Address <- MCAddress
  Top <- MCTop
  PfId <- MCPfId
  VfId <- MCVfId
  AnyValue = AnyValue
  Unset = Unset
  Rejected = Rejected
  Names <- MCNames
  MatchedBy <- MCMatchedBy
  Policies = {"always", "unless-stopped"}
  NoKey = NoKey
  NotBelow = NotBelow
  Shared <- MCShared
  Dot <- MCDot
  GlobOrder <- MCGlobOrder
  Absent = Absent
  Bad = Bad
  Open = Open
  PciQuestions <- MCPciQuestions
  PlanQuestions <- MCPlanQuestions
  HashQuestions <- MCHashQuestions
  RunQuestions <- MCRunQuestions
INVARIANTS
  HostDevicesSpared
  AskedDevicesKept
  PlanFollowsConfig
  HashFollowsContent
  SummaryFaithful
CHECK_DEADLOCK FALSE
