SPECIFICATION EvalSpec
CONSTANTS
  Tenants <- MCTenants
  Apps <- MCApps
  Actors <- MCActors
  ServiceActors <- MCServiceActors
  HomeTenant <- MCHomeTenant
  SetIds <- MCSetIds
  VersionIds <- MCVersionIds
  Codes <- MCCodes
  Names <- MCNames
  Keys <- MCKeys
  Texts <- MCTexts
  WellFormed <- MCWellFormed
  Marshal <- MCMarshal
  Column <- MCColumn
  Blank = NoValue
  None = NoRow
  NoValue = NoValue
  NoRow = NoRow
  Calls <- MCCalls
  Replicas <- MCReplicas
  Readers <- MCReaders
  MaxStoring = 1
  Queries <- MCQueries
  s1 = s1
  v1 = v1
  v2 = v2
  p1 = p1
  p2 = p2
  r1 = r1
SYMMETRY Symm
INVARIANTS
  CacheBacked
  RightProgram
  ReadsFollowPointer
