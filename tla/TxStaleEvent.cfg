SPECIFICATION Spec
CONSTANTS
  Tenants <- MCTenants
  Apps <- MCApps
  Actors <- MCActors
  ServiceActors <- MCServiceActors
  HomeTenant <- MCHomeTenant
  SetIds <- OneSet
  VersionIds <- TwoVersions
  Codes <- MCCodes
  Names <- MCNames
  Keys <- MCKeys
  Texts <- MCTexts
  WellFormed <- MCWellFormed
  Marshal <- MCMarshal
  Column <- MCColumn
  Blank = NoValue
  None = NoRow
  NoValue = NoValue
  NoRow = NoRow
  Calls <- WriteCalls
  Workers <- TwoWorkers
  s1 = s1
  s2 = s2
  v1 = v1
  v2 = v2
  w1 = w1
  w2 = w2
  w3 = w3
SYMMETRY AllSymmetric
INVARIANT
  EventDescribesCommit
