SPECIFICATION Spec
CONSTANTS
  Tenants <- MCTenants
  Apps <- MCApps
  Actors <- MCActors
  ServiceActors <- MCServiceActors
  HomeTenant <- MCHomeTenant
  SetIds <- MCSetIds
  VersionIds <- MCVersionIds
  Codes <- MCCodes
  Names <- MCNames
  Keys <- MCKeys
  Texts <- MCTexts
  WellFormed <- MCWellFormed
  Marshal <- MCMarshal
  Column <- MCColumn
  Blank = NoValue
  None = NoRow
  NoValue = NoValue
  NoRow = NoRow
  Calls <- MCCalls
  s1 = s1
  s2 = s2
  v1 = v1
  v2 = v2
  v3 = v3
SYMMETRY Symm
INVARIANTS
  TypeOK
  RowsAgree
  PublicationsAgree
  TenantIsolation
PROPERTIES
  RevisionsIdentify
CHECK_DEADLOCK FALSE
