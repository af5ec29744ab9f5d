SPECIFICATION Spec
CONSTANTS
  Requests <- MCRequests
  Users <- MCUsers
  Queries <- MCQueries
  Configs <- MCConfigs
  Grants <- MCGrants
  Burst = 1
  Nobody = "nobody"
  Psk = "psk"
  a1 = a1
  a2 = a2
SYMMETRY Symm
INVARIANTS
  OneAnswer
  HandlerIsEntitled
  TransportsAgree
  UserBurstBound
