SPECIFICATION FairSpec
CONSTANTS
  Conn = {k1, k2}
  Name = {alice, bob}
  NoConn = NoConn
  NoName = NoName
  Checked = {"VWAP_STATUS"}
  MaxUnread = 2
INVARIANTS
  TypeOK
  SessionsBelong
  InStep
  NamesSharedOnlyAfterLogout
  OnlyPartedResetsKill
PROPERTIES
  RequestsAnswered
  NamesGetFree
CHECK_DEADLOCK FALSE
