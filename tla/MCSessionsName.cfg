SPECIFICATION Spec
CONSTANTS
  Conn = {k1, k2}
  Name = {alice}
  NoConn = NoConn
  NoName = NoName
  Checked = {"VWAP_STATUS"}
  MaxUnread = 1
INVARIANTS
  OneProgramPerName
CHECK_DEADLOCK FALSE
