SPECIFICATION Spec
CONSTANTS
  c1 = c1
  c2 = c2
  c3 = c3
  m1 = m1
  m2 = m2
  t1 = t1
  t2 = t2
  s1 = s1
  s2 = s2
  NoSysId = NoSysId
  NoConn = NoConn
  NoReq = NoReq
  Conn = {c1, c2, c3}
  Thread = {t1, t2}
  Sm = {m1, m2}
  SysId = {s1, s2}
  NoDst = {m2}
  Script <- AccountsScript
  Leaving = {}
  Patient = {c1, c3}
  Tolerance = 3
  MaxClients = 1
INVARIANTS TypeOK AccountsApart
PROPERTIES KeepsSession
CHECK_DEADLOCK FALSE
