SPECIFICATION FairSpec
CONSTANTS
  c1 = c1
  c2 = c2
  c3 = c3
  m1 = m1
  m2 = m2
  t1 = t1
  t2 = t2
  s1 = s1
  s2 = s2
  NoSysId = NoSysId
  NoConn = NoConn
  NoReq = NoReq
  Conn = {c1, c2}
  Thread = {t1, t2}
  Sm = {m1}
  SysId = {s1}
  NoDst = {}
  Script <- ErrorScript
  Leaving = {}
  Patient = {c1, c2}
  Tolerance = 2
  MaxClients = 1
PROPERTIES EveryRequestAnswered ErrorEndsConnection
CHECK_DEADLOCK FALSE
