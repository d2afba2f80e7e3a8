SPECIFICATION Spec
CONSTANTS
  Views = {v1}
  Logins = {l1, l2}
  Logouts = {o1}
  Starts = {s1}
  Callbacks = {c1, c2}
  Workers = {w1, w2}
  p1 = p1
  p2 = p2
  s1 = s1
  c1 = c1
  c2 = c2
  l1 = l1
  l2 = l2
  o1 = o1
  v1 = v1
  w1 = w1
  w2 = w2
  People <- MCPeople
  LoginOf <- MCLoginOf
  EmailOf <- MCEmailOf
  Demo <- MCDemo
  Crowds <- MCCrowds
  Earlier = Earlier
  None = None
INVARIANTS TypeOK AccountsAreWhole SessionsAreOfTheirAccount PresentedSessionsAreOver SessionsEndForAReason
CHECK_DEADLOCK FALSE
 
