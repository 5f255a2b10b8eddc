\* Three requests of any session or reset endpoint on an account with two sessions
\* and an outstanding reset token.
SPECIFICATION Spec
CONSTANTS
  r1 = r1  r2 = r2  r3 = r3
  u1 = u1
  t1 = t1  t2 = t2  t3 = t3  t4 = t4  t5 = t5
  p1 = p1  p2 = p2  p3 = p3  p4 = p4
  None = None
  Reqs = {r1, r2, r3}
  Users = {u1}
  Tokens = {t1, t2, t3, t4, t5}
  Resets = {p1, p2, p3, p4}
  Owner <- OneUser
  Sessions0 = {t1, t2}
  Resets0 = {p1}
  Ops = {"login", "refresh", "logout", "request", "confirm"}
  Failures = TRUE
INVARIANTS
  TypeOK
  IInv
  OneLivePerFamily
  SuccessorLinked
  RotatedOnce
  AnsweredRefreshDurable
  ResetCoversSnapshot
  RequestCoversSnapshot
PROPERTIES
  RevocationFinal
  ImplementsChains
  UsedFinal
SYMMETRY Symmetric
