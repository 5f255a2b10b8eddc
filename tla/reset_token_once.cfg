\* One reset token presented twice.
SPECIFICATION Spec
CONSTANTS
  r1 = r1  r2 = r2  r3 = r3
  u1 = u1
  t1 = t1  t2 = t2  t3 = t3  t4 = t4  t5 = t5
  p1 = p1  p2 = p2  p3 = p3  p4 = p4
  None = None
  Reqs = {r1, r2}
  Users = {u1}
  Tokens = {t1, t2, t3}
  Resets = {p1}
  Owner <- OneUser
  Sessions0 = {t1}
  Resets0 = {p1}
  Ops = {"confirm"}
  Failures = FALSE
INVARIANTS
  ResetTokenUsedOnce
