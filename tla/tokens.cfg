\* A logout, a second one that races it and a request before or after them;
\* two ticks to a second and two changes of the account.
SPECIFICATION Spec
CONSTANTS
  Reqs = {r1, r2, r3}
  Access = {a1}
  Roles = {user, editor}
  Second = 2
  Lifetime = 2
  Opening = 1
  Closing = 6
  Edits = 2
  None = None
INVARIANTS
  TypeOK
  RevokedUntilLastSecond
  AllowedMeansHeld
SYMMETRY Symmetric
