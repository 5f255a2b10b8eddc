\* Two subjects of one provider that tells no address.
SPECIFICATION Spec
CONSTANTS
  Reqs = {r1, r2}
  Emails = {NoEmail}
  NoEmail = NoEmail
  Providers = {google}
  Subjects = {s1, s2}
  Nonces = {n1}
  Ops = {"oauth"}
  Failures = FALSE
  None = None
INVARIANTS
  OneAccountPerProvider
