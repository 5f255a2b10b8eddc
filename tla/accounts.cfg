\* Three requests: signups, verifications and callbacks of two subjects.
SPECIFICATION FairSpec
CONSTANTS
  Reqs = {r1, r2, r3}
  Emails = {e1, NoEmail}
  NoEmail = NoEmail
  Providers = {google}
  Subjects = {s1, s2}
  Nonces = {n1}
  Ops = {"signup", "verify", "oauth"}
  Failures = TRUE
  None = None
INVARIANTS
  TypeOK
  SignupWhole
  LinkedToUser
  VerifiedByToken
  CreatedOnce
  WaitsEnd
PROPERTIES
  ImplementsBook
  EveryRequestEnds
