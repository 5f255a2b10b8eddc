\* Two requests while .env is edited and the process restarted; an Azure deployment
\* may have blanks around it or be nothing but blanks.
SPECIFICATION Spec
CONSTANTS
  d1 = d1
  padded = padded
  blank = blank
  Reqs = {r1, r2}
  Models = {m1, blank}
  Deployments = {Empty, d1, padded, blank}
  Stripped <- Strip
  Empty = Empty
  Environments <- EnvFiles
  MaxChunks = 2
  Edits = 1
  None = None
INVARIANTS
  TypeOK
  OneModel
  CallsRouted
  TranscriptSound
SYMMETRY Symmetric
