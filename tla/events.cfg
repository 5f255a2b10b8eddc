\* Two events published while handlers subscribe to their types and the bus is
\* cleared.
SPECIFICATION Spec
CONSTANTS
  Types = {t1}
  Handlers = {h1, h2}
  Lists = {l1, l2}
  Events = {e1, e2}
  MaxLen = 2
  None = None
INVARIANTS
  TypeOK
  DispatchComplete
SYMMETRY Symmetric
