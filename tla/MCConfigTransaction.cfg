CONSTANTS
  Config = {c1, c2}
  Roles = {r1, r2}
  NoPayload = NoPayload
SPECIFICATION FilesSpec
INVARIANTS Recoverable
PROPERTY AtomicSpec
