CONSTANTS
  Config = {c1, c2}
  Roles = {r1, r2}
  NoPayload = NoPayload
SPECIFICATION FilesSpec
CHECK_DEADLOCK FALSE
INVARIANT RestoresLastCommitted
