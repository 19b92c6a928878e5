CONSTANTS
  LbaSize = 512
  PgSize = 4096
  TableBytes = 16384
  Sizes <- AnySize
SPECIFICATION Spec
INVARIANT TypeOK
INVARIANT CopiesApart
INVARIANT BackupComplete
INVARIANT UsableClear
INVARIANT MappedUnlessAligned
CHECK_DEADLOCK TRUE
