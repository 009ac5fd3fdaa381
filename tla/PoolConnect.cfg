SPECIFICATION Spec
CONSTANTS
  a = a
  b = b
  NoUrl = NoUrl
  Session = {s1, s2}
  Fee = {fee}
  Workers = 1
  Pool = {a, b}
  TlsPool = {b}
  Lists <- MCLists
  FeeLists <- MCFeeLists
INVARIANTS TypeOK StreamIsUnderstood
PROPERTIES GivesUpOnlyAfterAll LinesForwarded AcceptsAgain BackupServes
CHECK_DEADLOCK FALSE
