SPECIFICATION ClientsSpec
CONSTANTS
  Null = Null
  Failed = Failed
  Error = Error
  Vocabulary = {"a", "b"}
  Most = 9
  FarthestLikeness = 2
  Requests <- MCRequests
  DatabasesFor <- MCDatabasesFor
  MaxChanges = 1
  Sessions <- MCSessions
  MaxMutations = 2
  MaxTag = 5
  QueriesFor <- MCQueriesFor
INVARIANTS
  QueriesMean
  RowsMakeSense
  FieldsMean
  RepliesWereTrue
PROPERTIES
  MutationsMean
  HooksTell
\* A query that is answered is over, and so is a field.
CHECK_DEADLOCK FALSE
