SPECIFICATION FairSpec
CONSTANTS
  Users = {1, 2}
  Repositories = {1, 2}
  Teams = {1}
  Names = {1, 2}
  Settled <- MCStart
  Inputs <- MCInputs
  PageLimit = 1
  TopLevelPages = 2
  NestedPages = 2
  MaxTeams = 1
  MaxIdentities = 2
  MaxRepositories = 2
  MaxPairs = 2
  RequestLimit = 11
  MaxChanges = 1
INVARIANTS ResultsAreExact
PROPERTIES AnswersAreOwn SnapshotEnds
CHECK_DEADLOCK FALSE
