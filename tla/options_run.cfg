CONSTANTS
  Environments <- MCEnvironments
  ArgLists <- MCArgLists
  SettingsSet <- MCSettingsSet
  NumTests = 2
SPECIFICATION Spec
INVARIANTS TypeOK ShownPageVisible AffinityFollows AbortsOnlyUnknown
PROPERTIES StartKeepsApplied
CHECK_DEADLOCK FALSE
