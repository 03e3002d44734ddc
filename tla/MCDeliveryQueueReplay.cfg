CONSTANTS
  startup = startup
  drain1 = drain1
  drain2 = drain2
  live2 = live2
  account = account
  Entries <- MCEntries
  Orphans <- MCEntries
  BestEffort <- MCNone
  LiveCalls <- MCNone
  EntryOf <- MCEntryOf
  Recoveries <- MCRecoveries
  Drains <- MCTwoDrains
  KeyOf <- MCKeyOf
  Matching <- MCMatchAll
  MaxRetries = 2
  BudgetExpires = FALSE
  IoErrors = FALSE
  MaxCrashes = 1
  CountReplays = TRUE
SPECIFICATION FairSpec
INVARIANTS ReplayedOnce AckedStaysGone AttemptsBounded
 
