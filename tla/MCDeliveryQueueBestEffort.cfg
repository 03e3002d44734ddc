CONSTANTS
  startup = startup
  drain1 = drain1
  drain2 = drain2
  live2 = live2
  account = account
  Entries <- MCEntries
  Orphans <- MCEntries
  BestEffort <- MCFirst
  LiveCalls <- MCNone
  EntryOf <- MCEntryOf
  Recoveries <- MCRecoveries
  Drains <- MCNone
  KeyOf <- MCKeyOf
  Matching <- MCMatchAll
  MaxRetries = 2
  BudgetExpires = FALSE
  IoErrors = FALSE
  MaxCrashes = 0
  CountReplays = FALSE
SPECIFICATION Spec
INVARIANT BestEffortNotLost
