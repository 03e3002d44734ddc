CONSTANTS
  startup = startup
  drain1 = drain1
  drain2 = drain2
  live2 = live2
  account = account
  Entries <- MCEntries
  Orphans <- MCEntries
  BestEffort <- MCNone
  LiveCalls <- MCNone
  EntryOf <- MCEntryOf
  Recoveries <- MCRecoveries
  Drains <- MCOneDrain
  KeyOf <- MCKeyOf
  Matching <- MCMatchSecond
  MaxRetries = 2
  BudgetExpires = TRUE
  IoErrors = FALSE
  MaxCrashes = 0
  CountReplays = FALSE
SPECIFICATION Spec
INVARIANT AckedStaysGone
