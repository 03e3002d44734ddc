CONSTANTS
  startup = startup
  drain1 = drain1
  drain2 = drain2
  live2 = live2
  account = account
  Entries <- MCEntries
  Orphans <- MCFirst
  BestEffort <- MCFirst
  LiveCalls <- MCLive
  EntryOf <- MCEntryOf
  Recoveries <- MCRecoveries
  Drains <- MCOneDrain
  KeyOf <- MCKeyOf
  Matching <- MCMatchSecond
  MaxRetries = 2
  BudgetExpires = TRUE
  IoErrors = TRUE
  MaxCrashes = 1
  CountReplays = FALSE
SPECIFICATION Spec
INVARIANTS TypeOK ClaimsMatchCalls
PROPERTY DeliversAtLeastOnce
