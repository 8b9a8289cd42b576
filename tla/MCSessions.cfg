SPECIFICATION FairSessionsSpec
CONSTANTS
  Periods <- MCPeriods
  Accounts <- MCAccounts
  DebitNormal <- MCDebitNormal
  BalanceSheet <- MCBalanceSheet
  Postable <- MCAccounts
  Requests <- OneRequest
  Corrections = {}
  Sub = 1
  RateScale = 1
  Rates = {1}
  MaxEntries = 3
  Sessions = {s1, s2}
  MaxRequests = 3
INVARIANTS
  SessionsTypeOK
  VoidedHasReversal
PROPERTIES
  EveryRequestEnds
  SoloCommitHeals
  SoloCommitsAreLedgerSteps
  OpeningsWrittenOnce
CHECK_DEADLOCK FALSE
