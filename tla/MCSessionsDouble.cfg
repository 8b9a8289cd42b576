SPECIFICATION SessionsSpec
CONSTANTS
  Periods <- MCPeriods
  Accounts <- MCAccounts
  DebitNormal <- MCDebitNormal
  BalanceSheet <- MCBalanceSheet
  Postable <- MCAccounts
  Requests <- MCRequests
  Corrections = {}
  Sub = 1
  RateScale = 1
  Rates = {1}
  MaxEntries = 3
  Sessions = {s1, s2}
  MaxRequests = 3
INVARIANT
  VoidedExactlyByReversal
CHECK_DEADLOCK FALSE
