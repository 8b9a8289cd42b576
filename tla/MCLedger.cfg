SPECIFICATION Spec
CONSTANTS
  Periods <- MCPeriods
  Accounts <- MCAccounts
  DebitNormal <- MCDebitNormal
  BalanceSheet <- MCBalanceSheet
  Postable <- MCPostable
  Requests <- MCRequests
  Corrections <- MCCorrections
  Sub = 10
  RateScale = 10
  Rates = {15}
  MaxEntries = 3
INVARIANTS
  TypeOK
  BalancesMatchLedger
  VoidedExactlyByReversal
  OpeningsCarriedFromClosed
  ReversedPostingsLeaveTheirMirror
PROPERTIES
  PostedEntriesImmutable
  NewEntriesInOpenPeriods
  ClosedBalancesChangeOnlyByVoid
CHECK_DEADLOCK FALSE
