SPECIFICATION Spec
CONSTANTS
  Periods <- MCPeriods
  Accounts <- MCAccounts
  DebitNormal <- MCDebitNormal
  BalanceSheet <- MCBalanceSheet
  Postable <- MCAccounts
  Requests <- MCRequests
  Corrections <- MCCorrections
  Sub = 1
  RateScale = 1
  Rates = {}
  MaxEntries = 3
INVARIANTS
  CheckAndRozvahaAgree
  CheckMeasuresProfit
  ProfitOfStandingEntries
  TaxBaseOfDeductibles
CHECK_DEADLOCK FALSE
