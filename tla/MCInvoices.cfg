SPECIFICATION InvoicesSpec
CONSTANTS
  Periods <- MCPeriods
  Accounts <- MCAccounts
  DebitNormal <- MCDebitNormal
  BalanceSheet <- MCBalanceSheet
  Postable <- MCAccounts
  Requests <- MCRequests
  Corrections = {}
  Sub = 10
  RateScale = 10
  Rates = {15}
  MaxEntries = 3
  ManualRequests <- MCManualRequests
  InvoiceRequests <- MCInvoiceRequests
  Dics <- MCDics
  MalformedDics <- MCMalformedDics
  NoDic = NoDic
  Symbols = {}
  NoSymbol = NoSymbol
  NoAccount = NoAccount
  VatPeriods <- MCVatPeriods
  KhThreshold = 40
  MaxInvoices = 2
INVARIANTS
  InvoicesTypeOK
  RegisterMatchesEntry
  VoidedInvoiceReversed
PROPERTIES
  Spec
  RegisterRowsKept
CHECK_DEADLOCK FALSE
