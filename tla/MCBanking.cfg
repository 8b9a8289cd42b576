SPECIFICATION BankSpec
CONSTANTS
  Periods <- MCPeriods
  Accounts <- MCAccounts
  DebitNormal <- MCDebitNormal
  BalanceSheet <- MCBalanceSheet
  Postable <- MCAccounts
  Requests <- MCRequests
  Corrections = {}
  Sub = 1
  RateScale = 1
  Rates = {}
  MaxEntries = 4
  ManualRequests <- MCManualRequests
  InvoiceRequests <- MCInvoiceRequests
  Dics <- MCDics
  MalformedDics = {}
  NoDic = NoDic
  Symbols <- MCSymbols
  NoSymbol = NoSymbol
  NoAccount = NoAccount
  VatPeriods <- MCVatPeriods
  KhThreshold = 1000
  MaxInvoices = 2
  StatementRows <- MCStatementRows
  Statements <- MCStatements
  Plausible <- MCPlausible
  MaxTransactions = 2
INVARIANTS
  BankTypeOK
  SettlementsMatchTransactions
  MatchedNotFlagged
  NoDuplicateTransactions
PROPERTIES
  AutoMatchesAreCertain
  ImportHandlesAll
  KeepsPromise
CHECK_DEADLOCK FALSE
