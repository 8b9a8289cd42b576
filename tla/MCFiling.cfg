SPECIFICATION FilingSpec
CONSTANTS
  Periods <- MCPeriods
  Accounts <- MCAccounts
  DebitNormal <- MCDebitNormal
  BalanceSheet <- MCBalanceSheet
  Postable <- MCAccounts
  Requests <- MCRequests
  Corrections = {}
  Sub = 1
  RateScale = 1
  Rates = {}
  MaxEntries = 2
  ManualRequests <- MCManualRequests
  InvoiceRequests <- MCInvoiceRequests
  Dics <- MCDics
  MalformedDics = {}
  NoDic = NoDic
  Symbols = {}
  NoSymbol = NoSymbol
  NoAccount = NoAccount
  VatPeriods <- MCVatPeriods
  KhThreshold = 40
  MaxInvoices = 2
  Clerks = {c1, c2}
  Labelled <- MCReturns
  YearOf <- MCYearOf
  AssetAccounts <- MCAssets
  LiabilityAccounts <- MCLiabilities
  Tolerance = 190
  MismatchTolerance = 20
  MaxFilings = 1
SYMMETRY ClerkSymmetry
INVARIANTS
  FilingTypeOK
  FiledRowsStayMarked
  MarkedOnlyWhenFiled
  ReturnsFollowLedger
  
CHECK_DEADLOCK FALSE
