SPECIFICATION FairDeadlinesSpec
CONSTANTS
  Months = 3
  MonthDays <- MCMonthDays
  DppoMonth = 2
  ClosingMonth = 2
  FilingDay = 2
  Window = 1
  WarningDays = 0
  Clients <- MCClients
  MaxMissed = 1
PROPERTY
  VatReturnReminded
