SPECIFICATION Spec
CONSTANTS
  noRow = noRow
  null = null
  NoRow = noRow
  Null = null
  Orders = {1, 2, 3}
  Rows <- MCRows
  Filters <- MCFilters
  PageSize = 2
  MaxRows = 1
  Today = 16
  MonthStart <- MCMonthStart
  DayPoints = 4
  WeekPoints = 2
  MonthPoints = 3
  WarningLimit = 2
  AbnormalLimit = 2
  RiskLimit = 1
  AssemblyLimit = 1
  RiskDays = 2
CONSTRAINT Undisturbed
INVARIANTS
  PagesCoverTheList
  XlsxFits
  DashboardMatchesLists
  CalendarMatchesTrends
