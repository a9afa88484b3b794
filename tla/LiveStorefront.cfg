SPECIFICATION PageSpec
CONSTANTS
  StoreView = {s1, s2}
  Configuration = {c1, c2}
  StockSearch = StockSearch
  Page = {p1}
  Unread = Unread
  MaxReads = 2
INVARIANTS AnswersWereLive OneConfigurationPerPage
