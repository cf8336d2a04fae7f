SPECIFICATION HistorySpec
CONSTANTS
  MaxCommits = 6
  Times = {1, 2}
  Amounts = {1, 2}
INVARIANT MergeBaseIsBest
INVARIANT WalksVisitHistory
INVARIANT PagesListLine
CHECK_DEADLOCK FALSE
