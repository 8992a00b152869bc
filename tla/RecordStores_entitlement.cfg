SPECIFICATION RecSpec
CONSTANTS
  RecordBackends = {"postgres"}
  RecordTables = {"paid_reports"}
  Savers = {v1, v2}
  RowKeys = {k1, k2}
  ReadAtMost = 2
  MaxStoreFaults = 0
INVARIANTS EntitlementsStay
CHECK_DEADLOCK FALSE
