SPECIFICATION SuiteSpec
CONSTANTS
  Root = {r1}
  MaxRetry = 1
  MaxTurn = 1
  MaxFaults = 1
  Process = {api, cron}
  Starter = {api, cron}
  Slot = {1, 2}
  Schedule = {"s"}
  Version = {v1}
  Admin = {"a", "b"}
  Channel = {"c"}
  MaxSends = 1
CHECK_DEADLOCK FALSE
INVARIANTS RecordAgrees  ReloadCatchesUp EnabledHasChannels HistoryIsHonest
PROPERTY QueuedIsSettled
