SPECIFICATION SuiteSpec
CONSTANTS
  Item = {1, 2, 3}
  QueueSize = 2
  MaxBatchSize = 2
  Stopper = {s1}
  Node = {n1, n2}
  Key = {k1}
  StorageKey = {k1}
  Value = {public, secret}
  Visible = {public}
  MaxFills = 2
  MaxQueue = 2
  Call = {c1, c2}
  MaxToken = 3
  MaxLostWrites = 1
  Table = {1, 2}
  Tx = {1, 2, 3}
  UserId = {1, 2}
  Identity = {i1}
  Client = {c1, c2}
  Session = {s1}
  AccessToken = {t1, t2, t3}
  MaxTokens = 1
  MaxPassword = 2
  ChallengeTTL = 3
  TokenTTL = 2
  MaxTime = 5
  Version = {1, 2, 3}
  MaxPath = 3
  MaxLostMoves = 2
INVARIANTS StopMeansFlushed StaleWasOvertaken StoredIsLive LastReplaces SomeGoesOn OldCopiesGo IdentityLeadsSomewhere   UpgradeIsRecoverable
 
