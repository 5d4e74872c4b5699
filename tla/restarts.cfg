SPECIFICATION RestartSpec
CONSTANTS
  f1 = f1
  f2 = f2
  p1 = p1
  p2 = p2
  p3 = p3
  i1 = i1
  i2 = i2
  peer = peer
  self = self
  MaxCrashes = 2
  MaxMessages = 4
  Files <- MCFiles
  Good <- MCGood
  Posts = {p1, p2, p3}
  NoFile = NoFile
  Peers = {peer}
  Self = self
  MaxKeys = 3
  MaxTime = 8
  MaxInvites = 1
  Ttl = 2
  PlaybookRequests = {p1, p2, p3}
  NoPlaybook = NoPlaybook
  Instances = {i1, i2}
  MaxPosts = 2
  PageRequests = {p1, p2, p3}
  PageStatuses = {"done"}
INVARIANT ArchivedIsLogged
INVARIANT OneResult
INVARIANT AloneIsAtomic
INVARIANT ConfigAccounted
INVARIANT PairMatches
INVARIANT InvitesHonoured
INVARIANT CacheForgets
INVARIANT RunsAccounted
INVARIANT LiveInOrder
INVARIANT PageFollows
PROPERTY ImplementsDelivery
PROPERTY RepeatsAccounted
PROPERTY EventuallyPrinted
CHECK_DEADLOCK FALSE
