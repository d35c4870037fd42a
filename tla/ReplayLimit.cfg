\* A request and its retry, for the last turn of a campaign.
SPECIFICATION Spec
CONSTANTS
  Request = {r1, r2}
  Owner = {o1, o2}
  Key = {k1}
  Text = {t1, t2}
  Campaign = {c1}
  NoKey = NoKey
  NoCampaign = NoCampaign
  NoTurn = NoTurn
  o1 = o1
  o2 = o2
  k1 = k1
  t1 = t1
  t2 = t2
  c1 = c1
  l1 = l1
  i0 = i0
  Messages <- KeyedOnly
  BadText = {}
  SeedOwner <- Seeds
  Lock = {l1}
  LockId <- OneLock
  Instance = {r1, r2, i0}
  HomeOf <- Apart
  DeleteOn = {i0}
  MaxTurns = 1
  MaxCampaigns = 2
PROPERTY
  ReplayBypassesLimit
