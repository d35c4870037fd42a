\* First logins, campaigns and usage of two members and a newcomer.
SPECIFICATION Spec
CONSTANTS
  r1 = r1
  r2 = r2
  r3 = r3
  m1 = m1
  m2 = m2
  i1 = i1
  i2 = i2
  i3 = i3
  c1 = c1
  c2 = c2
  Request = {r1, r2, r3}
  Identity = {i1, i2, i3}
  Member = {m1, m2}
  MemberOf <- Members
  Campaign = {c1, c2}
  SeedOwner <- Owners
  NoCampaign = NoCampaign
  NoUser = NoUser
  Scenarios <- Everything
  Cost = {1}
  Pending = 2
  MaxCampaigns = 3
  MaxTurns = 1
  MaxRequests = 1
  MaxTokens = 6
  MaxProjectRequests = 5
  MaxProjectTokens = 8
  LastDay = 1
INVARIANTS
  TypeOK
  SignInSucceeds
  RowsWhole
  OverdrawnOnlyByOverlap
PROPERTIES
  SpendingIsKept
  TenantsApart
  ImplementsDirectory
