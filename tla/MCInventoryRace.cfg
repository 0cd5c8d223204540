SPECIFICATION FairSpec
INVARIANTS AtMostOneInvocation DenialsAreHonest
PROPERTIES EveryCallEnds
CONSTANTS
  None = None
  c1 = c1
  c2 = c2
  t1 = t1
  t2 = t2
  k1 = k1
  k2 = k2
  k3 = k3
  badId = badId
  widget = widget
  broken = broken
  rec1 = rec1
  rec2 = rec2
  broker = broker
  holder = holder
  stranger = stranger
  scope = scope
  otherScope = otherScope
  BrokerKey = broker
  QualifiedScope = scope
  Catalog <- MCCatalog
  Tokens = {t1, t2}
  Skus = {widget, broken}
  RecordIds = {rec1, rec2}
  MaxLifetime = 1
  Calls = {k1, k2}
  CredentialIds = {c1}
  ChallengeInputs <- OneChallenge
  Requests <- RacingRequests
  ChallengeTTL = 1
  MaxTime = 1
  MaxBoots = 1
