SPECIFICATION FairSpec
INVARIANTS OneCredentialPerChallenge RefusalsBurnNothing ApprovedIsRefusedForChallengeOnly
PROPERTIES EveryCallEnds
CONSTANTS
  None = None
  k1 = k1
  k2 = k2
  k3 = k3
  t1 = t1
  t2 = t2
  h1 = h1
  h2 = h2
  id1 = id1
  id2 = id2
  id3 = id3
  ours = ours
  other = other
  Holders = {h1, h2}
  Policy <- MCPolicy
  ChallengeTTL = 1
  CredentialTTL = 1
  Calls = {k1, k2}
  Tokens = {t1}
  CredentialIds = {id1, id2}
  Submissions <- RacingSubmissions
  MaxTime = 1
  MaxBoots = 1
