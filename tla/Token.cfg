SPECIFICATION FairSpec
CONSTANTS
  Requests = {r1}
  Secrets = {s1, s2}
  TTLs <- MCTTLs
  Second = 2
  Period = 2
  PollTimeout = 2
  MaxDisturbances = 2
  None = None
INVARIANTS SweepComplete
PROPERTIES NotEarly TokensEnd Answered
