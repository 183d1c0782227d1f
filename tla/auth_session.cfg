SPECIFICATION FairSpec
CONSTANTS
  b1 = b1
  b2 = b2
  f1 = f1
  f2 = f2
  UsernameMax = 1
  PasswordMax = 1
  RequestParts = 2
  ResponseParts = 2
  Backends = {b1}
  Frontends = {f1, f2}
  TrustedPeers = {f1}
  Terminals = {}
  UsernameLines <- Right
  PasswordLines <- RightOrWrong
  Credential <- Account
  Strayed = {}
  Faults = {}
  Signalled = {b1}
  Crashes = {b1, f1}
INVARIANTS
  AnswerDelivered
PROPERTIES
  OneAnswerEach
  FrontendsEnd
  ServiceEnds
