SPECIFICATION FairSpec
CONSTANTS
  b1 = b1
  b2 = b2
  f1 = f1
  f2 = f2
  UsernameMax = 1
  PasswordMax = 1
  RequestParts = 2
  ResponseParts = 2
  Backends = {b1}
  Frontends = {f1}
  TrustedPeers = {f1}
  Terminals = {}
  UsernameLines <- Right
  PasswordLines <- Right
  Credential <- Account
  Strayed = {f1}
  Faults = {}
  Signalled = {b1}
  Crashes = {}
PROPERTY
  StopIsHonoured
