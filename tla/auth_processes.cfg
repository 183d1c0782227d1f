SPECIFICATION Spec
CONSTANTS
  b1 = b1
  b2 = b2
  f1 = f1
  f2 = f2
  UsernameMax = 1
  PasswordMax = 1
  RequestParts = 2
  ResponseParts = 2
  Backends = {b1, b2}
  Frontends = {f1}
  TrustedPeers = {f1}
  Terminals = {f1}
  UsernameLines <- RightOrCut
  PasswordLines <- AnyLine
  Credential <- Account
  Strayed = {f1}
  Faults = {"sigaction", "load", "drop", "socket", "chmod", "listen", "getsockopt", "tcsetattr", "close"}
  Signalled = {b1, b2, f1}
  Crashes = {b1, f1}
INVARIANTS
  TypeOK
  EchoRestored
  NoSecretLeftBehind
  NameIsAccountedFor
  NameIsUsable
  SuccessIsEarned
