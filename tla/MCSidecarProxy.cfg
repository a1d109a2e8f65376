SPECIFICATION Spec
CONSTANTS
  r1 = r1
  r2 = r2
  j1 = j1
  sa1 = sa1
  sa2 = sa2
  ml1 = ml1
  oc1 = oc1
  oc2 = oc2
  k1 = k1
  k2 = k2
  kfp = kfp
  dh = dh
  uh = uh
  None = None
  NoTarget = NoTarget
  StaticToken = StaticToken
  Reqs <- MCReqs
  Jobs = {j1}
  Repository <- MCRepository
  Paths <- MCPaths
  Auths <- MCAuths
  Settings <- MCSettings
  Secrets <- MCSecrets
  KeyPrefixes = {kfp}
  Tokens = {k1, k2}
  Hosts = {dh, uh}
  DefaultHost = dh
  SaTokens <- MCSa
  MLflowTokens <- MCMl
  OciTokens <- MCOci
  TTL = 2
  MaxHold = 1
  MaxClock = 3
SYMMETRY Sym
INVARIANTS CredentialStaysHome TokenAgeBounded MessageNamesTarget NoListenerAfterShutdown
CHECK_DEADLOCK FALSE
