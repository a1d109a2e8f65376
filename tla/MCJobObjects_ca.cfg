SPECIFICATION Spec
CONSTANTS
  p1 = p1
  p2 = p2
  t1 = t1
  t2 = t2
  h1 = h1
  h2 = h2
  dh = dh
  Absent = Absent
  DefaultHost = dh
  KeyPrefixes <- MCKeyPrefixes
  Tokens <- MCTokens
  Hosts <- MCHosts
  UserSecrets <- MCUserSecrets
  Profiles <- MCProfiles
  Requests <- MCRequests
  JobIDs <- MCJobIDs
  GUIDs <- MCGUIDs
  MaxEdits = 1
  maxK8sNameLength = 11
  specSuffix <- MCspecSuffix
  modelRefSuffix <- MCmodelRefSuffix
  netpolSuffix <- MCnetpolSuffix
INVARIANTS NamedCAMounted
CHECK_DEADLOCK FALSE
