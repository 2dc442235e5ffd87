SPECIFICATION Spec
CONSTANTS
  r1 = r1
  r2 = r2
  r3 = r3
  s1 = s1
  s2 = s2
  k1 = k1
  k2 = k2
  bad = bad
  p = p
  q = q
  t1 = t1
  t2 = t2
  None = None
  Malformed = bad
  Requests <- MCRequests
  SessionIds <- MCSessionIds
  Tokens <- MCTokens
  Principals <- MCPrincipals
  Trips <- MCTrips
  Contacts <- MCContacts
  Legacy <- MCLegacy
  Workload <- MCWorkload
SYMMETRY Symmetry
INVARIANTS OnlyByTheOwner LinkIsProven ContactsStay
PROPERTIES NeverMoved
