SPECIFICATION AuditSpec
CONSTANTS
  r1 = r1
  r2 = r2
  r3 = r3
  s1 = s1
  s2 = s2
  c1 = c1
  c2 = c2
  Requests = {r1, r2, r3}
  Sessions = {s1, s2}
  Components = {c1, c2}
  None = None
  Workload <- MCWorkload
SYMMETRY Symmetry
CONSTRAINT TwoOrThree
INVARIANTS OneInquiryPerHandOff HandOffsSeparatedByEdits AlreadySentIsOnFile RouteIsTaken LookedUpIsStillSo
PROPERTIES ImplementsHandOff UnovertakenWriteIsExact
