SPECIFICATION Spec
CONSTANTS
  old = old
  new = new
  blank = blank
  error = error
  off = off
  absent = absent
  k1 = k1
  k2 = k2
  issuer = issuer
  web = web
  demo = demo
  acme = acme
  none = none
  bare = bare
  cold = cold
  Keys <- MCKeys
  Placeholder = blank
  Error = error
  Gate = off
  None = none
  KeyTTL = 2
  KeyRetry = 1
  Tenants <- MCTenants
  DefaultTenant = demo
  NoAssertion = bare
  MaxLifetime = 2
  Skew = 1
  NoKeys = cold
  JwksTTL = 3
  Refetch = 2
  ColdRetry = 1
  Leeway = 0
  Issuer = issuer
  Clients <- MCClients
  EnvKey = old
  Kids <- MCKids
  Documents <- MCDocuments
  NoToken = absent
  Workload <- MCWorkload
  MaxTime = 4
INVARIANTS OwnTenant
PROPERTIES KeyIsCurrent SigningKeyIsCurrent
CONSTRAINT OneRotates
