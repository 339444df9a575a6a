\* Two authorizations and one token request of any shape, one change of a
\* client between any two steps.
CONSTANTS
  Nil = Nil
  Malformed = Malformed
  site = site
  other = other
  app = app
  phone = phone
  k1 = k1
  k2 = k2
  c1 = c1
  c2 = c2
  uri = uri
  uri2 = uri2
  sec = sec
  sec2 = sec2
  Keys = {k1, k2}
  Challenges = {c1, c2}
  ClientIds = {app, phone}
  Uris = {uri, uri2}
  ScopeNames = {"read", "write", "refresh_token", "read refresh_token"}
  Words <- ScopeWords
  Secrets = {sec, sec2}
  Sites = {site, other}
  ServerScopes <- Scopes
  Rows <- EditedRows
  Registered <- BothClients
  Queries <- RequestQueries
  Forms <- RequestForms
  Setters = {a1, a2}
  Getters = {t1}
  Lifetime = 1
  MaxFaults = 0
  MaxEdits = 1
SYMMETRY Interchangeable
SPECIFICATION Spec
INVARIANTS ServerTypeOK TokenBackedByGrant ScopesAsAuthorized
CHECK_DEADLOCK FALSE
