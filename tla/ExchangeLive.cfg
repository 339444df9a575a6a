\* Two authorizations under one key and two token requests, expiry within two
\* ticks and one failure of the connection or of the process.
CONSTANTS
  Nil = Nil
  Malformed = Malformed
  site = site
  app = app
  k1 = k1
  c1 = c1
  c2 = c2
  uri = uri
  sec = sec
  Keys = {k1}
  Challenges = {c1, c2}
  ClientIds = {app}
  Uris = {uri}
  ScopeNames = {"read", "write"}
  Words <- SingleWords
  Secrets = {sec}
  Sites = {site}
  ServerScopes <- Scopes
  Rows <- OneRow
  Registered <- AppOnly
  Queries <- SameServer
  Forms <- ExchangeForms
  Setters = {a1, a2}
  Getters = {t1, t2}
  Lifetime = 2
  MaxFaults = 1
  MaxEdits = 0
SPECIFICATION FairSpec
PROPERTY EveryRequestEnds
CHECK_DEADLOCK FALSE
