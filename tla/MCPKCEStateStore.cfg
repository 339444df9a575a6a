\* Two authorizations and three lookups on two keys; states expire within
\* two ticks; two failures of the connection.
CONSTANTS
  Nil = Nil
  Keys = {k1, k2}
  Challenges = {c1}
  ClientIds = {app}
  Uris = {uri}
  ScopeNames = {}
  Words <- SingleWords
  Secrets = {sec}
  Setters = {s1, s2}
  Getters = {g1, g2, g3}
  Lifetime = 2
  MaxFaults = 2
SYMMETRY Interchangeable
SPECIFICATION StoreSpec
INVARIANTS StoreTypeOK FoundUnderWanted NoCallWaitsInVain
PROPERTIES LedgerKept AnswersComeCloser
CHECK_DEADLOCK FALSE
